--------------------------- MODULE BackendProofs ----------------------------
(***************************************************************************)
(* Proofs about Backend, for all programs: the emitter meets only terms    *)
(* that the type checker has typed, makes each temporary for one term, and *)
(* lets every jump land; the unification of types comes to an end, and     *)
(* equal types stay equal when others are added and bound.                 *)
(***************************************************************************)
EXTENDS Backend, SequenceTheorems, FiniteSetTheorems, TLAPS

Parts(t) == program.terms[t].kids
Names(t) == program.terms[t].names

\* Terms that the type checker knows, with all that is in them.
Closed(W) ==
    /\ W \subseteq TermAt
    /\ \A t \in W : Kind(t) \in Typable /\ \A i \in DOMAIN Parts(t) : Parts(t)[i] \in W

Roots == {program.decls[d].exp : d \in DOMAIN program.decls} \ {NULL}

-----------------------------------------------------------------------------
(* What the walk of the type checker keeps. *)

Done == {t \in TermAt : typed[t] # NULL}

FrameOK(f, terms, types) ==
    /\ f = [term |-> f.term, at |-> f.at, fun |-> f.fun, prev |-> f.prev]
    /\ f.term \in DOMAIN terms \cup {NULL}
    /\ f.term # NULL =>
        /\ types[f.term] = NULL
        /\ f.at \in 0 .. Len(terms[f.term].kids)
        /\ \A i \in 1 .. f.at : terms[f.term].kids[i] \in {t \in DOMAIN terms : types[t] # NULL}

\* The running calls go from a term to one of its parts.
StackOK ==
    /\ \E S : stack \in Seq(S)
    /\ \A s \in 1 .. Len(stack) : FrameOK(stack[s], program.terms, typed)
    /\ \A s, u \in 1 .. Len(stack) : s < u =>
        /\ stack[u].term # NULL
        /\ stack[s].term # NULL => stack[s].term < stack[u].term

Walk ==
    /\ DOMAIN typed = TermAt
    /\ Closed(Done)
    /\ StackOK
    /\ decl \in Nat \ {0}
    /\ \A d \in DOMAIN program.decls :
        d < decl /\ program.decls[d].exp # NULL => program.decls[d].exp \in Done

\* Once the type checker has accepted the program, all that the emitter can
\* come to is typed, and no initialiser is missing.
Checked ==
    \E W \in SUBSET TermAt :
        /\ Closed(W) /\ Roots \subseteq W
        /\ \A f \in 1 .. Len(frames) : frames[f].term \in W

-----------------------------------------------------------------------------
(* Programs. *)

LEMMA ProgramFacts ==
    ASSUME program \in Programs
    PROVE  /\ program.terms \in Seq(Term) /\ program.decls \in Seq(Declaration)
           /\ program.maxId \in Nat
           /\ TermAt = 1 .. Len(program.terms) /\ Len(program.terms) \in Nat
           /\ DOMAIN program.decls = 1 .. Len(program.decls) /\ Len(program.decls) \in Nat
           /\ Roots \subseteq TermAt
<1>1. WellFormed(program)
    BY BackendAssumption
<1>2. program \in Program
    BY <1>1 DEF WellFormed
<1>3. \A d \in DOMAIN program.decls : program.decls[d].exp \in DOMAIN program.terms \cup {NULL}
    BY <1>1 DEF WellFormed
<1>4. program.terms \in Seq(Term) /\ program.decls \in Seq(Declaration) /\ program.maxId \in Nat
    BY <1>2 DEF Program
<1>5. Roots \subseteq TermAt
    BY <1>3 DEF Roots, TermAt
<1> PICK S, D : S = Term /\ D = Declaration
    OBVIOUS
<1>6. program.terms \in Seq(S) /\ program.decls \in Seq(D)
    BY <1>4
<1> QED  BY <1>4, <1>5, <1>6 DEF TermAt

\* The parts and names of a term.
LEMMA TermFacts ==
    ASSUME program \in Programs, NEW t \in TermAt
    PROVE  /\ Parts(t) \in Seq(Nat \cup {NULL})
           /\ DOMAIN Parts(t) = 1 .. Len(Parts(t)) /\ Len(Parts(t)) \in Nat
           /\ \A i \in DOMAIN Parts(t) :
                Parts(t)[i] # NULL => Parts(t)[i] \in TermAt /\ Parts(t)[i] < t
           /\ Kind(t) \in {"return", "function"} => Len(Parts(t)) = 1
           /\ Kind(t) \in {"binary", "assignment"} => Len(Parts(t)) = 2
           /\ Kind(t) = "application" => Len(Parts(t)) > 0
<1>1. WellFormed(program)
    BY BackendAssumption
<1>2. t \in DOMAIN program.terms /\ t \in Nat /\ t <= Len(program.terms)
    BY ProgramFacts DEF TermAt
<1>3. Shaped(program.terms[t])
    BY <1>1, <1>2 DEF WellFormed
<1>4. \A i \in DOMAIN Parts(t) : Parts(t)[i] # NULL => Parts(t)[i] \in 1 .. t - 1
    BY <1>1, <1>2 DEF WellFormed, Parts
<1>5. program.terms[t] \in Term
    <2> PICK S : S = Term
        OBVIOUS
    <2>1. program.terms \in Seq(S)
        BY ProgramFacts
    <2> QED  BY <1>2, <2>1
<1>6. Parts(t) \in Seq(Nat \cup {NULL})
    BY <1>5 DEF Term, Parts
<1>7. /\ Kind(t) \in {"return", "function"} => Len(Parts(t)) = 1
      /\ Kind(t) \in {"binary", "assignment"} => Len(Parts(t)) = 2
      /\ Kind(t) = "application" => Len(Parts(t)) > 0
    BY <1>3 DEF Shaped, Kind, Parts
<1>8. DOMAIN Parts(t) = 1 .. Len(Parts(t)) /\ Len(Parts(t)) \in Nat
    BY <1>6
<1>9. \A i \in DOMAIN Parts(t) : Parts(t)[i] # NULL => Parts(t)[i] \in TermAt /\ Parts(t)[i] < t
    BY <1>2, <1>4, ProgramFacts
<1> QED  BY <1>6, <1>7, <1>8, <1>9

LEMMA NameFacts ==
    ASSUME program \in Programs, NEW t \in TermAt, NEW i \in DOMAIN Names(t)
    PROVE  /\ Names(t)[i] \in identifier \cup {NULL}
           /\ Names(t)[i] # NULL /\ Names(t)[i].isAuto => Names(t)[i].id < program.maxId
<1>1. WellFormed(program)
    BY BackendAssumption
<1>2. t \in DOMAIN program.terms
    BY DEF TermAt
<1>3. program.terms[t] \in Term
    <2> PICK S : S = Term
        OBVIOUS
    <2>1. program.terms \in Seq(S)
        BY ProgramFacts
    <2> QED  BY <1>2, <2>1
<1>4. Names(t) \in Seq(identifier \cup {NULL})
    BY <1>3 DEF Term, Names
<1> PICK S : S = identifier \cup {NULL}
    OBVIOUS
<1>5. Names(t)[i] \in S
    BY <1>4
<1>6. Names(t)[i] # NULL /\ Names(t)[i].isAuto => Names(t)[i].id < program.maxId
    BY <1>1, <1>2 DEF WellFormed, Names
<1> QED  BY <1>5, <1>6

\* A name is missing only in a block.
LEMMA NamesFacts ==
    ASSUME program \in Programs, NEW t \in TermAt
    PROVE  /\ DOMAIN Names(t) = 1 .. Len(Names(t)) /\ Len(Names(t)) \in Nat
           /\ Kind(t) = "var" => Len(Names(t)) = 1 /\ Names(t)[1] # NULL
<1>1. WellFormed(program)
    BY BackendAssumption
<1>2. t \in DOMAIN program.terms
    BY DEF TermAt
<1>3. Shaped(program.terms[t])
    BY <1>1, <1>2 DEF WellFormed
<1>4. program.terms[t] \in Term
    <2> PICK S : S = Term
        OBVIOUS
    <2>1. program.terms \in Seq(S)
        BY ProgramFacts
    <2> QED  BY <1>2, <2>1
<1>5. Names(t) \in Seq(identifier \cup {NULL})
    BY <1>4 DEF Term, Names
<1>6. Kind(t) = "var" => Len(Names(t)) = 1
    BY <1>3 DEF Shaped, Kind, Names
<1>7. Kind(t) # "block" => NULL \notin {Names(t)[i] : i \in 1 .. Len(Names(t))}
    BY <1>3 DEF Shaped, Kind, Names
<1>8. ASSUME Kind(t) = "var" PROVE Names(t)[1] # NULL
    <2> PICK n : n = Len(Names(t))
        OBVIOUS
    <2>0. n = 1
        BY <1>6, <1>8
    <2>1. 1 \in 1 .. Len(Names(t))
        BY <2>0
    <2>2. Names(t)[1] \in {Names(t)[i] : i \in 1 .. Len(Names(t))}
        BY <2>1
    <2>3. Kind(t) # "block"
        BY <1>8
    <2> QED  BY <1>7, <2>2, <2>3
<1> QED  BY <1>5, <1>6, <1>8

\* What is assigned to is a variable, or unknown to the type checker.
LEMMA LvalueFacts ==
    ASSUME program \in Programs, NEW t \in TermAt, Kind(t) = "assignment",
           \A i \in 1 .. Len(Parts(t)) : Parts(t)[i] \in TermAt /\ Kind(Parts(t)[i]) \in Typable
    PROVE  /\ Parts(t)[2] \in TermAt
           /\ 1 \in DOMAIN Names(Parts(t)[2]) /\ Names(Parts(t)[2])[1] # NULL
<1>1. WellFormed(program)
    BY BackendAssumption
<1>2. Kind(Parts(t)[2]) \in {"var"} \cup Untypable
    BY <1>1 DEF WellFormed, Kind, Parts, TermAt
<1>3. Len(Parts(t)) = 2
    BY TermFacts
<1>4. Parts(t)[2] \in TermAt /\ Kind(Parts(t)[2]) \in Typable
    BY <1>3
<1>5. Kind(Parts(t)[2]) = "var"
    BY <1>2, <1>4 DEF Typable, Untypable
<1> QED  BY <1>4, <1>5, NamesFacts

-----------------------------------------------------------------------------
(* Sequences as stacks. *)

LEMMA PushFacts ==
    ASSUME NEW S, NEW seq \in Seq(S), NEW e
    PROVE  /\ \E R : <<e>> \o seq \in Seq(R)
           /\ Len(<<e>> \o seq) = Len(seq) + 1 /\ Len(seq) \in Nat
           /\ (<<e>> \o seq)[1] = e
           /\ \A i \in 1 .. Len(seq) : (<<e>> \o seq)[i + 1] = seq[i]
           /\ \A i \in 2 .. Len(seq) + 1 : (<<e>> \o seq)[i] = seq[i - 1]
<1> PICK R : R = S \cup {e}
    OBVIOUS
<1>1. <<e>> \in Seq(R) /\ seq \in Seq(R)
    OBVIOUS
<1> QED  BY <1>1

LEMMA PopFacts ==
    ASSUME NEW S, NEW seq \in Seq(S), seq # <<>>
    PROVE  /\ Tail(seq) \in Seq(S)
           /\ Len(seq) \in Nat \ {0} /\ Len(Tail(seq)) = Len(seq) - 1
           /\ \A i \in 1 .. Len(seq) - 1 : Tail(seq)[i] = seq[i + 1]
           /\ Head(seq) = seq[1] /\ seq[1] \in S
OBVIOUS

LEMMA SetIn ==
    ASSUME NEW S, NEW seq \in Seq(S), seq # <<>>, NEW e \in S
    PROVE  [seq EXCEPT ![1] = e] \in Seq(S)
OBVIOUS

LEMMA SetFacts ==
    ASSUME NEW S, NEW seq \in Seq(S), seq # <<>>, NEW e
    PROVE  /\ \E R : [seq EXCEPT ![1] = e] \in Seq(R)
           /\ Len([seq EXCEPT ![1] = e]) = Len(seq) /\ Len(seq) \in Nat \ {0}
           /\ [seq EXCEPT ![1] = e][1] = e
           /\ \A i \in 2 .. Len(seq) : [seq EXCEPT ![1] = e][i] = seq[i]
<1> PICK R : R = S \cup {e}
    OBVIOUS
<1>1. seq \in Seq(R) /\ e \in R
    OBVIOUS
<1> QED  BY <1>1

-----------------------------------------------------------------------------
(* The steps of the type checker, by what they do to the walk. *)

TopTerm == Head(stack).term
TopAt == Head(stack).at
InTerm == status = "typing" /\ stack # <<>> /\ TopTerm # NULL
NextPart == Parts(TopTerm)[TopAt + 1]

Stopped == program' = program /\ status' \in {"fatal", "crash"}

Same == UNCHANGED <<program, status, typed, decl>>

Called ==
    /\ \/ InTerm /\ TopAt < Len(Parts(TopTerm))
       \/ status = "typing" /\ stack = <<>>
    /\ LET t == IF stack = <<>> THEN program.decls[decl].exp ELSE NextPart
       IN  /\ stack = <<>> => t # NULL /\ decl \in DOMAIN program.decls
           /\ t # NULL => typed[t] = NULL
           /\ stack' = <<T!Frame(t)>> \o stack
    /\ Same

PartTyped == TopAt < Len(Parts(TopTerm)) /\ NextPart # NULL /\ typed[NextPart] # NULL

Taken ==
    /\ InTerm /\ PartTyped
    /\ stack' = [stack EXCEPT ![1].at = @ + 1]
    /\ Same

Entered ==
    /\ InTerm
    /\ \E fun, prev : stack' = [stack EXCEPT ![1].fun = fun, ![1].prev = prev]
    /\ Same

Returned ==
    /\ InTerm /\ Kind(TopTerm) \in Typable
    /\ TopAt = Len(Parts(TopTerm)) \/ (Kind(TopTerm) = "function" /\ PartTyped)
    /\ stack' = Tail(stack)
    /\ \E n : typed' = [typed EXCEPT ![TopTerm] = n]
    /\ UNCHANGED <<program, status, decl>>

Declared ==
    /\ status = "typing" /\ stack = <<>> /\ decl <= Len(program.decls)
    /\ program.decls[decl].exp # NULL => typed[program.decls[decl].exp] # NULL
    /\ decl' = decl + 1
    /\ UNCHANGED <<program, status, typed, stack>>

Accepted ==
    /\ status = "typing" /\ decl > Len(program.decls)
    /\ status' = "typed" /\ program' = program

WalkStep == Stopped \/ Called \/ Taken \/ Entered \/ Returned \/ Declared \/ Accepted

\* A term that is done has its parts done, so that it is called for no other.
LEMMA InTermFacts ==
    ASSUME program \in Programs, Walk, InTerm
    PROVE  /\ TopTerm \in TermAt /\ stack[1] = Head(stack) /\ Len(stack) \in Nat \ {0}
           /\ typed[TopTerm] = NULL /\ TopAt \in 0 .. Len(Parts(TopTerm))
           /\ \A i \in 1 .. TopAt : Parts(TopTerm)[i] \in Done
<1>1. PICK S : stack \in Seq(S)
    BY DEF Walk, StackOK
<1>2. stack[1] = Head(stack) /\ Len(stack) \in Nat \ {0}
    BY <1>1, PopFacts DEF InTerm
<1>3. FrameOK(stack[1], program.terms, typed)
    BY <1>2 DEF Walk, StackOK
<1> QED  BY <1>2, <1>3 DEF FrameOK, InTerm, TopTerm, TopAt, TermAt, Parts, Done

LEMMA CalledKeeps ==
    ASSUME program \in Programs, Walk, Called
    PROVE  Walk'
<1> DEFINE t == IF stack = <<>> THEN program.decls[decl].exp ELSE NextPart
<1>1. PICK S : stack \in Seq(S)
    BY DEF Walk, StackOK
<1>2. stack' = <<T!Frame(t)>> \o stack /\ (t # NULL => typed[t] = NULL)
    BY DEF Called
<1>3. ASSUME t # NULL
      PROVE  /\ t \in TermAt
             /\ \A i \in 1 .. Len(stack) : stack[i].term # NULL /\ t < stack[i].term
    <2>1. CASE stack = <<>>
        <3>1. t \in Roots
            BY <1>3, <2>1 DEF Called, Roots
        <3> QED  BY <2>1, <3>1, ProgramFacts
    <2>2. CASE stack # <<>>
        <3>1. InTerm /\ TopAt < Len(Parts(TopTerm))
            BY <2>2 DEF Called
        <3>2. TopTerm \in TermAt /\ TopAt \in 0 .. Len(Parts(TopTerm)) /\ stack[1] = Head(stack)
              /\ Len(stack) \in Nat \ {0}
            BY <3>1, InTermFacts
        <3>3. t \in TermAt /\ t < TopTerm
            BY <1>3, <2>2, <3>1, <3>2, TermFacts DEF NextPart
        <3>4. \A i \in 2 .. Len(stack) : stack[i].term # NULL /\ stack[1].term < stack[i].term
            BY <3>1, <3>2 DEF Walk, StackOK, InTerm, TopTerm
        <3>5. ASSUME NEW i \in 1 .. Len(stack) PROVE stack[i].term # NULL /\ t < stack[i].term
            <4>1. CASE i = 1
                BY <3>1, <3>2, <3>3, <4>1 DEF InTerm, TopTerm
            <4>2. CASE i # 1
                <5>1. i \in 2 .. Len(stack)
                    BY <3>2, <4>2
                <5>2. FrameOK(stack[i], program.terms, typed)
                    BY <3>2, <5>1 DEF Walk, StackOK
                <5>3. stack[i].term \in TermAt
                    BY <3>4, <5>1, <5>2 DEF FrameOK, TermAt
                <5> QED  BY <3>2, <3>3, <3>4, <5>1, <5>3, ProgramFacts DEF TopTerm
            <4> QED  BY <4>1, <4>2
        <3> QED  BY <3>3, <3>5
    <2> QED  BY <2>1, <2>2
<1>4. FrameOK(T!Frame(t), program.terms, typed)
    <2>1. T!Frame(t) = [term |-> t, at |-> 0, fun |-> NULL, prev |-> NULL]
        BY DEF T!Frame
    <2>2. t # NULL => t \in TermAt /\ Len(Parts(t)) \in Nat
        BY <1>3, TermFacts
    <2>3. t # NULL => t \in DOMAIN program.terms /\ 0 \in 0 .. Len(program.terms[t].kids)
        BY <2>2 DEF TermAt, Parts
    <2> HIDE DEF t
    <2> QED  BY <1>2, <2>1, <2>3 DEF FrameOK
<1>5. StackOK'
    <2>1. /\ \E R : stack' \in Seq(R)
          /\ Len(stack') = Len(stack) + 1 /\ Len(stack) \in Nat
          /\ stack'[1] = T!Frame(t)
          /\ \A i \in 2 .. Len(stack) + 1 : stack'[i] = stack[i - 1]
        BY <1>1, <1>2, PushFacts
    <2>2. ASSUME NEW s \in 1 .. Len(stack') PROVE FrameOK(stack'[s], program.terms, typed)
        <3>1. s = 1 \/ (s - 1 \in 1 .. Len(stack) /\ stack'[s] = stack[s - 1])
            BY <2>1, <2>2
        <3> QED  BY <1>4, <2>1, <3>1 DEF Walk, StackOK
    <2>4. ASSUME NEW s \in 1 .. Len(stack'), NEW u \in 1 .. Len(stack'), s < u
          PROVE  /\ stack'[u].term # NULL
                 /\ stack'[s].term # NULL => stack'[s].term < stack'[u].term
        <3>1. u - 1 \in 1 .. Len(stack) /\ stack'[u] = stack[u - 1]
            BY <2>1, <2>4
        <3>2. CASE s = 1
            <4>1. stack'[s].term = t
                BY <2>1, <3>2 DEF T!Frame
            <4>2. stack[u - 1].term # NULL
                <5>1. CASE u = 2
                    <6>1. stack # <<>>
                        BY <1>1, <3>1
                    <6>2. InTerm
                        BY <6>1 DEF Called
                    <6> QED  BY <1>1, <5>1, <6>1, <6>2, PopFacts DEF InTerm, TopTerm
                <5>2. CASE u # 2
                    <6>1. 1 \in 1 .. Len(stack) /\ 1 < u - 1
                        BY <2>1, <2>4, <3>1, <3>2, <5>2
                    <6> QED  BY <3>1, <6>1 DEF Walk, StackOK
                <5> QED  BY <5>1, <5>2
            <4> QED  BY <1>3, <3>1, <4>1, <4>2
        <3>3. CASE s # 1
            <4>1. s - 1 \in 1 .. Len(stack) /\ stack'[s] = stack[s - 1] /\ s - 1 < u - 1
                BY <2>1, <2>4, <3>3
            <4> QED  BY <3>1, <4>1 DEF Walk, StackOK
        <3> QED  BY <3>2, <3>3
    <2> QED  BY <2>1, <2>2, <2>4 DEF StackOK, Called, Same
<1> QED  BY <1>5 DEF Walk, Called, Same, Closed, Done, TermAt, Parts, Kind

\* Another frame for the same term.
LEMMA TopSetKeeps ==
    ASSUME StackOK, stack # <<>>, NEW f, FrameOK(f, program.terms, typed),
           f.term = TopTerm, stack' = [stack EXCEPT ![1] = f], Same
    PROVE  StackOK'
<1>1. PICK S : stack \in Seq(S)
    BY DEF StackOK
<1>2. /\ \E R : stack' \in Seq(R)
      /\ Len(stack') = Len(stack) /\ Len(stack) \in Nat \ {0}
      /\ stack'[1] = f
      /\ \A i \in 2 .. Len(stack) : stack'[i] = stack[i]
    BY <1>1, SetFacts
<1>3. stack[1].term = TopTerm
    BY <1>1, PopFacts DEF TopTerm
<1>4. \A s \in 1 .. Len(stack) : stack'[s].term = stack[s].term
    BY <1>2, <1>3
<1>5. \A s \in 1 .. Len(stack) : FrameOK(stack'[s], program.terms, typed)
    BY <1>2 DEF StackOK
<1> QED  BY <1>2, <1>4, <1>5 DEF StackOK, Same

LEMMA TakenKeeps ==
    ASSUME program \in Programs, Walk, Taken
    PROVE  Walk'
<1>1. PICK S : stack \in Seq(S)
    BY DEF Walk, StackOK
<1>2. InTerm /\ PartTyped /\ stack # <<>>
    BY DEF Taken, InTerm
<1>3. /\ TopTerm \in TermAt /\ stack[1] = Head(stack) /\ Len(stack) \in Nat \ {0}
      /\ typed[TopTerm] = NULL /\ TopAt \in 0 .. Len(Parts(TopTerm))
      /\ \A i \in 1 .. TopAt : Parts(TopTerm)[i] \in Done
    BY <1>2, InTermFacts
<1> DEFINE f == [stack[1] EXCEPT !.at = @ + 1]
<1>4. stack' = [stack EXCEPT ![1] = f]
    BY DEF Taken
<1>5. f.term = TopTerm
    BY <1>3 DEF TopTerm
<1>6. NextPart \in Done /\ TopAt < Len(Parts(TopTerm))
    <2>1. TopAt + 1 \in DOMAIN Parts(TopTerm)
        BY <1>2, <1>3, TermFacts DEF PartTyped
    <2> QED  BY <1>2, <1>3, <2>1, TermFacts DEF PartTyped, NextPart, Done
<1>7. FrameOK(f, program.terms, typed)
    <2>1. FrameOK(stack[1], program.terms, typed)
        BY <1>3 DEF Walk, StackOK
    <2>2. f = [term |-> TopTerm, at |-> TopAt + 1, fun |-> stack[1].fun, prev |-> stack[1].prev]
        BY <1>3, <2>1 DEF FrameOK, TopTerm, TopAt
    <2>3. \A i \in 1 .. TopAt + 1 : Parts(TopTerm)[i] \in Done
        BY <1>3, <1>6 DEF NextPart
    <2>4. TopAt + 1 \in 0 .. Len(Parts(TopTerm))
        BY <1>3, <1>6, TermFacts
    <2>5. f.term = TopTerm /\ f.at = TopAt + 1
          /\ f = [term |-> f.term, at |-> f.at, fun |-> f.fun, prev |-> f.prev]
        BY <2>2
    <2> HIDE DEF f
    <2> QED  BY <1>3, <2>3, <2>4, <2>5 DEF FrameOK, TermAt, Parts, Done
<1>8. StackOK'
    <2> HIDE DEF f
    <2> QED  BY <1>2, <1>4, <1>5, <1>7, TopSetKeeps DEF Walk, Taken, InTerm
<1> QED  BY <1>8 DEF Walk, Taken, Same, Closed, Done, TermAt, Parts, Kind

LEMMA EnteredKeeps ==
    ASSUME program \in Programs, Walk, Entered
    PROVE  Walk'
<1>1. PICK S : stack \in Seq(S)
    BY DEF Walk, StackOK
<1>2. stack[1] = Head(stack) /\ stack # <<>> /\ 1 \in 1 .. Len(stack)
    BY <1>1, PopFacts DEF Entered, InTerm
<1>3. PICK fun, prev : stack' = [stack EXCEPT ![1].fun = fun, ![1].prev = prev]
    BY DEF Entered
<1> DEFINE f == [term |-> TopTerm, at |-> TopAt, fun |-> fun, prev |-> prev]
<1>4. FrameOK(stack[1], program.terms, typed)
    BY <1>2 DEF Walk, StackOK
<1>5. stack' = [stack EXCEPT ![1] = f]
    <2> PICK r, a, b, c, d : r = stack[1] /\ a = TopTerm /\ b = TopAt /\ c = r.fun /\ d = r.prev
        OBVIOUS
    <2> PICK q : q = [term |-> a, at |-> b, fun |-> fun, prev |-> d]
        OBVIOUS
    <2>1. r = [term |-> a, at |-> b, fun |-> c, prev |-> d]
        BY <1>2, <1>4 DEF FrameOK, TopTerm, TopAt
    <2>2. [r EXCEPT !.fun = fun] = q
        BY <2>1
    <2>3. [q EXCEPT !.prev = prev] = f
        OBVIOUS
    <2>4. [r EXCEPT !.fun = fun, !.prev = prev] = [[r EXCEPT !.fun = fun] EXCEPT !.prev = prev]
        OBVIOUS
    <2>5. stack' = [stack EXCEPT ![1] = [r EXCEPT !.fun = fun, !.prev = prev]]
        BY <1>1, <1>2, <1>3
    <2> QED  BY <2>2, <2>3, <2>4, <2>5
<1>6. FrameOK(f, program.terms, typed)
    BY <1>2, <1>4 DEF FrameOK, TopTerm, TopAt
<1>7. StackOK'
    BY <1>1, <1>2, <1>5, <1>6, TopSetKeeps DEF Walk, Entered, Same, TopTerm
<1> QED  BY <1>7 DEF Walk, Entered, Same, Closed, Done, TermAt, Parts, Kind

LEMMA ReturnedKeeps ==
    ASSUME program \in Programs, Walk, Returned
    PROVE  Walk'
<1>1. PICK S : stack \in Seq(S)
    BY DEF Walk, StackOK
<1>2. InTerm /\ stack # <<>> /\ Kind(TopTerm) \in Typable
    BY DEF Returned, InTerm
<1>3. /\ TopTerm \in TermAt /\ stack[1] = Head(stack) /\ Len(stack) \in Nat \ {0}
      /\ typed[TopTerm] = NULL /\ TopAt \in 0 .. Len(Parts(TopTerm))
      /\ \A i \in 1 .. TopAt : Parts(TopTerm)[i] \in Done
    BY <1>2, InTermFacts
<1>4. PICK n : typed' = [typed EXCEPT ![TopTerm] = n]
    BY DEF Returned
<1>5. \A i \in DOMAIN Parts(TopTerm) : Parts(TopTerm)[i] \in Done
    <2>1. DOMAIN Parts(TopTerm) = 1 .. Len(Parts(TopTerm)) /\ Len(Parts(TopTerm)) \in Nat
        BY <1>3, TermFacts
    <2>2. CASE TopAt = Len(Parts(TopTerm))
        BY <1>3, <2>1, <2>2
    <2>3. CASE Kind(TopTerm) = "function" /\ PartTyped
        <3>1. Len(Parts(TopTerm)) = 1 /\ TopAt = 0
            <4>1. Kind(TopTerm) \in {"return", "function"} => Len(Parts(TopTerm)) = 1
                BY <1>3, TermFacts
            <4>2. Len(Parts(TopTerm)) = 1
                BY <2>3, <4>1
            <4>3. TopAt < Len(Parts(TopTerm))
                BY <2>3 DEF PartTyped
            <4> QED  BY <1>3, <4>2, <4>3
        <3>2. NextPart \in TermAt
            BY <1>3, <2>1, <2>3, <3>1, TermFacts DEF PartTyped, NextPart
        <3> QED  BY <2>1, <2>3, <3>1, <3>2 DEF PartTyped, NextPart, Done
    <2> QED  BY <2>2, <2>3 DEF Returned
<1>6. /\ DOMAIN typed' = DOMAIN typed
      /\ \A t \in TermAt : t # TopTerm => typed'[t] = typed[t]
    BY <1>4
<1>7. Done \subseteq Done' /\ Done' \subseteq Done \cup {TopTerm}
    BY <1>3, <1>6 DEF Done, Returned, TermAt
<1>8. Closed(Done)'
    BY <1>2, <1>5, <1>7, <1>3 DEF Walk, Closed, Returned, TermAt, Parts, Kind
<1>9. StackOK'
    <2>1. /\ stack' \in Seq(S) /\ Len(stack') = Len(stack) - 1
          /\ \A i \in 1 .. Len(stack) - 1 : stack'[i] = stack[i + 1]
        BY <1>1, <1>2, PopFacts DEF Returned
    <2>2. ASSUME NEW s \in 1 .. Len(stack')
          PROVE  FrameOK(stack'[s], program.terms, typed')
        <3>1. s + 1 \in 1 .. Len(stack) /\ stack'[s] = stack[s + 1] /\ 1 < s + 1 /\ 1 \in 1 .. Len(stack)
            BY <1>3, <2>1
        <3>2. FrameOK(stack[s + 1], program.terms, typed)
            BY <3>1 DEF Walk, StackOK
        <3>3. TopTerm < stack[s + 1].term
            BY <1>2, <1>3, <3>1 DEF Walk, StackOK, InTerm, TopTerm
        <3>4. stack[s + 1].term \in DOMAIN program.terms => stack[s + 1].term # TopTerm
            BY <1>3, <3>3, ProgramFacts DEF TermAt
        <3> PICK f : f = stack[s + 1]
            OBVIOUS
        <3>5. f.term # NULL => typed'[f.term] = NULL
            BY <1>6, <3>2, <3>4 DEF FrameOK, TermAt
        <3>6. {t \in DOMAIN program.terms : typed[t] # NULL}
                \subseteq {t \in DOMAIN program.terms : typed'[t] # NULL}
            BY <1>3, <1>6 DEF TermAt
        <3>7. FrameOK(f, program.terms, typed')
            BY <3>2, <3>5, <3>6 DEF FrameOK
        <3> QED  BY <3>1, <3>7
    <2>3. ASSUME NEW s \in 1 .. Len(stack'), NEW u \in 1 .. Len(stack'), s < u
          PROVE  /\ stack'[u].term # NULL
                 /\ stack'[s].term # NULL => stack'[s].term < stack'[u].term
        <3>1. /\ s + 1 \in 1 .. Len(stack) /\ stack'[s] = stack[s + 1]
              /\ u + 1 \in 1 .. Len(stack) /\ stack'[u] = stack[u + 1] /\ s + 1 < u + 1
            BY <1>3, <2>1, <2>3
        <3> QED  BY <3>1 DEF Walk, StackOK
    <2> QED  BY <2>1, <2>2, <2>3 DEF StackOK, Returned
<1> QED  BY <1>6, <1>7, <1>8, <1>9 DEF Walk, Returned, TermAt

LEMMA DeclaredKeeps ==
    ASSUME program \in Programs, Walk, Declared
    PROVE  Walk'
<1>1. StackOK' /\ Closed(Done)' /\ Done' = Done /\ DOMAIN typed' = TermAt'
    BY DEF Walk, Declared, StackOK, Closed, Done, TermAt, Parts, Kind
<1>2. decl' \in Nat \ {0}
    BY DEF Walk, Declared
<1>3. ASSUME NEW d \in DOMAIN program.decls, d < decl', program.decls[d].exp # NULL
      PROVE  program.decls[d].exp \in Done
    <2>1. d < decl \/ d = decl
        BY <1>3, ProgramFacts DEF Walk, Declared
    <2>2. program.decls[d].exp \in TermAt
        BY <1>3, ProgramFacts DEF Roots
    <2> QED  BY <1>3, <2>1, <2>2 DEF Walk, Declared, Done
<1> QED  BY <1>1, <1>2, <1>3 DEF Walk, Declared

LEMMA AcceptedChecks ==
    ASSUME program \in Programs, Walk, Accepted, frames = <<>>, frames' = frames
    PROVE  Checked'
<1>1. Roots \subseteq Done
    BY ProgramFacts DEF Walk, Accepted, Roots
<1> PICK W : W = Done
    OBVIOUS
<1>2. W \in SUBSET TermAt /\ Closed(W) /\ Roots \subseteq W
    BY <1>1 DEF Walk, Done
<1>3. TermAt' = TermAt /\ Roots' = Roots /\ Closed(W)'
    BY <1>2 DEF Accepted, Closed, Roots, TermAt, Parts, Kind
<1>4. Len(frames') = 0
    OBVIOUS
<1> QED  BY <1>2, <1>3, <1>4 DEF Checked

-----------------------------------------------------------------------------
(* Each action of the type checker is such a step. *)

LEMMA CompleteFacts ==
    ASSUME NEW kinds, T!Complete(kinds)
    PROVE  InTerm /\ Kind(TopTerm) \in kinds /\ TopAt = Len(Parts(TopTerm))
BY DEF T!Complete, T!Turn, T!This, T!Top, InTerm, TopTerm, TopAt, Kind, Parts

LEMMA ReturnedFacts ==
    ASSUME NEW kinds, T!Returned(kinds)
    PROVE  InTerm /\ Kind(TopTerm) \in kinds /\ PartTyped
BY DEF T!Returned, T!Turn, T!This, T!Top, T!Kid,
       InTerm, TopTerm, TopAt, Kind, Parts, PartTyped, NextPart

LEMMA FatalStops ==
    ASSUME T!Fatal
    PROVE  WalkStep
BY DEF T!Fatal, WalkStep, Stopped

LEMMA ReturnFacts ==
    ASSUME NEW h, NEW n, T!Return(h, n)
    PROVE  /\ stack' = Tail(stack)
           /\ \E m : typed' = [typed EXCEPT ![TopTerm] = m]
           /\ UNCHANGED <<program, status, decl>>
BY DEF T!Return, T!Top, TopTerm

\* What typeTerm returns when all parts are done.
LEMMA CompleteReturns ==
    ASSUME NEW kinds \in SUBSET Typable, T!Complete(kinds), NEW h, NEW n, T!Return(h, n)
    PROVE  WalkStep
BY CompleteFacts, ReturnFacts DEF WalkStep, Returned

LEMMA CompleteReturnsNew ==
    ASSUME NEW kinds \in SUBSET Typable, T!Complete(kinds), NEW h, NEW t, T!ReturnNew(h, t)
    PROVE  WalkStep
BY CompleteReturns DEF T!ReturnNew

\* A part that has returned is taken.
LEMMA ReturnedTakes ==
    ASSUME NEW kinds, T!Returned(kinds), T!Took
    PROVE  WalkStep
BY ReturnedFacts DEF T!Took, T!TakeKid, T!Top, WalkStep, Taken, Same

LEMMA TypableFacts ==
    /\ {"constant", "boolean"} \in SUBSET Typable /\ {"var"} \in SUBSET Typable
    /\ {"application"} \in SUBSET Typable /\ {"structure"} \in SUBSET Typable
    /\ {"return"} \in SUBSET Typable /\ {"break", "continue"} \in SUBSET Typable
    /\ {"binary"} \in SUBSET Typable /\ {"conditional"} \in SUBSET Typable
    /\ {"assignment"} \in SUBSET Typable /\ {"block"} \in SUBSET Typable
BY DEF Typable

\* The steps that only return, with or without a condition.
LEMMA LeafSteps ==
    /\ T!TypeLiteral => WalkStep
    /\ T!TypeKnownVar => WalkStep
    /\ T!TypeNewVar => WalkStep
    /\ T!TypeApplication => WalkStep
    /\ T!TypeStructure => WalkStep
    /\ T!TypeReturn => WalkStep
    /\ T!TypeJump => WalkStep
    /\ T!TypeConditional => WalkStep
    /\ T!TypeAssignment => WalkStep
    /\ T!TypeBlock => WalkStep
<1>1. T!TypeLiteral => WalkStep
    BY TypableFacts, CompleteReturns DEF T!TypeLiteral
<1>2. T!TypeKnownVar => WalkStep
    BY TypableFacts, CompleteReturns DEF T!TypeKnownVar
<1>3. T!TypeNewVar => WalkStep
    BY TypableFacts, CompleteReturnsNew DEF T!TypeNewVar
<1>4. T!TypeApplication => WalkStep
    BY TypableFacts, CompleteReturns DEF T!TypeApplication
<1>5. T!TypeStructure => WalkStep
    BY TypableFacts, CompleteReturnsNew DEF T!TypeStructure
<1>6. T!TypeReturn => WalkStep
    BY TypableFacts, CompleteReturnsNew, FatalStops DEF T!TypeReturn, T!Require
<1>7. T!TypeJump => WalkStep
    BY TypableFacts, CompleteReturnsNew DEF T!TypeJump
<1>8. T!TypeConditional => WalkStep
    BY TypableFacts, CompleteReturns DEF T!TypeConditional
<1>9. T!TypeAssignment => WalkStep
    BY TypableFacts, CompleteReturnsNew DEF T!TypeAssignment
<1>10. T!TypeBlock => WalkStep
    BY TypableFacts, CompleteReturns, CompleteReturnsNew DEF T!TypeBlock
<1> QED  BY <1>1, <1>2, <1>3, <1>4, <1>5, <1>6, <1>7, <1>8, <1>9, <1>10

LEMMA OperatorSteps ==
    /\ T!TypeAddition => WalkStep
    /\ T!TypeArithmetic => WalkStep
    /\ T!TypeRelation => WalkStep
    /\ T!TypeRemainder => WalkStep
    /\ T!TypeLogical => WalkStep
    /\ T!TypeEquality => WalkStep
<1>1. T!TypeAddition => WalkStep
    BY TypableFacts, CompleteReturns, FatalStops DEF T!TypeAddition, T!Operation, T!Require
<1>2. T!TypeArithmetic => WalkStep
    BY TypableFacts, CompleteReturns, FatalStops DEF T!TypeArithmetic, T!Operation, T!Require
<1>3. T!TypeRelation => WalkStep
    BY TypableFacts, CompleteReturnsNew, FatalStops DEF T!TypeRelation, T!Operation, T!Require
<1>4. T!TypeRemainder => WalkStep
    BY TypableFacts, CompleteReturns, FatalStops DEF T!TypeRemainder, T!Operation, T!Require
<1>5. T!TypeLogical => WalkStep
    BY TypableFacts, CompleteReturns, FatalStops DEF T!TypeLogical, T!Operation, T!Require
<1>6. T!TypeEquality => WalkStep
    BY TypableFacts, CompleteReturnsNew, FatalStops DEF T!TypeEquality, T!Operation, T!Require
<1> QED  BY <1>1, <1>2, <1>3, <1>4, <1>5, <1>6

LEMMA TakeSteps ==
    /\ T!TakeOperand => WalkStep
    /\ T!TakeCallee => WalkStep
    /\ T!TakeArgument => WalkStep
    /\ T!TakeCondition => WalkStep
    /\ T!TakeThen => WalkStep
    /\ T!TakeElse => WalkStep
    /\ T!TakeDeclaration => WalkStep
    /\ T!TakeUnitStatement => WalkStep
    /\ T!TakeBlockValue => WalkStep
<1>1. T!TakeOperand => WalkStep
    BY ReturnedTakes, FatalStops DEF T!TakeOperand, T!Require
<1>2. T!TakeCallee => WalkStep
    BY ReturnedTakes, FatalStops DEF T!TakeCallee, T!Require
<1>3. T!TakeArgument => WalkStep
    BY ReturnedTakes, FatalStops DEF T!TakeArgument, T!Require
<1>4. T!TakeCondition => WalkStep
    BY ReturnedTakes, FatalStops DEF T!TakeCondition, T!Require
<1>5. T!TakeThen => WalkStep
    BY ReturnedTakes, FatalStops DEF T!TakeThen, T!Require
<1>6. T!TakeElse => WalkStep
    BY ReturnedTakes, FatalStops DEF T!TakeElse, T!Require
<1>7. T!TakeDeclaration => WalkStep
    BY ReturnedTakes, FatalStops DEF T!TakeDeclaration, T!Require, T!Statement
<1>8. T!TakeUnitStatement => WalkStep
    BY ReturnedTakes, FatalStops DEF T!TakeUnitStatement, T!Require, T!Statement
<1>9. T!TakeBlockValue => WalkStep
    BY ReturnedTakes, FatalStops DEF T!TakeBlockValue, T!Require
<1> QED  BY <1>1, <1>2, <1>3, <1>4, <1>5, <1>6, <1>7, <1>8, <1>9

LEMMA OtherSteps ==
    /\ T!EvaluateKid => WalkStep
    /\ T!ReadNull => WalkStep
    /\ T!EnterFunction => WalkStep
    /\ T!TypeFunction => WalkStep
    /\ T!NotImplemented => WalkStep
<1>1. T!EvaluateKid => WalkStep
    BY Zenon DEF T!EvaluateKid, T!Calls, T!Turn, T!Call, T!This, T!Top, T!Kid, T!Rest,
           WalkStep, Called, Same, InTerm, TopTerm, TopAt, NextPart, Parts
<1>2. T!ReadNull => WalkStep
    BY DEF T!ReadNull, WalkStep, Stopped
<1>3. T!EnterFunction => WalkStep
    <2> SUFFICES ASSUME T!EnterFunction PROVE WalkStep
        OBVIOUS
    <2>1. InTerm
        BY Zenon DEF T!EnterFunction, T!Calls, T!Turn, T!Top, InTerm, TopTerm
    <2>2. T!Fatal \/ ((\E fun, prev : stack' = [stack EXCEPT ![1].fun = fun, ![1].prev = prev]) /\ Same)
        BY Zenon DEF T!EnterFunction, T!Require, Same
    <2> QED  BY <2>1, <2>2, FatalStops DEF WalkStep, Entered
<1>4. T!TypeFunction => WalkStep
    <2> SUFFICES ASSUME T!TypeFunction PROVE WalkStep
        OBVIOUS
    <2>1. T!Returned({"function"})
        BY DEF T!TypeFunction
    <2>2. InTerm /\ Kind(TopTerm) = "function" /\ PartTyped
        BY <2>1, ReturnedFacts
    <2>3. T!Fatal \/ \E h, n : T!Return(h, n)
        BY DEF T!TypeFunction, T!Require
    <2> QED  BY <2>2, <2>3, FatalStops, ReturnFacts DEF WalkStep, Returned, Typable
<1>5. T!NotImplemented => WalkStep
    BY FatalStops DEF T!NotImplemented
<1> QED  BY <1>1, <1>2, <1>3, <1>4, <1>5

LEMMA DeclSteps ==
    ASSUME program \in Programs, Walk
    PROVE  /\ T!StartDecl => WalkStep
           /\ T!FinishDecl => WalkStep
           /\ T!DeclareOnly => WalkStep
           /\ T!ResolveDecls => WalkStep
<1>1. T!AtDecl => status = "typing" /\ stack = <<>> /\ decl <= Len(program.decls)
                     /\ decl \in DOMAIN program.decls
    BY ProgramFacts DEF T!AtDecl, Walk
<1>2. ASSUME NEW h, NEW n, T!AtDecl, T!ConstrainDecl(h, n),
             T!Decl.exp # NULL => typed[T!Decl.exp] # NULL
      PROVE  WalkStep
    BY <1>1, <1>2, FatalStops DEF T!ConstrainDecl, T!Require, T!Decl, WalkStep, Declared
<1>3. T!StartDecl => WalkStep
    <2> SUFFICES ASSUME T!StartDecl PROVE WalkStep
        OBVIOUS
    <2>1. status = "typing" /\ stack = <<>> /\ decl \in DOMAIN program.decls
        BY <1>1 DEF T!StartDecl
    <2>2. /\ program.decls[decl].exp # NULL /\ typed[program.decls[decl].exp] = NULL
          /\ stack' = <<T!Frame(program.decls[decl].exp)>> \o stack
          /\ Same
        BY DEF T!StartDecl, T!Decl, T!Call, Same
    <2>3. Called
        BY <2>1, <2>2 DEF Called
    <2> QED  BY <2>3 DEF WalkStep
<1>4. T!FinishDecl => WalkStep
    BY <1>2 DEF T!FinishDecl
<1>5. T!DeclareOnly => WalkStep
    BY <1>2 DEF T!DeclareOnly
<1>6. T!ResolveDecls => WalkStep
    BY DEF T!ResolveDecls, WalkStep, Accepted
<1> QED  BY <1>3, <1>4, <1>5, <1>6

LEMMA TyperStep ==
    ASSUME program \in Programs, Walk, T!Next
    PROVE  WalkStep
BY LeafSteps, OperatorSteps, TakeSteps, OtherSteps, DeclSteps DEF T!Next

\* While it runs, and when it has accepted the program.
LEMMA WalkKeeps ==
    ASSUME program \in Programs, Walk, frames = <<>>, WalkStep, UNCHANGED emitterVars
    PROVE  /\ program' = program
           /\ \/ status' = "typing" /\ Walk'
              \/ status' = "typed" /\ Checked'
              \/ status' \in {"fatal", "crash"}
<1>1. frames' = frames
    BY DEF emitterVars
<1>2. CASE Called \/ Taken \/ Entered \/ Returned \/ Declared
    <2>1. Walk'
        BY <1>2, CalledKeeps, TakenKeeps, EnteredKeeps, ReturnedKeeps, DeclaredKeeps
    <2>2. program' = program /\ status' = status /\ status = "typing"
        BY <1>2 DEF Called, Taken, Entered, Returned, Declared, Same, InTerm
    <2> QED  BY <2>1, <2>2
<1>3. CASE Accepted
    BY <1>1, <1>3, AcceptedChecks DEF Accepted
<1>4. CASE Stopped
    BY <1>4 DEF Stopped
<1> QED  BY <1>2, <1>3, <1>4 DEF WalkStep

-----------------------------------------------------------------------------
(* The lines of the emitter. *)

\* What the properties look at in a line.
LEMMA OpFacts ==
    ASSUME NEW op, NEW t
    PROVE  /\ E!Op(op, t).op = op
           /\ E!Op(op, t).labels = <<>>
           /\ E!Op(op, t).to = <<>>
           /\ E!Op(op, t).of = t
BY DEF E!Op

LEMMA LabelFacts ==
    ASSUME NEW n, NEW t
    PROVE  /\ E!Label(n, t).op = "label"
           /\ E!Label(n, t).labels = <<n>>
           /\ E!Label(n, t).to = <<>>
           /\ E!Label(n, t).of = t
BY DEF E!Op, E!Label

LEMMA JumpFacts ==
    ASSUME NEW n, NEW t
    PROVE  /\ E!Jump(n, t).op = "jmp"
           /\ E!Jump(n, t).labels = <<n>>
           /\ E!Jump(n, t).to = <<>>
           /\ E!Jump(n, t).of = t
BY DEF E!Op, E!Jump

LEMMA BranchFacts ==
    ASSUME NEW on, NEW yes, NEW no, NEW t
    PROVE  /\ E!Branch(on, yes, no, t).op = "jnz"
           /\ E!Branch(on, yes, no, t).labels = <<yes, no>>
           /\ E!Branch(on, yes, no, t).to = <<>>
           /\ E!Branch(on, yes, no, t).of = t
BY DEF E!Op, E!Branch

LEMMA NumberFacts ==
    ASSUME NEW to, NEW value, NEW t
    PROVE  /\ E!CopyNumber(to, value, t).op = "copy"
           /\ E!CopyNumber(to, value, t).labels = <<>>
           /\ E!CopyNumber(to, value, t).to = to
           /\ E!CopyNumber(to, value, t).of = t
BY DEF E!Op, E!CopyNumber

LEMMA CopyFacts ==
    ASSUME NEW to, NEW from, NEW t
    PROVE  /\ E!Copy(to, from, t).op = "copy"
           /\ E!Copy(to, from, t).labels = <<>>
           /\ E!Copy(to, from, t).to = <<to>>
           /\ E!Copy(to, from, t).of = t
BY DEF E!Op, E!Copy

LEMMA ReadingFacts ==
    ASSUME NEW op, NEW t, NEW from
    PROVE  /\ [E!Op(op, t) EXCEPT !.from = from].op = op
           /\ [E!Op(op, t) EXCEPT !.from = from].labels = <<>>
           /\ [E!Op(op, t) EXCEPT !.from = from].to = <<>>
           /\ [E!Op(op, t) EXCEPT !.from = from].of = t
BY DEF E!Op

LEMMA NamingFacts ==
    ASSUME NEW op, NEW t, NEW name
    PROVE  /\ [E!Op(op, t) EXCEPT !.name = name].op = op
           /\ [E!Op(op, t) EXCEPT !.name = name].labels = <<>>
           /\ [E!Op(op, t) EXCEPT !.name = name].to = <<>>
           /\ [E!Op(op, t) EXCEPT !.name = name].of = t
BY DEF E!Op

-----------------------------------------------------------------------------
(* The steps of the emitter, by what they do to the lines and the frames. *)

Record(r) ==
    /\ r = [term |-> r.term, at |-> r.at, result |-> r.result, label |-> r.label]
    /\ r.term \in TermAt /\ r.at \in Nat /\ r.label \in Nat

Shape ==
    /\ \E R : frames \in Seq(R)
    /\ \A f \in 1 .. Len(frames) : Record(frames[f])
    /\ \E S : lines \in Seq(S)
    /\ max = [local |-> max.local, label |-> max.label,
              struct |-> max.struct, global |-> max.global]
    /\ max.local \in Nat /\ max.label \in Nat /\ max.local >= program.maxId
    /\ emitted \in Nat

\* What the steps are about.
Setting == program \in Programs /\ Shape /\ Checked

Cur == Head(frames)

\* The temporary s is that of an identifier.
Named(s, t) == s.id < program.maxId /\ Kind(t) \in {"assignment", "block"}

\* A line writes a named temporary, that of the running call, or a new one.
WritesOK(line) ==
    \A s \in Range(line.to) : s.space = "local" =>
        \/ Named(s, line.of)
        \/ frames # <<>> /\ line.of = Cur.term /\ s = Cur.result /\ s # NULL
        \/ frames # <<>> /\ line.of = Cur.term /\ s = E!NewLocal /\ max'.local = max.local + 1

Counters ==
    max' = [local |-> max'.local, label |-> max'.label,
            struct |-> max'.struct, global |-> max'.global]

\* A call begins for a part of the running one, or for the body of a function.
Begins(t) ==
    \/ frames # <<>> /\ Cur.at < Len(Parts(Cur.term)) /\ t = Parts(Cur.term)[Cur.at + 1]
    \/ frames = <<>> /\ \E r \in Roots : Kind(r) = "function" /\ t = Parts(r)[1]

LogicalKind(t) == Kind(t) = "binary" /\ program.terms[t].op \in Logical

FramesChange ==
    \/ frames' = frames
    \/ frames # <<>> /\ frames' = Tail(frames) /\ ~LogicalKind(Cur.term)
    \/ frames # <<>> /\ frames' = [frames EXCEPT ![1].at = @ + 1]
    \/ \E t : Begins(t) /\ frames' = <<E!Frame(t)>> \o frames

Writing(text) ==
    /\ \E S : text \in Seq(S)
    /\ lines' = lines \o text
    /\ \A i \in 1 .. Len(text) : WritesOK(text[i])
    /\ Counters /\ max'.local \in {max.local, max.local + 1} /\ max'.label = max.label

Silent(line) ==
    /\ line.op # "label" /\ line.labels = <<>>
    /\ line.op \in {"function", "end"} => frames = <<>>

Plain ==
    /\ \E text : Writing(text) /\ \A i \in 1 .. Len(text) : Silent(text[i])
    /\ FramesChange

LeftEmitted ==
    /\ frames # <<>> /\ LogicalKind(Cur.term) /\ Cur.result # NULL /\ Cur.at = 0
    /\ \E s :
        \/ Writing(<<E!Branch(s, E!bLabel, E!falseLabel, Cur.term), E!Label(E!bLabel, Cur.term)>>)
        \/ Writing(<<E!Branch(s, E!trueLabel, E!bLabel, Cur.term), E!Label(E!bLabel, Cur.term)>>)
    /\ frames' = [frames EXCEPT ![1].at = @ + 1]

BothEmitted ==
    /\ frames # <<>> /\ LogicalKind(Cur.term) /\ Cur.result # NULL /\ Cur.at = 2
    /\ \E result : Writing(E!LogicalLines(result))
    /\ frames' = Tail(frames)

\* A temporary is made for the running call, and for a logical operator labels.
Making ==
    /\ frames # <<>> /\ Cur.result = NULL
    /\ \E at \in Nat, label \in Nat :
        /\ frames' = [frames EXCEPT ![1] =
                [term |-> Cur.term, at |-> at, result |-> E!NewLocal, label |-> label]]
        /\ max'.label \in Nat /\ max'.label >= max.label
        /\ LogicalKind(Cur.term) => label = max.label /\ max'.label = max.label + 4
    /\ Counters /\ max'.local = max.local + 1
    /\ lines' = lines

EmitStep ==
    /\ Plain \/ LeftEmitted \/ BothEmitted \/ Making
    /\ program' = program
    /\ status = "typed" /\ status' \in {"typed", "emitted", "fatal"}
    /\ status' = "emitted" => frames' = <<>>
    /\ emitted' \in {emitted, emitted + 1}

LEMMA CurFacts ==
    ASSUME Setting, frames # <<>>
    PROVE  /\ Record(Cur) /\ Cur = frames[1] /\ Len(frames) \in Nat \ {0}
           /\ Cur.term \in TermAt /\ Kind(Cur.term) \in Typable
           /\ \A i \in 1 .. Len(Parts(Cur.term)) :
                Parts(Cur.term)[i] \in TermAt /\ Kind(Parts(Cur.term)[i]) \in Typable
<1>1. Record(Cur) /\ Cur = frames[1] /\ Len(frames) \in Nat \ {0}
    <2>1. PICK R : frames \in Seq(R)
        BY DEF Setting, Shape
    <2>2. Cur = frames[1] /\ Len(frames) \in Nat \ {0}
        BY <2>1, PopFacts DEF Cur
    <2> QED  BY <2>2 DEF Setting, Shape
<1>2. PICK W \in SUBSET TermAt : Closed(W) /\ frames[1].term \in W
    BY <1>1 DEF Setting, Checked
<1>3. Cur.term \in TermAt
    BY <1>1, <1>2
<1>4. DOMAIN Parts(Cur.term) = 1 .. Len(Parts(Cur.term))
    BY <1>3, TermFacts DEF Setting
<1> QED  BY <1>1, <1>2, <1>3, <1>4 DEF Closed

LEMMA NoText ==
    ASSUME Setting, lines' = lines, max' = max
    PROVE  \E text : Writing(text) /\ \A i \in 1 .. Len(text) : Silent(text[i])
<1>1. PICK S : lines \in Seq(S)
    BY DEF Setting, Shape
<1>2. lines \o <<>> = lines /\ <<>> \in Seq(S) /\ Len(<<>>) = 0
    BY <1>1
<1>3. Writing(<<>>)
    BY <1>2 DEF Writing, Setting, Shape, Counters
<1> QED  BY <1>2, <1>3

\* A line is written that defines no label and jumps to none.
LEMMA OneLine ==
    ASSUME Setting, NEW line, lines' = lines \o <<line>>, WritesOK(line), Silent(line),
           Counters, max'.local \in {max.local, max.local + 1}, max'.label = max.label
    PROVE  \E text : Writing(text) /\ \A i \in 1 .. Len(text) : Silent(text[i])
<1> PICK S : S = {line}
    OBVIOUS
<1>1. <<line>> \in Seq(S) /\ Len(<<line>>) = 1 /\ <<line>>[1] = line
    OBVIOUS
<1>2. \A i \in 1 .. Len(<<line>>) : <<line>>[i] = line
    BY <1>1
<1>3. WritesOK(<<line>>[1])
    BY <1>1
<1>4. Writing(<<line>>)
    BY <1>1, <1>2 DEF Writing
<1> QED  BY <1>2, <1>4

\* Temporaries that a line writes.
LEMMA WritesNothing ==
    ASSUME NEW line, line.to = <<>>
    PROVE  WritesOK(line)
<1>1. Range(line.to) = {}
    BY DEF Range
<1> QED  BY <1>1 DEF WritesOK

LEMMA WritesOne ==
    ASSUME NEW line, NEW s, line.to = <<s>> \/ line.to = <<s, E!Garbage>>,
           s.space = "local" =>
             \/ Named(s, line.of)
             \/ frames # <<>> /\ line.of = Cur.term /\ s = Cur.result /\ s # NULL
             \/ frames # <<>> /\ line.of = Cur.term /\ s = E!NewLocal /\ max'.local = max.local + 1
    PROVE  WritesOK(line)
<1>1. Range(line.to) \subseteq {s, E!Garbage}
    <2>1. Range(<<s>>) \subseteq {s, E!Garbage} /\ Range(<<s, E!Garbage>>) \subseteq {s, E!Garbage}
        BY DEF Range
    <2> QED  BY <2>1
<1>2. E!Garbage.space # "local"
    BY DEF E!Garbage
<1> QED  BY <1>1, <1>2 DEF WritesOK

\* What the counters become.
LEMMA CounterFacts ==
    ASSUME Setting, NEW n, NEW k
    PROVE  /\ [max EXCEPT !.local = max.local + 1] =
                [local |-> max.local + 1, label |-> max.label,
                 struct |-> max.struct, global |-> max.global]
           /\ [max EXCEPT !.struct = n] =
                [local |-> max.local, label |-> max.label, struct |-> n, global |-> max.global]
           /\ [max EXCEPT !.global = n] =
                [local |-> max.local, label |-> max.label, struct |-> max.struct, global |-> n]
<1> PICK a, b, c, d : a = max.local /\ b = max.label /\ c = max.struct /\ d = max.global
    OBVIOUS
<1> PICK r : r = max
    OBVIOUS
<1>1. r = [local |-> a, label |-> b, struct |-> c, global |-> d]
    BY DEF Setting, Shape
<1> QED  BY <1>1

-----------------------------------------------------------------------------
(* Each action of the emitter is such a step. *)

LEMMA FrameFacts ==
    /\ E!Top = Cur /\ E!This = program.terms[Cur.term]
    /\ E!Kid = Parts(Cur.term)[Cur.at + 1]
BY DEF E!Top, E!This, E!Kid, Cur, Parts

LEMMA TurnFacts ==
    ASSUME NEW kinds, E!Turn(kinds)
    PROVE  status = "typed" /\ frames # <<>> /\ Kind(Cur.term) \in kinds
BY FrameFacts DEF E!Turn, Kind

LEMMA CallsFacts ==
    ASSUME NEW kinds, E!Calls(kinds) \/ E!Returned(kinds)
    PROVE  /\ status = "typed" /\ frames # <<>> /\ Kind(Cur.term) \in kinds
           /\ Cur.at < Len(Parts(Cur.term))
           /\ Kind(Cur.term) \in {"binary", "application"} => Cur.result # NULL
BY TurnFacts, FrameFacts DEF E!Calls, E!Returned, E!Begun, Parts, Kind

LEMMA CompletedFacts ==
    ASSUME NEW kinds, E!Complete(kinds)
    PROVE  /\ status = "typed" /\ frames # <<>> /\ Kind(Cur.term) \in kinds
           /\ Cur.at = Len(Parts(Cur.term))
           /\ Kind(Cur.term) \in {"binary", "application"} => Cur.result # NULL
BY TurnFacts, FrameFacts DEF E!Complete, E!Begun, Parts, Kind

LEMMA FatalEmits ==
    ASSUME Setting, E!Fatal, status = "typed"
    PROVE  EmitStep
<1>1. /\ lines' = lines /\ max' = max /\ frames' = frames /\ program' = program
      /\ status' = "fatal" /\ emitted' = emitted
    BY DEF E!Fatal, E!Typed
<1>2. Plain
    BY <1>1, NoText DEF Plain, FramesChange
<1> QED  BY <1>1, <1>2 DEF EmitStep

Ending == (\E r : E!Return(r)) /\ ~LogicalKind(Cur.term)

LEMMA EndingFacts ==
    ASSUME NEW kinds, Kind(Cur.term) \in kinds, "binary" \notin kinds, NEW r, E!Return(r)
    PROVE  Ending
BY DEF Ending, LogicalKind

\* A call ends, or takes a part.
LEMMA Ends ==
    ASSUME frames # <<>>, status = "typed", E!Same, Ending \/ E!TakeKid,
           \E text : Writing(text) /\ \A i \in 1 .. Len(text) : Silent(text[i])
    PROVE  EmitStep
<1>1. FramesChange
    BY DEF Ending, E!Return, E!TakeKid, FramesChange
<1>2. program' = program /\ status' = status /\ emitted' = emitted
    BY DEF E!Same, E!Typed
<1> QED  BY <1>1, <1>2 DEF EmitStep, Plain

\* Without a line.
LEMMA EndsSilently ==
    ASSUME Setting, frames # <<>>, status = "typed", E!Same, Ending \/ E!TakeKid,
           lines' = lines, max' = max
    PROVE  EmitStep
BY NoText, Ends

LEMMA SilentSteps ==
    ASSUME Setting
    PROVE  /\ E!EmitVar => EmitStep
           /\ E!TakeEmitted => EmitStep
           /\ E!EmitBlock => EmitStep
           /\ E!NotImplemented => EmitStep
<1>1. E!EmitVar => EmitStep
    <2> SUFFICES ASSUME E!EmitVar PROVE EmitStep
        OBVIOUS
    <2>1. E!Complete({"var"}) /\ E!Return(E!idToSymbol(E!This.names[1])) /\ E!Same
          /\ lines' = lines /\ max' = max
        BY DEF E!EmitVar
    <2>2. Ending
        BY <2>1, CompletedFacts, EndingFacts
    <2> QED  BY <2>1, <2>2, CompletedFacts, EndsSilently
<1>2. E!TakeEmitted => EmitStep
    BY CallsFacts, EndsSilently DEF E!TakeEmitted
<1>3. E!EmitBlock => EmitStep
    <2> SUFFICES ASSUME E!EmitBlock PROVE EmitStep
        OBVIOUS
    <2>1. E!Complete({"block"}) /\ (\E r : E!Return(r)) /\ E!Same
          /\ lines' = lines /\ max' = max
        BY DEF E!EmitBlock
    <2>2. Ending
        BY <2>1, CompletedFacts, EndingFacts
    <2> QED  BY <2>1, <2>2, CompletedFacts, EndsSilently
<1>4. E!NotImplemented => EmitStep
    BY TurnFacts, FatalEmits DEF E!NotImplemented
<1> QED  BY <1>1, <1>2, <1>3, <1>4

LEMMA EmitKidStep ==
    ASSUME Setting, E!EmitKid
    PROVE  EmitStep
<1>1. /\ status = "typed" /\ frames # <<>> /\ Cur.at < Len(Parts(Cur.term))
      /\ frames' = <<E!Frame(E!Kid)>> \o frames
      /\ E!Same /\ lines' = lines /\ max' = max
    BY CallsFacts DEF E!EmitKid
<1>2. FramesChange
    BY <1>1, FrameFacts DEF FramesChange, Begins
<1> QED  BY <1>1, <1>2, NoText DEF EmitStep, Plain, E!Same, E!Typed

LEMMA ReturnSteps ==
    ASSUME Setting
    PROVE  /\ E!EmitReturnUnit => EmitStep
           /\ E!EmitReturn => EmitStep
<1>0. max' = max => Counters /\ max'.local = max.local /\ max'.label = max.label
    BY DEF Setting, Shape, Counters
<1>1. ASSUME E!EmitReturnUnit
      PROVE  EmitStep
    <2>1. /\ status = "typed" /\ frames # <<>> /\ max' = max /\ E!Same
          /\ lines' = lines \o <<E!Op("ret", E!Top.term)>> /\ E!Return(E!Indeterminate)
          /\ Kind(Cur.term) \in {"return"}
        BY <1>1, CallsFacts DEF E!EmitReturnUnit, E!Write
    <2> PICK line : line = E!Op("ret", E!Top.term)
        OBVIOUS
    <2>2. line.to = <<>> /\ line.op = "ret" /\ line.labels = <<>>
        BY OpFacts
    <2>3. WritesOK(line) /\ Silent(line)
        BY <2>2, WritesNothing DEF Silent
    <2>4. Ending
        BY <2>1, EndingFacts
    <2> QED  BY <1>0, <2>1, <2>3, <2>4, OneLine, Ends
<1>2. ASSUME E!EmitReturn
      PROVE  EmitStep
    <2> DEFINE from == <<[symbol[E!Kid] EXCEPT !.space = "type"]>>
    <2>1. /\ status = "typed" /\ frames # <<>> /\ max' = max /\ E!Same
          /\ lines' = lines \o <<[E!Op("ret", E!Top.term) EXCEPT !.from = from]>>
          /\ E!Return(symbol[E!Kid])
          /\ Kind(Cur.term) \in {"return"}
        BY <1>2, CallsFacts DEF E!EmitReturn, E!Write
    <2> HIDE DEF from
    <2> PICK line : line = [E!Op("ret", E!Top.term) EXCEPT !.from = from]
        OBVIOUS
    <2>2. line.to = <<>> /\ line.op = "ret" /\ line.labels = <<>>
        BY ReadingFacts
    <2>3. WritesOK(line) /\ Silent(line)
        BY <2>2, WritesNothing DEF Silent
    <2>4. Ending
        BY <2>1, EndingFacts
    <2> QED  BY <1>0, <2>1, <2>3, <2>4, OneLine, Ends
<1> QED  BY <1>1, <1>2

LEMMA LiteralSteps ==
    ASSUME Setting
    PROVE  /\ E!EmitBoolean => EmitStep
           /\ E!EmitConstant => EmitStep
           /\ E!EmitStructure => EmitStep
<1>1. ASSUME NEW to, to = <<E!NewLocal, E!Garbage>> \/ to = <<E!NewLocal>>, NEW value,
             frames # <<>>, status = "typed", E!Same, E!Return(E!NewLocal),
             Kind(Cur.term) \in {"boolean", "constant"},
             max' = [max EXCEPT !.local = max.local + 1],
             lines' = lines \o <<E!CopyNumber(to, value, E!Top.term)>>
      PROVE  EmitStep
    <2> PICK line : line = E!CopyNumber(to, value, E!Top.term)
        OBVIOUS
    <2>1. line.op = "copy" /\ line.labels = <<>> /\ line.to = to /\ line.of = E!Top.term
        BY NumberFacts
    <2>2. Counters /\ max'.local = max.local + 1 /\ max'.label = max.label
        BY <1>1, CounterFacts DEF Counters
    <2>3. WritesOK(line)
        BY <1>1, <2>1, <2>2, WritesOne, FrameFacts
    <2>4. Silent(line)
        BY <2>1 DEF Silent
    <2>5. Ending
        BY <1>1, EndingFacts
    <2> QED  BY <1>1, <2>2, <2>3, <2>4, <2>5, OneLine, Ends
<1>2. E!EmitBoolean => EmitStep
    BY <1>1, CompletedFacts DEF E!EmitBoolean, E!Write
<1>3. E!EmitConstant => EmitStep
    BY <1>1, CompletedFacts DEF E!EmitConstant, E!Write
<1>4. ASSUME E!EmitStructure
      PROVE  EmitStep
    <2>1. status = "typed" /\ frames # <<>> /\ E!Same /\ (\E r : E!Return(r)) /\ lines' = lines
          /\ (max' = max \/ max' = [max EXCEPT !.global = max.global + 1])
          /\ Kind(Cur.term) \in {"structure"}
        BY <1>4, TurnFacts DEF E!EmitStructure
    <2>2. Counters /\ max'.local = max.local /\ max'.label = max.label
        BY <2>1, CounterFacts DEF Counters, Setting, Shape
    <2>3. PICK S : lines \in Seq(S)
        BY DEF Setting, Shape
    <2>4. lines \o <<>> = lines /\ <<>> \in Seq(S) /\ Len(<<>>) = 0
        BY <2>3
    <2>5. Writing(<<>>)
        BY <2>1, <2>2, <2>4 DEF Writing
    <2>6. Ending
        BY <2>1, EndingFacts
    <2> QED  BY <2>1, <2>4, <2>5, <2>6, Ends
<1> QED  BY <1>2, <1>3, <1>4

LEMMA OperatorStep ==
    ASSUME Setting, E!EmitOperator
    PROVE  EmitStep
<1> DEFINE from == <<E!Value(1), E!Value(2)>>
           op == E!This.op
<1>1. /\ status = "typed" /\ frames # <<>> /\ max' = max /\ E!Same /\ E!Return(E!Top.result)
      /\ Kind(Cur.term) = "binary" /\ Cur.result # NULL /\ E!This.op \notin Logical
    BY CompletedFacts DEF E!EmitOperator, E!Logical, Logical
<1>2. lines' = lines \o <<[E!Op(op, E!Top.term) EXCEPT !.to = <<E!Top.result, E!Garbage>>, !.from = from]>>
    BY DEF E!EmitOperator, E!Write
<1>3. op \in BinaryOp \cup Structs \cup {""}
    <2> PICK S : S = Term
        OBVIOUS
    <2>1. program.terms[Cur.term] \in S
        BY <1>1, CurFacts, ProgramFacts DEF Setting, TermAt
    <2> QED  BY <2>1, FrameFacts DEF Term
<1>4. op # "label" /\ op \notin {"function", "end"}
    BY <1>3 DEF BinaryOp, Arithmetic, Relational, Equality, Logical, Structs
<1>0. (\E r : E!Return(r)) /\ ~LogicalKind(Cur.term)
    BY <1>1, FrameFacts DEF LogicalKind
<1> HIDE DEF from, op
<1> PICK to : to = <<E!Top.result, E!Garbage>>
    OBVIOUS
<1> PICK line : line = [E!Op(op, E!Top.term) EXCEPT !.to = to, !.from = from]
    OBVIOUS
<1>5. line.op = op /\ line.labels = <<>> /\ line.to = to /\ line.of = E!Top.term
    BY DEF E!Op
<1>6. WritesOK(line)
    BY <1>1, <1>5, WritesOne, FrameFacts
<1>7. Silent(line)
    BY <1>4, <1>5 DEF Silent
<1>8. Counters /\ max'.local = max.local /\ max'.label = max.label
    BY <1>1 DEF Setting, Shape, Counters
<1>9. Ending
    BY <1>0 DEF Ending
<1> QED  BY <1>1, <1>2, <1>6, <1>7, <1>8, <1>9, OneLine, Ends

\* The temporary of an identifier that a block declares, or that is assigned to.
LEMMA DeclarationStep ==
    ASSUME Setting, frames # <<>>, status = "typed", Kind(Cur.term) \in {"assignment", "block"},
           NEW t \in TermAt, NEW i \in DOMAIN Names(t), Names(t)[i] # NULL,
           NEW value, Ending \/ E!TakeKid,
           \/ lines' = lines /\ max' = max
           \/ /\ lines' = lines \o <<E!Copy(E!idToSymbol(Names(t)[i]), symbol[value], E!Top.term)>>
              /\ \E n : max' = [max EXCEPT !.struct = n],
           E!Same
    PROVE  EmitStep
<1>1. CASE lines' = lines /\ max' = max
    BY <1>1, EndsSilently
<1>2. CASE /\ lines' = lines \o <<E!Copy(E!idToSymbol(Names(t)[i]), symbol[value], E!Top.term)>>
           /\ \E n : max' = [max EXCEPT !.struct = n]
    <2> PICK s : s = E!idToSymbol(Names(t)[i])
        OBVIOUS
    <2>1. s.space = "local" => s.id < program.maxId
        BY NameFacts DEF Setting, E!idToSymbol, E!Local, E!Global
    <2> PICK line : line = E!Copy(s, symbol[value], E!Top.term)
        OBVIOUS
    <2>2. line.op = "copy" /\ line.labels = <<>> /\ line.to = <<s>> /\ line.of = Cur.term
        BY CopyFacts, FrameFacts
    <2>3. WritesOK(line)
        BY <2>1, <2>2, WritesOne DEF Named
    <2>4. Silent(line)
        BY <2>2 DEF Silent
    <2>5. Counters /\ max'.local = max.local /\ max'.label = max.label
        BY <1>2, CounterFacts DEF Counters
    <2> QED  BY <1>2, <2>3, <2>4, <2>5, OneLine, Ends
<1> QED  BY <1>1, <1>2

LEMMA EmitLocalStep ==
    ASSUME Setting, E!EmitLocal
    PROVE  EmitStep
<1>1. /\ status = "typed" /\ frames # <<>> /\ Kind(Cur.term) = "block"
      /\ Cur.at < Len(Names(Cur.term)) /\ Names(Cur.term)[Cur.at + 1] # NULL
    BY CallsFacts, FrameFacts DEF E!EmitLocal, Names
<1>2. Cur.term \in TermAt /\ Cur.at \in Nat
    BY <1>1, CurFacts DEF Record
<1>3. Cur.at + 1 \in DOMAIN Names(Cur.term)
    BY <1>1, <1>2, NamesFacts DEF Setting
<1> DEFINE name == Names(Cur.term)[Cur.at + 1]
<1>4. E!EmitDeclaration(name, E!Kid, E!TakeKid)
    BY FrameFacts DEF E!EmitLocal, Names
<1>5. CASE E!Fatal
    BY <1>1, <1>5, FatalEmits
<1>6. CASE ~E!Fatal
    <2>1. /\ E!TakeKid /\ E!Same
          /\ \/ lines' = lines /\ max' = max
             \/ /\ lines' = lines \o <<E!Copy(E!idToSymbol(name), symbol[E!Kid], E!Top.term)>>
                /\ \E n : max' = [max EXCEPT !.struct = n]
        BY <1>4, <1>6 DEF E!EmitDeclaration, E!Require, E!Write
    <2> QED  BY <1>1, <1>2, <1>3, <2>1, DeclarationStep
<1> QED  BY <1>5, <1>6

LEMMA EmitAssignmentStep ==
    ASSUME Setting, E!EmitAssignment
    PROVE  EmitStep
<1>1. status = "typed" /\ frames # <<>> /\ Kind(Cur.term) = "assignment"
    BY CallsFacts DEF E!EmitAssignment
<1> DEFINE t == Parts(Cur.term)[2]
           name == Names(t)[1]
<1>2. t \in TermAt /\ 1 \in DOMAIN Names(t) /\ name # NULL
    BY <1>1, CurFacts, LvalueFacts DEF Setting
<1>3. E!EmitDeclaration(name, E!Kid, E!Return(E!Indeterminate))
    BY FrameFacts, Zenon DEF E!EmitAssignment, Names, Parts
<1>4. CASE E!Fatal
    BY <1>1, <1>4, FatalEmits
<1>5. CASE ~E!Fatal
    <2>1. /\ E!Return(E!Indeterminate) /\ E!Same
          /\ \/ lines' = lines /\ max' = max
             \/ /\ lines' = lines \o <<E!Copy(E!idToSymbol(name), symbol[E!Kid], E!Top.term)>>
                /\ \E n : max' = [max EXCEPT !.struct = n]
        BY <1>3, <1>5 DEF E!EmitDeclaration, E!Require, E!Write
    <2>2. Ending
        BY <1>1, <2>1, EndingFacts
    <2> QED  BY <1>1, <1>2, <2>1, <2>2, DeclarationStep
<1> QED  BY <1>4, <1>5

LEMMA EmitCallStep ==
    ASSUME Setting, E!EmitCall
    PROVE  EmitStep
<1>1. status = "typed" /\ frames # <<>> /\ Kind(Cur.term) = "application" /\ Cur.result # NULL
    BY CompletedFacts DEF E!EmitCall
<1>2. CASE E!Fatal
    BY <1>1, <1>2, FatalEmits
<1>3. CASE ~E!Fatal
    <2> DEFINE to0 == IF E!IsUnit(E!Top.term) THEN <<>> ELSE <<E!Top.result>>
               from0 == [i \in DOMAIN E!Proper(E!This.kids) |-> symbol[E!Proper(E!This.kids)[i]]]
               name0 == E!toString(program.terms[E!This.kids[1]])
    <2>1. /\ lines' = lines \o <<[E!Op("call", E!Top.term) EXCEPT !.to = to0, !.from = from0, !.name = name0]>>
          /\ \E n : max' = [max EXCEPT !.struct = n]
          /\ E!Return(E!Top.result) /\ E!Same
        BY <1>3 DEF E!EmitCall, E!Require, E!Write
    <2>2. to0 = <<>> \/ to0 = <<E!Top.result>>
        OBVIOUS
    <2> HIDE DEF to0, from0, name0
    <2> PICK to, from, name : to = to0 /\ from = from0 /\ name = name0
        OBVIOUS
    <2> PICK line : line = [E!Op("call", E!Top.term) EXCEPT !.to = to, !.from = from, !.name = name]
        OBVIOUS
    <2>3. line.op = "call" /\ line.labels = <<>> /\ line.to = to /\ line.of = E!Top.term
        BY DEF E!Op
    <2>4. WritesOK(line)
        BY <1>1, <2>2, <2>3, WritesNothing, WritesOne, FrameFacts
    <2>5. Silent(line)
        BY <2>3 DEF Silent
    <2>6. Counters /\ max'.local = max.local /\ max'.label = max.label
        BY <2>1, CounterFacts DEF Counters
    <2>7. Ending
        BY <1>1, <2>1, EndingFacts
    <2> QED  BY <1>1, <2>1, <2>4, <2>5, <2>6, <2>7, OneLine, Ends
<1> QED  BY <1>2, <1>3

\* The operators and calls that begin with a new temporary.
LEMMA MakingSteps ==
    ASSUME Setting
    PROVE  /\ E!EnterBinary => EmitStep
           /\ E!EnterCall => EmitStep
<1> DEFINE new == E!NewLocal
<1>2. PICK R : frames \in Seq(R)
    BY DEF Setting, Shape
<1>3. ASSUME frames # <<>>
      PROVE  /\ Cur = [term |-> Cur.term, at |-> Cur.at, result |-> Cur.result, label |-> Cur.label]
             /\ Cur.at \in Nat /\ Cur.label \in Nat /\ Cur = frames[1] /\ 1 \in DOMAIN frames
    BY <1>2, <1>3, CurFacts DEF Record
<1>4. ASSUME E!EnterBinary
      PROVE  EmitStep
    <2>0. /\ status = "typed" /\ frames # <<>> /\ Cur.result = NULL /\ E!Same /\ lines' = lines
        BY <1>4, TurnFacts, FrameFacts DEF E!EnterBinary
    <2>1. /\ frames' = [frames EXCEPT ![1].result = new, ![1].label = max.label]
          /\ max' = [max EXCEPT !.local = max.local + 1,
                                !.label = max.label + (IF E!This.op \in E!Logical THEN 4 ELSE 0)]
        BY <1>4 DEF E!EnterBinary
    <2>2. frames' = [frames EXCEPT ![1] =
                        [term |-> Cur.term, at |-> Cur.at, result |-> new, label |-> max.label]]
        <3> PICK r, a, b, c, d, l : r = frames[1] /\ a = Cur.term /\ b = Cur.at /\ c = Cur.result
                                    /\ d = Cur.label /\ l = max.label
            OBVIOUS
        <3> PICK q : q = [term |-> a, at |-> b, result |-> new, label |-> d]
            OBVIOUS
        <3>1. r = [term |-> a, at |-> b, result |-> c, label |-> d]
            BY <1>3, <2>0, <2>1
        <3>2. [r EXCEPT !.result = new] = q
            BY <3>1
        <3>3. [q EXCEPT !.label = l] = [term |-> a, at |-> b, result |-> new, label |-> l]
            OBVIOUS
        <3>4. [r EXCEPT !.result = new, !.label = l] = [[r EXCEPT !.result = new] EXCEPT !.label = l]
            OBVIOUS
        <3>5. frames' = [frames EXCEPT ![1] = [r EXCEPT !.result = new, !.label = l]]
            BY <1>3, <2>0, <2>1
        <3> QED  BY <3>2, <3>3, <3>4, <3>5
    <2> DEFINE k == IF E!This.op \in E!Logical THEN 4 ELSE 0
    <2>3. max' = [local |-> max.local + 1, label |-> max.label + k,
                  struct |-> max.struct, global |-> max.global]
        <3> PICK r, a, b, c, d, l, n : r = max /\ a = max.local /\ b = max.label /\ c = max.struct
                                    /\ d = max.global /\ l = max.local + 1 /\ n = max.label + k
            OBVIOUS
        <3> PICK q : q = [local |-> l, label |-> b, struct |-> c, global |-> d]
            OBVIOUS
        <3>1. r = [local |-> a, label |-> b, struct |-> c, global |-> d]
            BY DEF Setting, Shape
        <3>2. [r EXCEPT !.local = l] = q
            BY <3>1
        <3>3. [q EXCEPT !.label = n] = [local |-> l, label |-> n, struct |-> c, global |-> d]
            OBVIOUS
        <3>4. [r EXCEPT !.local = l, !.label = n] = [[r EXCEPT !.local = l] EXCEPT !.label = n]
            OBVIOUS
        <3>5. max' = [r EXCEPT !.local = l, !.label = n]
            BY <2>1
        <3> QED  BY <3>2, <3>3, <3>4, <3>5
    <2>4. LogicalKind(Cur.term) => k = 4
        BY FrameFacts DEF LogicalKind, E!Logical, Logical
    <2>5. k \in Nat /\ max.label \in Nat
        BY DEF Setting, Shape
    <2> HIDE DEF k, new
    <2>6. max'.label = max.label + k /\ max'.local = max.local + 1 /\ Counters
        BY <2>3 DEF Counters
    <2>7. /\ max'.label \in Nat /\ max'.label >= max.label
          /\ LogicalKind(Cur.term) => max'.label = max.label + 4
        BY <2>4, <2>5, <2>6
    <2>8. Making
        BY <1>3, <2>0, <2>2, <2>5, <2>6, <2>7 DEF Making, new
    <2> QED  BY <2>0, <2>8 DEF EmitStep, E!Same, E!Typed
<1>5. ASSUME E!EnterCall
      PROVE  EmitStep
    <2>1. /\ status = "typed" /\ frames # <<>> /\ Cur.result = NULL /\ E!Same /\ lines' = lines
          /\ frames' = [frames EXCEPT ![1].result = new, ![1].at = 1]
          /\ max' = [max EXCEPT !.local = max.local + 1]
          /\ Kind(Cur.term) = "application"
        BY <1>5, TurnFacts, FrameFacts DEF E!EnterCall
    <2>2. frames' = [frames EXCEPT ![1] =
                        [term |-> Cur.term, at |-> 1, result |-> new, label |-> Cur.label]]
        <3> PICK r, a, b, c, d : r = frames[1] /\ a = Cur.term /\ b = Cur.at /\ c = Cur.result
                                    /\ d = Cur.label
            OBVIOUS
        <3> PICK q : q = [term |-> a, at |-> b, result |-> new, label |-> d]
            OBVIOUS
        <3>1. r = [term |-> a, at |-> b, result |-> c, label |-> d]
            BY <1>3, <2>1
        <3>2. [r EXCEPT !.result = new] = q
            BY <3>1
        <3>3. [q EXCEPT !.at = 1] = [term |-> a, at |-> 1, result |-> new, label |-> d]
            OBVIOUS
        <3>4. [r EXCEPT !.result = new, !.at = 1] = [[r EXCEPT !.result = new] EXCEPT !.at = 1]
            OBVIOUS
        <3>5. frames' = [frames EXCEPT ![1] = [r EXCEPT !.result = new, !.at = 1]]
            BY <1>3, <2>1
        <3> QED  BY <3>2, <3>3, <3>4, <3>5
    <2>3. Counters /\ max'.local = max.local + 1 /\ max'.label = max.label /\ max.label \in Nat
        BY <2>1, CounterFacts DEF Counters, Setting, Shape
    <2>4. ~LogicalKind(Cur.term)
        BY <2>1 DEF LogicalKind
    <2> HIDE DEF new
    <2>5. 1 \in Nat /\ Cur.label \in Nat /\ max'.label \in Nat /\ max'.label >= max.label
        BY <1>3, <2>1, <2>3
    <2>6. Making
        BY <2>1, <2>2, <2>3, <2>4, <2>5 DEF Making, new
    <2> QED  BY <2>1, <2>6 DEF EmitStep, E!Same, E!Typed
<1> QED  BY <1>4, <1>5

\* Lines that write no temporary, or the result.
LEMMA LogicalSteps ==
    ASSUME Setting
    PROVE  /\ E!EmitLeft => EmitStep
           /\ E!EmitLogical => EmitStep
<1>0. max' = max => Counters /\ max'.local = max.local /\ max'.label = max.label
    BY DEF Setting, Shape, Counters
<1>1. ASSUME E!EmitLeft
      PROVE  EmitStep
    <2>1. /\ status = "typed" /\ frames # <<>> /\ LogicalKind(Cur.term)
          /\ Cur.result # NULL /\ Cur.at = 0 /\ max' = max /\ E!Same /\ E!TakeKid
        <3>1. E!Returned({"binary"}) /\ E!Top.at = 0 /\ E!This.op \in Logical
              /\ max' = max /\ E!Same /\ E!TakeKid
            BY <1>1 DEF E!EmitLeft, E!Logical, Logical
        <3>2. status = "typed" /\ frames # <<>> /\ Kind(Cur.term) = "binary" /\ Cur.result # NULL
            BY <3>1, CallsFacts
        <3> QED  BY <3>1, <3>2, FrameFacts DEF LogicalKind
    <2>2. ASSUME NEW s, NEW yes, NEW no,
                 lines' = lines \o <<E!Branch(s, yes, no, Cur.term), E!Label(E!bLabel, Cur.term)>>
          PROVE  Writing(<<E!Branch(s, yes, no, Cur.term), E!Label(E!bLabel, Cur.term)>>)
        <3> PICK a, b : a = E!Branch(s, yes, no, Cur.term) /\ b = E!Label(E!bLabel, Cur.term)
            OBVIOUS
        <3>1. a.to = <<>> /\ b.to = <<>>
            BY BranchFacts, LabelFacts
        <3>2. WritesOK(a) /\ WritesOK(b)
            BY <3>1, WritesNothing
        <3> PICK S : S = {a, b}
            OBVIOUS
        <3>3. <<a, b>> \in Seq(S) /\ \A i \in 1 .. Len(<<a, b>>) : <<a, b>>[i] = a \/ <<a, b>>[i] = b
            OBVIOUS
        <3>4. \A i \in 1 .. Len(<<a, b>>) : WritesOK(<<a, b>>[i])
            BY <3>2, <3>3
        <3> QED  BY <1>0, <2>1, <2>2, <3>3, <3>4 DEF Writing
    <2>3. \E s :
            \/ lines' = lines \o <<E!Branch(s, E!bLabel, E!falseLabel, Cur.term), E!Label(E!bLabel, Cur.term)>>
            \/ lines' = lines \o <<E!Branch(s, E!trueLabel, E!bLabel, Cur.term), E!Label(E!bLabel, Cur.term)>>
        BY <1>1, FrameFacts DEF E!EmitLeft, E!Write
    <2>4. frames' = [frames EXCEPT ![1].at = @ + 1]
        BY <2>1 DEF E!TakeKid
    <2>5. LeftEmitted
        BY <2>1, <2>2, <2>3, <2>4 DEF LeftEmitted
    <2> QED  BY <2>1, <2>5 DEF EmitStep, E!Same, E!Typed
<1>2. ASSUME E!EmitLogical
      PROVE  EmitStep
    <2>1. /\ status = "typed" /\ frames # <<>> /\ LogicalKind(Cur.term) /\ Kind(Cur.term) = "binary"
          /\ Cur.result # NULL /\ Cur.at = Len(Parts(Cur.term))
          /\ max' = max /\ E!Same /\ E!Return(E!Top.result)
        <3>1. E!Complete({"binary"}) /\ E!This.op \in Logical
              /\ max' = max /\ E!Same /\ E!Return(E!Top.result)
            BY <1>2 DEF E!EmitLogical, E!Logical, Logical
        <3>2. /\ status = "typed" /\ frames # <<>> /\ Kind(Cur.term) = "binary" /\ Cur.result # NULL
              /\ Cur.at = Len(Parts(Cur.term))
            BY <3>1, CompletedFacts
        <3> QED  BY <3>1, <3>2, FrameFacts DEF LogicalKind
    <2>2. Cur.at = 2
        BY <2>1, CurFacts, TermFacts DEF Setting
    <2>3. PICK result : /\ lines' = lines \o E!LogicalLines(result)
                        /\ result = <<E!Garbage>> \/ result = <<Cur.result>>
        BY <1>2, FrameFacts DEF E!EmitLogical, E!Write
    <2>4. PICK a, b, c, d, e, f, g :
            /\ E!LogicalLines(result) = <<a, b, c, d, e, f, g>>
            /\ a = E!Branch(E!Value(2), E!trueLabel, E!falseLabel, Cur.term)
            /\ b = E!Label(E!falseLabel, Cur.term)
            /\ c = E!CopyNumber(result, 0, Cur.term)
            /\ d = E!Jump(E!endLabel, Cur.term)
            /\ e = E!Label(E!trueLabel, Cur.term)
            /\ f = E!CopyNumber(result, 1, Cur.term)
            /\ g = E!Label(E!endLabel, Cur.term)
        BY FrameFacts DEF E!LogicalLines
    <2>5. WritesOK(a) /\ WritesOK(b) /\ WritesOK(d) /\ WritesOK(e) /\ WritesOK(g)
        BY <2>4, BranchFacts, LabelFacts, JumpFacts, WritesNothing
    <2>6. WritesOK(c) /\ WritesOK(f)
        <3>1. /\ c.to = result /\ c.of = Cur.term
              /\ f.to = result /\ f.of = Cur.term
            BY <2>4, NumberFacts
        <3>2. E!Garbage.space # "local"
            BY DEF E!Garbage
        <3> QED  BY <2>1, <2>3, <3>1, <3>2, WritesOne
    <2> PICK S : S = {a, b, c, d, e, f, g}
        OBVIOUS
    <2>7. /\ <<a, b, c, d, e, f, g>> \in Seq(S)
          /\ \A i \in 1 .. Len(<<a, b, c, d, e, f, g>>) : <<a, b, c, d, e, f, g>>[i] \in S
        OBVIOUS
    <2>8. \A i \in 1 .. Len(<<a, b, c, d, e, f, g>>) : WritesOK(<<a, b, c, d, e, f, g>>[i])
        BY <2>5, <2>6, <2>7
    <2>9. Writing(E!LogicalLines(result))
        BY <1>0, <2>1, <2>3, <2>4, <2>7, <2>8 DEF Writing
    <2>10. frames' = Tail(frames)
        BY <2>1 DEF E!Return
    <2>11. BothEmitted
        BY <2>1, <2>2, <2>9, <2>10 DEF BothEmitted
    <2> QED  BY <2>1, <2>11 DEF EmitStep, E!Same, E!Typed
<1> QED  BY <1>1, <1>2

\* Between the declarations.
LEMMA DeclarationSteps ==
    ASSUME Setting
    PROVE  /\ E!SkipDecl => EmitStep
           /\ E!StartFunction => EmitStep
           /\ E!FinishFunction => EmitStep
           /\ E!Finish => EmitStep
<1>0. /\ max' = max => Counters /\ max'.local = max.local /\ max'.label = max.label
      /\ \A n : max' = [max EXCEPT !.struct = n] => Counters /\ max'.local = max.local /\ max'.label = max.label
    BY CounterFacts DEF Setting, Shape, Counters
<1>1. E!SkipDecl => EmitStep
    BY NoText DEF E!SkipDecl, E!AtDecl, E!Typed, EmitStep, Plain, FramesChange
<1>2. E!Finish => EmitStep
    BY NoText DEF E!Finish, E!Typed, EmitStep, Plain, FramesChange
<1>3. ASSUME E!StartFunction
      PROVE  EmitStep
    <2>1. CASE E!Fatal
        BY <1>3, <2>1, FatalEmits DEF E!StartFunction, E!AtDecl
    <2>2. CASE ~E!Fatal
        <3>1. /\ status = "typed" /\ frames = <<>> /\ E!IsFunction /\ emitted < Len(program.decls)
              /\ lines' = lines \o <<[E!Op("function", 0) EXCEPT !.name = E!NextDecl.name]>>
              /\ \E n : max' = [max EXCEPT !.struct = n]
              /\ frames' = <<E!Frame(E!Body)>> /\ E!Same
            BY <1>3, <2>2 DEF E!StartFunction, E!AtDecl, E!Require, E!Write
        <3> PICK name : name = E!NextDecl.name
            OBVIOUS
        <3> PICK line : line = [E!Op("function", 0) EXCEPT !.name = name]
            OBVIOUS
        <3>2. line.op = "function" /\ line.labels = <<>> /\ line.to = <<>>
            BY NamingFacts
        <3>3. WritesOK(line) /\ Silent(line)
            BY <3>1, <3>2, WritesNothing DEF Silent
        <3>4. \E r \in Roots : Kind(r) = "function" /\ E!Body = Parts(r)[1]
            <4>1. emitted + 1 \in DOMAIN program.decls
                BY <3>1, ProgramFacts DEF Setting, Shape
            <4>2. /\ program.decls[emitted + 1].exp # NULL
                  /\ Kind(program.decls[emitted + 1].exp) = "function"
                  /\ E!Body = Parts(program.decls[emitted + 1].exp)[1]
                BY <3>1 DEF E!IsFunction, E!NextDecl, E!Body, Kind, Parts
            <4> QED  BY <4>1, <4>2 DEF Roots
        <3>5. frames' = <<E!Frame(E!Body)>> \o frames
            BY <3>1
        <3>6. FramesChange
            BY <3>1, <3>4, <3>5 DEF FramesChange, Begins
        <3> QED  BY <1>0, <3>1, <3>3, <3>6, OneLine DEF EmitStep, Plain, E!Same, E!Typed
    <2> QED  BY <2>1, <2>2
<1>4. ASSUME E!FinishFunction
      PROVE  EmitStep
    <2> DEFINE from0 == IF E!isUnitType(E!ResultType) THEN <<>> ELSE <<symbol[E!Body]>>
    <2>0. /\ status = "typed" /\ frames = <<>> /\ frames' = frames /\ max' = max
          /\ program' = program /\ status' = status /\ emitted' = emitted + 1
        BY <1>4 DEF E!FinishFunction, E!AtDecl, E!Typed
    <2>1. /\ lines' = lines \o <<[E!Op("ret", 0) EXCEPT !.from = from0], E!Op("end", 0)>>
        BY <1>4 DEF E!FinishFunction, E!Write
    <2> HIDE DEF from0
    <2> PICK a, b : a = [E!Op("ret", 0) EXCEPT !.from = from0] /\ b = E!Op("end", 0)
        OBVIOUS
    <2>2. a.op = "ret" /\ a.labels = <<>> /\ a.to = <<>> /\ b.op = "end" /\ b.labels = <<>> /\ b.to = <<>>
        BY ReadingFacts, OpFacts
    <2>3. WritesOK(a) /\ WritesOK(b) /\ Silent(a) /\ Silent(b)
        BY <2>0, <2>2, WritesNothing DEF Silent
    <2> PICK S : S = {a, b}
        OBVIOUS
    <2>4. <<a, b>> \in Seq(S) /\ \A i \in 1 .. Len(<<a, b>>) : <<a, b>>[i] = a \/ <<a, b>>[i] = b
        OBVIOUS
    <2>5. Writing(<<a, b>>)
        BY <1>0, <2>0, <2>1, <2>3, <2>4 DEF Writing
    <2>6. Plain
        BY <2>0, <2>3, <2>4, <2>5 DEF Plain, FramesChange
    <2> QED  BY <2>0, <2>6 DEF EmitStep
<1> QED  BY <1>1, <1>2, <1>3, <1>4

LEMMA EmitterStep ==
    ASSUME Setting, E!Next
    PROVE  EmitStep
BY SilentSteps, EmitKidStep, ReturnSteps, LiteralSteps, OperatorStep, EmitLocalStep,
   EmitAssignmentStep, EmitCallStep, MakingSteps, LogicalSteps, DeclarationSteps DEF E!Next

-----------------------------------------------------------------------------
(* What a step does to the frames and the lines. *)

\* The frame of the same call, perhaps further on.
Alike(f, g) ==
    /\ g.term = f.term /\ g.result = f.result /\ g.label = f.label
    /\ g.at \in Nat /\ g.at >= f.at

\* The frames are d places further down: those that have made a temporary were
\* there before, and those of logical operators remain.
Moved(d) ==
    \A g \in 1 .. Len(frames') : frames'[g].result # NULL =>
        g - d \in 1 .. Len(frames) /\ Alike(frames[g - d], frames'[g])

Kept(d) ==
    \A f \in 1 .. Len(frames) : LogicalKind(frames[f].term) =>
        f + d \in 1 .. Len(frames') /\ Alike(frames[f], frames'[f + d])

LEMMA RecordFacts ==
    ASSUME Setting
    PROVE  /\ Len(frames) \in Nat /\ \E R : frames \in Seq(R)
           /\ \A f \in 1 .. Len(frames) :
                frames[f].at \in Nat /\ frames[f].label \in Nat /\ frames[f].term \in TermAt
<1>1. PICK R : frames \in Seq(R)
    BY DEF Setting, Shape
<1>2. Len(frames) \in Nat
    BY <1>1
<1>3. \A f \in 1 .. Len(frames) : Record(frames[f])
    BY DEF Setting, Shape
<1> QED  BY <1>1, <1>2, <1>3 DEF Record

LEMMA AlikeItself ==
    ASSUME Setting, NEW f \in 1 .. Len(frames)
    PROVE  Alike(frames[f], frames[f])
<1>1. frames[f].at \in Nat
    BY RecordFacts
<1> QED  BY <1>1 DEF Alike

LEMMA StayMoves ==
    ASSUME Setting, frames' = frames
    PROVE  Moved(0) /\ Kept(0)
<1>1. \A f \in 1 .. Len(frames) : f + 0 = f /\ f - 0 = f
    BY RecordFacts
<1> QED  BY <1>1, AlikeItself DEF Moved, Kept

LEMMA TailMoves ==
    ASSUME Setting, frames # <<>>, frames' = Tail(frames)
    PROVE  /\ Len(frames') = Len(frames) - 1
           /\ \A g \in 1 .. Len(frames') : frames'[g] = frames[g + 1]
           /\ Moved(-1)
<1>1. /\ Len(frames) \in Nat /\ Len(frames') = Len(frames) - 1
      /\ \A i \in 1 .. Len(frames) - 1 : frames'[i] = frames[i + 1]
    BY RecordFacts, PopFacts
<1>2. \A g \in 1 .. Len(frames') : g - (-1) = g + 1 /\ g + 1 \in 1 .. Len(frames)
    BY <1>1
<1> QED  BY <1>1, <1>2, RecordFacts DEF Moved, Alike

LEMMA TakeMoves ==
    ASSUME Setting, frames # <<>>, frames' = [frames EXCEPT ![1].at = @ + 1]
    PROVE  /\ Len(frames') = Len(frames)
           /\ Moved(0) /\ Kept(0)
           /\ frames'[1] = [term |-> Cur.term, at |-> Cur.at + 1,
                            result |-> Cur.result, label |-> Cur.label]
<1>1. Cur = frames[1] /\ Len(frames) \in Nat \ {0}
    BY CurFacts
<1>2. frames' = [frames EXCEPT ![1] = [term |-> Cur.term, at |-> Cur.at + 1,
                                       result |-> Cur.result, label |-> Cur.label]]
    <2> PICK r : r = frames[1]
        OBVIOUS
    <2>1. r = [term |-> r.term, at |-> r.at, result |-> r.result, label |-> r.label]
        BY <1>1, CurFacts DEF Record
    <2>2. [r EXCEPT !.at = r.at + 1] =
            [term |-> r.term, at |-> r.at + 1, result |-> r.result, label |-> r.label]
        BY <2>1
    <2>3. frames' = [frames EXCEPT ![1] = [r EXCEPT !.at = r.at + 1]]
        OBVIOUS
    <2> QED  BY <1>1, <2>2, <2>3
<1> PICK q : q = [term |-> Cur.term, at |-> Cur.at + 1, result |-> Cur.result, label |-> Cur.label]
    OBVIOUS
<1>3. Len(frames') = Len(frames) /\ frames'[1] = q /\ \A i \in 2 .. Len(frames) : frames'[i] = frames[i]
    BY <1>2, RecordFacts, SetFacts
<1>4. Alike(frames[1], q)
    <2>1. frames[1].at \in Nat
        BY <1>1, RecordFacts
    <2>2. Cur.at + 1 >= frames[1].at /\ Cur.at + 1 \in Nat
        BY <1>1, <2>1
    <2>3. q.term = Cur.term /\ q.result = Cur.result /\ q.label = Cur.label /\ q.at = Cur.at + 1
        OBVIOUS
    <2> QED  BY <1>1, <2>2, <2>3 DEF Alike
<1>5. \A f \in 1 .. Len(frames) : Alike(frames[f], frames'[f])
    BY <1>3, <1>4, AlikeItself
<1>6. \A f \in 1 .. Len(frames) : f + 0 = f /\ f - 0 = f
    BY <1>1
<1> QED  BY <1>3, <1>5, <1>6 DEF Moved, Kept

LEMMA PushMoves ==
    ASSUME Setting, NEW t, frames' = <<E!Frame(t)>> \o frames
    PROVE  /\ Len(frames') = Len(frames) + 1
           /\ frames'[1] = E!Frame(t) /\ \A i \in 1 .. Len(frames) : frames'[i + 1] = frames[i]
           /\ Moved(1) /\ Kept(1)
<1>1. /\ Len(frames) \in Nat /\ Len(frames') = Len(frames) + 1
      /\ frames'[1] = E!Frame(t)
      /\ \A i \in 1 .. Len(frames) : frames'[i + 1] = frames[i]
      /\ \A i \in 2 .. Len(frames) + 1 : frames'[i] = frames[i - 1]
    BY RecordFacts, PushFacts
<1>2. frames'[1].result = NULL
    BY <1>1 DEF E!Frame
<1>3. Moved(1)
    <2> SUFFICES ASSUME NEW g \in 1 .. Len(frames'), frames'[g].result # NULL
                 PROVE  g - 1 \in 1 .. Len(frames) /\ Alike(frames[g - 1], frames'[g])
        BY DEF Moved
    <2>1. g \in 2 .. Len(frames) + 1 /\ g - 1 \in 1 .. Len(frames)
        BY <1>1, <1>2
    <2>2. frames'[g] = frames[g - 1]
        BY <1>1, <2>1
    <2> QED  BY <2>1, <2>2, AlikeItself
<1>4. Kept(1)
    <2> SUFFICES ASSUME NEW f \in 1 .. Len(frames)
                 PROVE  f + 1 \in 1 .. Len(frames') /\ Alike(frames[f], frames'[f + 1])
        BY DEF Kept
    <2>1. f + 1 \in 1 .. Len(frames')
        BY <1>1
    <2> QED  BY <1>1, <2>1, AlikeItself
<1> QED  BY <1>1, <1>3, <1>4

LEMMA MoveFacts ==
    ASSUME Setting, FramesChange
    PROVE  \E d \in Int : Moved(d) /\ Kept(d)
<1>1. CASE frames' = frames
    BY <1>1, StayMoves
<1>2. CASE frames # <<>> /\ frames' = Tail(frames) /\ ~LogicalKind(Cur.term)
    <2>1. /\ Len(frames') = Len(frames) - 1 /\ Moved(-1)
          /\ \A g \in 1 .. Len(frames') : frames'[g] = frames[g + 1]
        BY <1>2, TailMoves
    <2>2. Len(frames) \in Nat \ {0} /\ ~LogicalKind(frames[1].term)
        BY <1>2, CurFacts
    <2>3. Kept(-1)
        <3> SUFFICES ASSUME NEW f \in 1 .. Len(frames), LogicalKind(frames[f].term)
                     PROVE  f + (-1) \in 1 .. Len(frames') /\ Alike(frames[f], frames'[f + (-1)])
            BY DEF Kept
        <3>1. f # 1 /\ f + (-1) = f - 1 /\ f - 1 \in 1 .. Len(frames') /\ (f - 1) + 1 = f
            BY <2>1, <2>2
        <3>2. frames'[f - 1] = frames[f]
            BY <2>1, <3>1
        <3> QED  BY <3>1, <3>2, AlikeItself
    <2> QED  BY <2>1, <2>3
<1>3. CASE frames # <<>> /\ frames' = [frames EXCEPT ![1].at = @ + 1]
    BY <1>3, TakeMoves
<1>4. CASE \E t : Begins(t) /\ frames' = <<E!Frame(t)>> \o frames
    BY <1>4, PushMoves
<1> QED  BY <1>1, <1>2, <1>3, <1>4 DEF FramesChange

LEMMA MakingFacts ==
    ASSUME Setting, Making
    PROVE  /\ Len(frames') = Len(frames) /\ Len(frames) \in Nat \ {0}
           /\ frames[1].result = NULL
           /\ frames'[1].term = frames[1].term /\ frames'[1].result = E!NewLocal
           /\ Record(frames'[1])
           /\ \A f \in 2 .. Len(frames) : frames'[f] = frames[f]
           /\ LogicalKind(frames[1].term) =>
                frames'[1].label = max.label /\ max'.label = max.label + 4
           /\ max'.label \in Nat /\ max'.label >= max.label
<1>1. Cur = frames[1] /\ Len(frames) \in Nat \ {0} /\ Cur.term \in TermAt
    BY CurFacts DEF Making
<1>2. PICK at \in Nat, label \in Nat :
        /\ frames' = [frames EXCEPT ![1] =
                [term |-> Cur.term, at |-> at, result |-> E!NewLocal, label |-> label]]
        /\ max'.label \in Nat /\ max'.label >= max.label
        /\ LogicalKind(Cur.term) => label = max.label /\ max'.label = max.label + 4
    BY DEF Making
<1> PICK q : q = [term |-> Cur.term, at |-> at, result |-> E!NewLocal, label |-> label]
    OBVIOUS
<1>3. Len(frames') = Len(frames) /\ frames'[1] = q /\ \A i \in 2 .. Len(frames) : frames'[i] = frames[i]
    <2>1. PICK R : frames \in Seq(R)
        BY RecordFacts
    <2>2. frames # <<>>
        BY DEF Making
    <2> QED  BY <1>2, <2>1, <2>2, SetFacts
<1>5. Record(q)
    BY <1>1 DEF Record
<1> QED  BY <1>1, <1>2, <1>3, <1>5 DEF Making

LEMMA LinesFacts ==
    ASSUME Setting, NEW text, Writing(text)
    PROVE  /\ DOMAIN lines = 1 .. Len(lines) /\ Len(lines) \in Nat /\ Len(text) \in Nat
           /\ DOMAIN lines' = 1 .. Len(lines) + Len(text)
           /\ Len(lines') = Len(lines) + Len(text)
           /\ \A i \in 1 .. Len(lines) : lines'[i] = lines[i]
           /\ \A i \in Len(lines) + 1 .. Len(lines) + Len(text) :
                i - Len(lines) \in 1 .. Len(text) /\ lines'[i] = text[i - Len(lines)]
           /\ \E S : lines' \in Seq(S)
<1>1. PICK S : lines \in Seq(S)
    BY DEF Setting, Shape
<1>2. PICK R : text \in Seq(R)
    BY DEF Writing
<1> PICK Q : Q = S \cup R
    OBVIOUS
<1>3. lines \in Seq(Q) /\ text \in Seq(Q) /\ lines' = lines \o text
    BY <1>1, <1>2 DEF Writing
<1> QED  BY <1>3

\* What is written is well formed, and the terms remain among those checked.
LEMMA FramesKeep ==
    ASSUME Setting, EmitStep
    PROVE  /\ \E R : frames' \in Seq(R)
           /\ \A f \in 1 .. Len(frames') : Record(frames'[f])
           /\ \A W \in SUBSET TermAt :
                Closed(W) /\ Roots \subseteq W /\ (\A f \in 1 .. Len(frames) : frames[f].term \in W)
                    => \A f \in 1 .. Len(frames') : frames'[f].term \in W
<1> DEFINE Seqs == \E R : frames' \in Seq(R)
           Fine == \A f \in 1 .. Len(frames') : Record(frames'[f])
           Before(f) == \E g \in 1 .. Len(frames) : frames'[f].term = frames[g].term
<1>0. PICK R : frames \in Seq(R)
    BY DEF Setting, Shape
<1>1. Len(frames) \in Nat /\ \A f \in 1 .. Len(frames) : Record(frames[f])
    BY <1>0 DEF Setting, Shape
<1>2. ASSUME frames # <<>>, frames' = Tail(frames)
      PROVE  Seqs /\ Fine /\ \A f \in 1 .. Len(frames') : Before(f)
    <2>1. Seqs
        BY <1>0, <1>2, PopFacts
    <2>2. Len(frames') = Len(frames) - 1 /\ \A g \in 1 .. Len(frames') : frames'[g] = frames[g + 1]
        BY <1>2, TailMoves
    <2>3. \A g \in 1 .. Len(frames') : g + 1 \in 1 .. Len(frames)
        BY <1>1, <2>2
    <2> QED  BY <1>1, <2>1, <2>2, <2>3
<1>3. ASSUME frames # <<>>, frames' = [frames EXCEPT ![1].at = @ + 1]
      PROVE  Seqs /\ Fine /\ \A f \in 1 .. Len(frames') : Before(f)
    <2> PICK q : q = frames'[1]
        OBVIOUS
    <2>1. Len(frames') = Len(frames)
          /\ q = [term |-> Cur.term, at |-> Cur.at + 1, result |-> Cur.result, label |-> Cur.label]
        BY <1>3, TakeMoves
    <2>2. Record(Cur) /\ Cur = frames[1] /\ Len(frames) \in Nat \ {0}
        BY <1>3, CurFacts
    <2>3. Record(q) /\ q.term = frames[1].term
        BY <2>1, <2>2 DEF Record
    <2>4. frames' = [frames EXCEPT ![1] = q]
        BY <1>0, <1>3, <2>2
    <2>5. Seqs /\ \A i \in 2 .. Len(frames) : frames'[i] = frames[i]
        <3>1. frames # <<>>
            BY <1>3
        <3>2. \A i \in 2 .. Len(frames) : frames'[i] = frames[i]
            BY <1>0, <2>4, <3>1, SetFacts
        <3> PICK Q : Q = R \cup {q}
            OBVIOUS
        <3>3. frames \in Seq(Q) /\ q \in Q
            BY <1>0
        <3>4. frames' \in Seq(Q)
            BY <2>4, <3>1, <3>3, SetIn
        <3> QED  BY <3>2, <3>4
    <2>6. \A f \in 1 .. Len(frames) : Record(frames'[f]) /\ frames'[f].term = frames[f].term
        BY <1>1, <2>3, <2>5
    <2> QED  BY <2>1, <2>5, <2>6
<1>4. ASSUME NEW t, t \in TermAt, frames' = <<E!Frame(t)>> \o frames
      PROVE  Seqs /\ Fine /\ \A f \in 1 .. Len(frames') : frames'[f].term = t \/ Before(f)
    <2> PICK q : q = E!Frame(t)
        OBVIOUS
    <2>1. Record(q) /\ q.term = t
        BY <1>4 DEF E!Frame, Record
    <2>2. Seqs
        BY <1>0, <1>4, PushFacts
    <2>3. /\ Len(frames') = Len(frames) + 1 /\ frames'[1] = q
          /\ \A i \in 2 .. Len(frames) + 1 : frames'[i] = frames[i - 1]
        BY <1>0, <1>4, PushFacts
    <2>4. ASSUME NEW f \in 1 .. Len(frames')
          PROVE  Record(frames'[f]) /\ (frames'[f].term = t \/ Before(f))
        <3>1. CASE f = 1
            BY <2>1, <2>3, <3>1
        <3>2. CASE f # 1
            <4>1. f \in 2 .. Len(frames) + 1 /\ f - 1 \in 1 .. Len(frames)
                BY <1>1, <2>3, <3>2
            <4> QED  BY <1>1, <2>3, <4>1
        <3> QED  BY <3>1, <3>2
    <2> QED  BY <2>2, <2>4
<1>5. ASSUME NEW t, Begins(t), NEW W \in SUBSET TermAt, Closed(W), Roots \subseteq W,
             \A f \in 1 .. Len(frames) : frames[f].term \in W
      PROVE  t \in W
    <2>1. CASE frames # <<>>
        <3>1. /\ Cur = frames[1] /\ Len(frames) \in Nat \ {0} /\ Cur.at \in Nat
              /\ Cur.term \in TermAt
            BY <2>1, CurFacts, RecordFacts
        <3>2. Cur.at < Len(Parts(Cur.term)) /\ t = Parts(Cur.term)[Cur.at + 1]
            BY <1>5, <2>1 DEF Begins
        <3>3. Cur.at + 1 \in DOMAIN Parts(Cur.term)
            BY <3>1, <3>2, TermFacts DEF Setting
        <3> QED  BY <1>5, <3>1, <3>2, <3>3 DEF Closed
    <2>2. CASE frames = <<>>
        <3>1. PICK r \in Roots : Kind(r) = "function" /\ t = Parts(r)[1]
            BY <1>5, <2>2 DEF Begins
        <3>2. r \in W /\ r \in TermAt
            BY <1>5, <3>1
        <3>3. 1 \in DOMAIN Parts(r)
            BY <3>1, <3>2, TermFacts DEF Setting
        <3> QED  BY <1>5, <3>1, <3>2, <3>3 DEF Closed
    <2> QED  BY <2>1, <2>2
<1>6. CASE FramesChange
    <2>1. CASE frames' = frames
        BY <1>0, <1>1, <2>1
    <2>2. CASE \E t : Begins(t) /\ frames' = <<E!Frame(t)>> \o frames
        <3>1. PICK t : Begins(t) /\ frames' = <<E!Frame(t)>> \o frames
            BY <2>2
        <3>2. PICK W \in SUBSET TermAt : Closed(W) /\ Roots \subseteq W
                                         /\ \A f \in 1 .. Len(frames) : frames[f].term \in W
            BY DEF Setting, Checked
        <3>3. t \in TermAt
            BY <1>5, <3>1, <3>2
        <3>4. Seqs /\ Fine /\ \A f \in 1 .. Len(frames') : frames'[f].term = t \/ Before(f)
            BY <1>4, <3>1, <3>3
        <3> QED  BY <1>5, <3>1, <3>4
    <2> QED  BY <1>2, <1>3, <1>6, <2>1, <2>2 DEF FramesChange
<1>7. CASE Making
    <2>1. /\ Len(frames') = Len(frames) /\ Len(frames) \in Nat \ {0}
          /\ frames'[1].term = frames[1].term /\ Record(frames'[1])
          /\ \A f \in 2 .. Len(frames) : frames'[f] = frames[f]
        BY <1>7, MakingFacts
    <2>2. \A f \in 1 .. Len(frames) : frames'[f].term = frames[f].term /\ Record(frames'[f])
        BY <1>1, <2>1
    <2>3. Seqs
        <3>1. \E q : frames' = [frames EXCEPT ![1] = q]
            BY <1>7 DEF Making
        <3>2. frames # <<>>
            BY <1>7 DEF Making
        <3> QED  BY <1>0, <3>1, <3>2, SetFacts
    <2>4. Fine
        BY <2>1, <2>2
    <2>5. \A f \in 1 .. Len(frames') : Before(f)
        BY <2>1, <2>2
    <2> QED  BY <2>3, <2>4, <2>5
<1>8. CASE LeftEmitted
    <2>1. frames # <<>> /\ frames' = [frames EXCEPT ![1].at = @ + 1]
        BY <1>8 DEF LeftEmitted
    <2> QED  BY <1>3, <2>1
<1>9. CASE BothEmitted
    BY <1>2, <1>9 DEF BothEmitted
<1> QED  BY <1>6, <1>7, <1>8, <1>9 DEF EmitStep, Plain

LEMMA SettingKeeps ==
    ASSUME Setting, EmitStep
    PROVE  Setting'
<1>1. program' = program
    BY DEF EmitStep
<1>2. Counters /\ max'.local \in {max.local, max.local + 1} /\ max'.label \in Nat
    BY MakingFacts DEF EmitStep, Plain, LeftEmitted, BothEmitted, Making, Writing, Setting, Shape
<1>3. \E S : lines' \in Seq(S)
    <2>1. CASE Making
        BY <2>1 DEF Making, Setting, Shape
    <2>2. CASE ~Making
        <3>1. \E text : Writing(text)
            BY <2>2 DEF EmitStep, Plain, LeftEmitted, BothEmitted
        <3> QED  BY <3>1, LinesFacts
    <2> QED  BY <2>1, <2>2
<1>4. (\E R : frames' \in Seq(R)) /\ (\A f \in 1 .. Len(frames') : Record(frames'[f])) /\ emitted' \in Nat
    BY FramesKeep DEF EmitStep, Setting, Shape
<1>5. TermAt' = TermAt /\ Roots' = Roots /\ \A W : Closed(W)' <=> Closed(W)
    BY <1>1 DEF TermAt, Roots, Closed, Parts, Kind
<1>6. Shape'
    <2>1. max'.local \in Nat /\ max'.local >= program.maxId
        BY <1>2, ProgramFacts DEF Setting, Shape
    <2>2. (\A f \in 1 .. Len(frames) : Record(frames[f]))'
        BY <1>4, <1>5 DEF Record
    <2> QED  BY <1>1, <1>2, <1>3, <1>4, <2>1, <2>2 DEF Shape, Counters
<1>7. Checked'
    <2>1. PICK W \in SUBSET TermAt : /\ Closed(W) /\ Roots \subseteq W
                                     /\ \A f \in 1 .. Len(frames) : frames[f].term \in W
        BY DEF Setting, Checked
    <2>2. \A f \in 1 .. Len(frames') : frames'[f].term \in W
        BY <2>1, FramesKeep
    <2> QED  BY <1>5, <2>1, <2>2 DEF Checked
<1> QED  BY <1>1, <1>6, <1>7 DEF Setting

-----------------------------------------------------------------------------
(* Temporaries *)

\* The emitter has made temporary n for term t, when it has made those up to m.
Made(owner, m, n, t) == n \in program.maxId + 1 .. m /\ owner[n] = t

WrittenByOwner(owner, m, line) ==
    \A s \in Range(line.to) : s.space = "local" =>
        Named(s, line.of) \/ Made(owner, m, s.id, line.of)

HeldByOwner(owner, m, f) ==
    f.result # NULL => f.result.space = "local" /\ Made(owner, m, f.result.id, f.term)

OwnedBy(owner, m, text, calls) ==
    /\ \A i \in 1 .. Len(text) : WrittenByOwner(owner, m, text[i])
    /\ \A f \in 1 .. Len(calls) : HeldByOwner(owner, m, calls[f])

\* Each temporary that the emitter has made has one term for which it was made.
Owned == \E owner \in [Nat -> Nat] : OwnedBy(owner, max.local, lines, frames)

\* One more temporary, made for a term.
Grown(owner, old, next, m, term) ==
    /\ \A n, t : Made(owner, old, n, t) => Made(next, m, n, t)
    /\ m = old + 1 => Made(next, m, m, term)

LEMMA MakeOne ==
    ASSUME NEW owner \in [Nat -> Nat], NEW old \in Nat, NEW m \in {old, old + 1}, NEW term \in Nat,
           program.maxId \in Nat, program.maxId <= old
    PROVE  \E next \in [Nat -> Nat] : Grown(owner, old, next, m, term)
<1>1. PICK next : next = [owner EXCEPT ![old + 1] = term]
    OBVIOUS
<1>2. next \in [Nat -> Nat] /\ next[old + 1] = term /\ \A n \in Nat : n # old + 1 => next[n] = owner[n]
    BY <1>1
<1>3. ASSUME NEW n, NEW t, Made(owner, old, n, t)
      PROVE  Made(next, m, n, t)
    <2>1. n \in program.maxId + 1 .. old
        BY <1>3 DEF Made
    <2>2. n \in Nat /\ n # old + 1 /\ n \in program.maxId + 1 .. m
        BY <2>1
    <2> QED  BY <1>2, <1>3, <2>2 DEF Made
<1>4. ASSUME m = old + 1
      PROVE  Made(next, m, m, term)
    <2>1. m \in program.maxId + 1 .. m
        BY <1>4
    <2> QED  BY <1>2, <1>4, <2>1 DEF Made
<1> QED  BY <1>2, <1>3, <1>4 DEF Grown

LEMMA OwnedKeeps ==
    ASSUME Setting, Owned, EmitStep
    PROVE  Owned'
<1>1. PICK owner \in [Nat -> Nat] : OwnedBy(owner, max.local, lines, frames)
    BY DEF Owned
<1> PICK old, m, term : /\ old = max.local /\ m = max'.local
                        /\ term = IF frames = <<>> THEN 0 ELSE Cur.term
    OBVIOUS
<1>2. old \in Nat /\ m \in {old, old + 1} /\ program.maxId \in Nat /\ program.maxId <= old
    <2>1. max'.local \in {max.local, max.local + 1}
        BY DEF EmitStep, Plain, LeftEmitted, BothEmitted, Making, Writing
    <2>2. max.local \in Nat /\ program.maxId <= max.local
        BY ProgramFacts DEF Setting, Shape
    <2>3. program.maxId \in Nat
        BY ProgramFacts DEF Setting
    <2> QED  BY <2>1, <2>2, <2>3
<1>3. term \in Nat /\ (frames # <<>> => term = Cur.term)
    BY CurFacts, ProgramFacts DEF Setting
<1>0. PICK next \in [Nat -> Nat] : Grown(owner, old, next, m, term)
    BY <1>1, <1>2, <1>3, MakeOne
<1>4. /\ \A n, t : Made(owner, old, n, t) => Made(next, m, n, t)
      /\ m = old + 1 => Made(next, m, m, term)
    BY <1>0 DEF Grown
<1>5. program' = program
    BY DEF EmitStep
<1>6. E!NewLocal.id = old + 1 /\ E!NewLocal.space = "local"
    BY DEF E!NewLocal, E!Local
<1>7. /\ \A i \in 1 .. Len(lines) : WrittenByOwner(owner, old, lines[i])
      /\ \A f \in 1 .. Len(frames) : HeldByOwner(owner, old, frames[f])
    BY <1>1 DEF OwnedBy
<1>8. frames # <<>> => HeldByOwner(owner, old, Cur)
    <2> SUFFICES ASSUME frames # <<>> PROVE HeldByOwner(owner, old, Cur)
        OBVIOUS
    <2>1. Cur = frames[1] /\ 1 \in 1 .. Len(frames)
        BY CurFacts
    <2> QED  BY <1>7, <2>1
<1>9. ASSUME NEW f, NEW g, HeldByOwner(owner, old, f), g.term = f.term, g.result = f.result
       PROVE  HeldByOwner(next, m, g)
    BY <1>4, <1>9 DEF HeldByOwner
<1>10. ASSUME NEW line, WrittenByOwner(owner, old, line)
       PROVE  WrittenByOwner(next, m, line)
    BY <1>4, <1>10 DEF WrittenByOwner
<1>11. ASSUME NEW line, WritesOK(line)
       PROVE  WrittenByOwner(next, m, line)
    <2> SUFFICES ASSUME NEW s \in Range(line.to), s.space = "local"
                 PROVE  Named(s, line.of) \/ Made(next, m, s.id, line.of)
        BY DEF WrittenByOwner
    <2>1. CASE Named(s, line.of)
        BY <2>1
    <2>2. CASE frames # <<>> /\ line.of = Cur.term /\ s = Cur.result /\ s # NULL
        BY <1>4, <1>8, <2>2 DEF HeldByOwner
    <2>3. CASE frames # <<>> /\ line.of = Cur.term /\ s = E!NewLocal /\ max'.local = max.local + 1
        BY <1>3, <1>4, <1>6, <2>3
    <2> QED  BY <1>11, <2>1, <2>2, <2>3 DEF WritesOK
<1>12. ASSUME NEW d \in Int, Moved(d)
       PROVE  \A g \in 1 .. Len(frames') : HeldByOwner(next, m, frames'[g])
    <2> SUFFICES ASSUME NEW g \in 1 .. Len(frames')
                 PROVE  HeldByOwner(next, m, frames'[g])
        OBVIOUS
    <2>1. CASE frames'[g].result = NULL
        BY <2>1 DEF HeldByOwner
    <2>2. CASE frames'[g].result # NULL
        <3>1. g - d \in 1 .. Len(frames) /\ Alike(frames[g - d], frames'[g])
            BY <1>12, <2>2 DEF Moved
        <3>2. HeldByOwner(owner, old, frames[g - d])
            BY <1>7, <3>1
        <3> QED  BY <1>9, <3>1, <3>2 DEF Alike
    <2> QED  BY <2>1, <2>2
<1>13. ASSUME Making
       PROVE  \A g \in 1 .. Len(frames') : HeldByOwner(next, m, frames'[g])
    <2>1. /\ Len(frames') = Len(frames) /\ Len(frames) \in Nat \ {0}
          /\ frames'[1].term = frames[1].term /\ frames'[1].result = E!NewLocal
          /\ \A f \in 2 .. Len(frames) : frames'[f] = frames[f]
        BY <1>13, MakingFacts
    <2>2. Cur = frames[1] /\ frames # <<>> /\ m = old + 1
        BY <1>13, CurFacts DEF Making
    <2>3. HeldByOwner(next, m, frames'[1])
        BY <1>3, <1>4, <1>6, <2>1, <2>2 DEF HeldByOwner
    <2>4. ASSUME NEW g \in 2 .. Len(frames) PROVE HeldByOwner(next, m, frames'[g])
        <3>1. HeldByOwner(owner, old, frames[g])
            BY <1>7, <2>1
        <3>2. frames'[g] = frames[g]
            BY <2>1
        <3> QED  BY <1>9, <3>1, <3>2
    <2>5. \A g \in 1 .. Len(frames) : g = 1 \/ g \in 2 .. Len(frames)
        BY <2>1
    <2> QED  BY <2>1, <2>3, <2>4, <2>5
<1>14. ASSUME NEW text, Writing(text)
       PROVE  \A i \in 1 .. Len(lines') : WrittenByOwner(next, m, lines'[i])
    <2>1. /\ Len(lines) \in Nat /\ Len(text) \in Nat /\ Len(lines') = Len(lines) + Len(text)
          /\ \A i \in 1 .. Len(lines) : lines'[i] = lines[i]
          /\ \A i \in Len(lines) + 1 .. Len(lines) + Len(text) :
                i - Len(lines) \in 1 .. Len(text) /\ lines'[i] = text[i - Len(lines)]
        BY <1>14, LinesFacts
    <2> SUFFICES ASSUME NEW i \in 1 .. Len(lines')
                 PROVE  WrittenByOwner(next, m, lines'[i])
        OBVIOUS
    <2>2. CASE i \in 1 .. Len(lines)
        BY <1>7, <1>10, <2>1, <2>2
    <2>3. CASE i \notin 1 .. Len(lines)
        <3>1. i \in Len(lines) + 1 .. Len(lines) + Len(text)
            BY <2>1, <2>3
        <3>2. i - Len(lines) \in 1 .. Len(text) /\ lines'[i] = text[i - Len(lines)]
            BY <2>1, <3>1
        <3>3. WritesOK(text[i - Len(lines)])
            BY <1>14, <3>2 DEF Writing
        <3> QED  BY <1>11, <3>2, <3>3
    <2> QED  BY <2>2, <2>3
<1>15. (\E d \in Int : Moved(d)) \/ Making
    <2>1. Plain => \E d \in Int : Moved(d)
        BY MoveFacts DEF Plain
    <2>2. LeftEmitted => Moved(0)
        BY TakeMoves DEF LeftEmitted
    <2>3. BothEmitted => Moved(-1)
        BY TailMoves DEF BothEmitted
    <2> QED  BY <2>1, <2>2, <2>3 DEF EmitStep
<1>16. (\E text : Writing(text)) \/ Making
    BY DEF EmitStep, Plain, LeftEmitted, BothEmitted
<1>17. \A i \in 1 .. Len(lines') : WrittenByOwner(next, m, lines'[i])
    <2>1. CASE Making
        BY <1>7, <1>10, <2>1 DEF Making
    <2> QED  BY <1>14, <1>16, <2>1
<1>18. \A g \in 1 .. Len(frames') : HeldByOwner(next, m, frames'[g])
    BY <1>12, <1>13, <1>15
<1>19. OwnedBy(next, m, lines, frames)'
    BY <1>5, <1>17, <1>18 DEF OwnedBy, WrittenByOwner, HeldByOwner, Named, Made, Kind
<1> QED  BY <1>0, <1>19 DEF Owned

-----------------------------------------------------------------------------
(* Labels *)

Marks(line, l) == line.op = "label" /\ line.labels = <<l>>

Between(line) == line.op \in {"function", "end"}

\* The call of a logical operator whose labels are made.
Active(f) == f.result # NULL /\ LogicalKind(f.term)

\* A label is one of those made, and marks one line.
LabelsOnce(text, top) ==
    /\ \A i \in 1 .. Len(text) :
        text[i].op = "label" => \E l \in 1 .. top : text[i].labels = <<l>>
    /\ \A i, j \in 1 .. Len(text) : \A l \in 1 .. top :
        Marks(text[i], l) /\ Marks(text[j], l) => i = j

\* An inner call has made its labels after an outer one.
LabelsApart(calls, top) ==
    \A f \in 1 .. Len(calls) : Active(calls[f]) =>
        /\ calls[f].label + 4 <= top
        /\ \A g \in f + 1 .. Len(calls) : Active(calls[g]) => calls[g].label + 4 <= calls[f].label

\* Of the labels of a call only the first is defined, after the left operand.
LabelsOpen(text, calls) ==
    \A f \in 1 .. Len(calls) : Active(calls[f]) =>
        \A i \in 1 .. Len(text) : \A k \in 1 .. 4 :
            Marks(text[i], calls[f].label + k) => k = 1 /\ calls[f].at >= 1

Inside(text, i, j) == \A h \in i .. j : ~Between(text[h])

Lands(text, i, l) == \E j \in i + 1 .. Len(text) : Marks(text[j], l) /\ Inside(text, i, j)

\* The call that will define the label runs.
Pends(text, calls, i, l) ==
    /\ Inside(text, i, Len(text))
    /\ \E f \in 1 .. Len(calls) :
        Active(calls[f]) /\ calls[f].at >= 1 /\ l \in {calls[f].label + 2, calls[f].label + 3}

JumpsOK(text, calls) ==
    \A i \in 1 .. Len(text) : text[i].op # "label" => \A k \in DOMAIN text[i].labels :
        Lands(text, i, text[i].labels[k]) \/ Pends(text, calls, i, text[i].labels[k])

LabelsOK(text, calls, top) ==
    LabelsOnce(text, top) /\ LabelsApart(calls, top) /\ LabelsOpen(text, calls) /\ JumpsOK(text, calls)

\* One label marks a line.
LEMMA OneMark ==
    ASSUME NEW line, NEW l, NEW k, Marks(line, l), line.labels = <<k>>
    PROVE  l = k
<1>1. <<l>>[1] = <<k>>[1]
    BY DEF Marks
<1> QED  BY <1>1

LEMMA OnceKeeps ==
    ASSUME Setting, LabelsOnce(lines, max.label), NEW text, Writing(text),
           \A i \in 1 .. Len(text) : text[i].op = "label" =>
                \E l \in 1 .. max.label :
                    text[i].labels = <<l>> /\ \A h \in 1 .. Len(lines) : ~Marks(lines[h], l),
           \A i, j \in 1 .. Len(text) : \A l \in 1 .. max.label :
                Marks(text[i], l) /\ Marks(text[j], l) => i = j
    PROVE  LabelsOnce(lines', max'.label)
<1> PICK n : n = Len(lines)
    OBVIOUS
<1>1. /\ n \in Nat /\ Len(text) \in Nat /\ Len(lines') = n + Len(text)
      /\ \A i \in 1 .. n : lines'[i] = lines[i]
      /\ \A i \in n + 1 .. n + Len(text) : i - n \in 1 .. Len(text) /\ lines'[i] = text[i - n]
    BY LinesFacts
<1>2. max'.label = max.label
    BY DEF Writing
<1>3. \A i \in 1 .. Len(lines') : i \in 1 .. n \/ i \in n + 1 .. n + Len(text)
    BY <1>1
<1>4. ASSUME NEW i \in 1 .. Len(lines'), lines'[i].op = "label"
      PROVE  \E l \in 1 .. max.label : lines'[i].labels = <<l>>
    BY <1>1, <1>3, <1>4 DEF LabelsOnce
<1>5. ASSUME NEW i \in 1 .. n, NEW j \in n + 1 .. n + Len(text), NEW l,
             Marks(lines'[i], l), Marks(lines'[j], l)
      PROVE  FALSE
    <2>1. Marks(text[j - n], l) /\ j - n \in 1 .. Len(text) /\ Marks(lines[i], l)
        BY <1>1, <1>5
    <2>2. PICK k \in 1 .. max.label :
            text[j - n].labels = <<k>> /\ \A h \in 1 .. Len(lines) : ~Marks(lines[h], k)
        BY <2>1 DEF Marks
    <2>3. l = k
        BY <2>1, <2>2, OneMark
    <2> QED  BY <2>1, <2>2, <2>3
<1>6. ASSUME NEW i \in 1 .. Len(lines'), NEW j \in 1 .. Len(lines'), NEW l \in 1 .. max.label,
             Marks(lines'[i], l), Marks(lines'[j], l)
      PROVE  i = j
    <2>1. CASE i \in 1 .. n /\ j \in 1 .. n
        BY <1>1, <1>6, <2>1 DEF LabelsOnce
    <2>2. CASE i \in n + 1 .. n + Len(text) /\ j \in n + 1 .. n + Len(text)
        <3>1. i - n \in 1 .. Len(text) /\ j - n \in 1 .. Len(text)
              /\ Marks(text[i - n], l) /\ Marks(text[j - n], l)
            BY <1>1, <1>6, <2>2
        <3>2. i - n = j - n
            BY <3>1
        <3> QED  BY <1>1, <3>2
    <2> QED  BY <1>3, <1>5, <1>6, <2>1, <2>2
<1> QED  BY <1>2, <1>4, <1>6 DEF LabelsOnce

LEMMA ApartKeeps ==
    ASSUME Setting, LabelsApart(frames, max.label), NEW d \in Int, Moved(d), max'.label = max.label
    PROVE  LabelsApart(frames', max'.label)
<1> SUFFICES ASSUME NEW f \in 1 .. Len(frames'), Active(frames'[f])
             PROVE  /\ frames'[f].label + 4 <= max.label
                    /\ \A g \in f + 1 .. Len(frames') :
                        Active(frames'[g]) => frames'[g].label + 4 <= frames'[f].label
    BY DEF LabelsApart
<1>1. \A g \in 1 .. Len(frames') : Active(frames'[g]) =>
        g - d \in 1 .. Len(frames) /\ Active(frames[g - d]) /\ frames[g - d].label = frames'[g].label
    BY DEF Moved, Active, Alike
<1>2. /\ f - d \in 1 .. Len(frames) /\ Active(frames[f - d])
      /\ frames[f - d].label = frames'[f].label
    BY <1>1
<1>3. ASSUME NEW g \in f + 1 .. Len(frames'), Active(frames'[g])
      PROVE  frames'[g].label + 4 <= frames'[f].label
    <2>1. g \in 1 .. Len(frames')
        OBVIOUS
    <2>2. /\ g - d \in 1 .. Len(frames) /\ Active(frames[g - d])
          /\ frames[g - d].label = frames'[g].label
        BY <1>1, <1>3, <2>1
    <2>3. g - d \in (f - d) + 1 .. Len(frames)
        BY <1>2, <2>2
    <2> QED  BY <1>2, <2>2, <2>3 DEF LabelsApart
<1> QED  BY <1>2, <1>3 DEF LabelsApart

LEMMA OpenKeeps ==
    ASSUME Setting, LabelsOpen(lines, frames), NEW text, Writing(text), NEW d \in Int, Moved(d),
           \A g \in 1 .. Len(frames') : Active(frames'[g]) =>
                \A i \in 1 .. Len(text) : \A k \in 1 .. 4 :
                    Marks(text[i], frames'[g].label + k) => k = 1 /\ frames'[g].at >= 1
    PROVE  LabelsOpen(lines', frames')
<1> PICK n : n = Len(lines)
    OBVIOUS
<1>1. /\ n \in Nat /\ Len(text) \in Nat /\ Len(lines') = n + Len(text)
      /\ \A i \in 1 .. n : lines'[i] = lines[i]
      /\ \A i \in n + 1 .. n + Len(text) : i - n \in 1 .. Len(text) /\ lines'[i] = text[i - n]
    BY LinesFacts
<1>2. \A i \in 1 .. Len(lines') : i \in 1 .. n \/ i \in n + 1 .. n + Len(text)
    BY <1>1
<1> SUFFICES ASSUME NEW g \in 1 .. Len(frames'), Active(frames'[g]),
                    NEW i \in 1 .. Len(lines'), NEW k \in 1 .. 4,
                    Marks(lines'[i], frames'[g].label + k)
             PROVE  k = 1 /\ frames'[g].at >= 1
    BY DEF LabelsOpen
<1>3. CASE i \in 1 .. n
    <2>1. g - d \in 1 .. Len(frames) /\ Alike(frames[g - d], frames'[g])
        BY DEF Moved, Active
    <2>2. Active(frames[g - d]) /\ Marks(lines[i], frames[g - d].label + k)
        BY <1>1, <1>3, <2>1 DEF Alike, Active
    <2>3. k = 1 /\ frames[g - d].at >= 1
        BY <1>3, <2>1, <2>2 DEF LabelsOpen
    <2>4. frames[g - d].at \in Nat
        BY <2>1, RecordFacts
    <2>5. frames'[g].at \in Nat /\ frames'[g].at >= frames[g - d].at
        BY <2>1 DEF Alike
    <2> QED  BY <2>3, <2>4, <2>5
<1>4. CASE i \in n + 1 .. n + Len(text)
    BY <1>1, <1>4
<1> QED  BY <1>2, <1>3, <1>4

LEMMA LandsKeeps ==
    ASSUME Setting, NEW text, Writing(text), NEW i \in 1 .. Len(lines), NEW l, Lands(lines, i, l)
    PROVE  Lands(lines', i, l)
<1>1. PICK j \in i + 1 .. Len(lines) : Marks(lines[j], l) /\ Inside(lines, i, j)
    BY DEF Lands
<1>2. /\ Len(lines) \in Nat /\ Len(text) \in Nat /\ Len(lines') = Len(lines) + Len(text)
      /\ \A h \in 1 .. Len(lines) : lines'[h] = lines[h]
    BY LinesFacts
<1>3. j \in i + 1 .. Len(lines') /\ j \in 1 .. Len(lines) /\ \A h \in i .. j : h \in 1 .. Len(lines)
    BY <1>1, <1>2
<1>4. Inside(lines', i, j)
    BY <1>1, <1>2, <1>3 DEF Inside
<1> QED  BY <1>1, <1>2, <1>3, <1>4 DEF Lands

\* Lines of the same function.
LEMMA InsideKeeps ==
    ASSUME Setting, NEW text, Writing(text), NEW i \in 1 .. Len(lines),
           Inside(lines, i, Len(lines)), \A h \in 1 .. Len(text) : ~Between(text[h]),
           NEW j \in 0 .. Len(text)
    PROVE  Inside(lines', i, Len(lines) + j)
<1> PICK n : n = Len(lines)
    OBVIOUS
<1>1. /\ n \in Nat /\ Len(text) \in Nat /\ Len(lines') = n + Len(text)
      /\ \A h \in 1 .. n : lines'[h] = lines[h]
      /\ \A h \in n + 1 .. n + Len(text) : h - n \in 1 .. Len(text) /\ lines'[h] = text[h - n]
    BY LinesFacts
<1> SUFFICES ASSUME NEW h \in i .. n + j
             PROVE  ~Between(lines'[h])
    BY DEF Inside
<1>2. (h \in i .. n /\ h \in 1 .. n) \/ h \in n + 1 .. n + Len(text)
    BY <1>1
<1>3. CASE h \in i .. n /\ h \in 1 .. n
    BY <1>1, <1>3 DEF Inside
<1>4. CASE h \in n + 1 .. n + Len(text)
    BY <1>1, <1>4
<1> QED  BY <1>2, <1>3, <1>4

LEMMA PendsKeeps ==
    ASSUME Setting, NEW text, Writing(text), NEW i \in 1 .. Len(lines), NEW l,
           Inside(lines, i, Len(lines)), \A h \in 1 .. Len(text) : ~Between(text[h]),
           NEW f \in 1 .. Len(frames), NEW g \in 1 .. Len(frames'), Active(frames[f]),
           Alike(frames[f], frames'[g]), frames[f].at >= 1,
           l \in {frames[f].label + 2, frames[f].label + 3}
    PROVE  Pends(lines', frames', i, l)
<1>1. Len(text) \in 0 .. Len(text) /\ Len(lines') = Len(lines) + Len(text)
    BY LinesFacts
<1>2. Inside(lines', i, Len(lines'))
    BY <1>1, InsideKeeps
<1>3. frames[f].at \in Nat
    BY RecordFacts
<1>4. frames'[g].at >= 1
    BY <1>3 DEF Alike
<1> QED  BY <1>2, <1>4 DEF Pends, Active, Alike

LEMMA PlainLabels ==
    ASSUME Setting, LabelsOK(lines, frames, max.label), Plain
    PROVE  LabelsOK(lines', frames', max'.label)
<1>1. PICK text : Writing(text) /\ \A i \in 1 .. Len(text) : Silent(text[i])
    BY DEF Plain
<1>2. PICK d \in Int : Moved(d) /\ Kept(d)
    BY MoveFacts DEF Plain
<1>3. \A i \in 1 .. Len(text) : /\ text[i].op # "label" /\ DOMAIN text[i].labels = {}
                                /\ frames # <<>> => ~Between(text[i])
    BY <1>1 DEF Silent, Between
<1>4. \A i \in 1 .. Len(text) : \A l : ~Marks(text[i], l)
    BY <1>3 DEF Marks
<1>5. LabelsOnce(lines', max'.label)
    BY <1>1, <1>3, <1>4, OnceKeeps DEF LabelsOK
<1>6. LabelsApart(frames', max'.label)
    BY <1>1, <1>2, ApartKeeps DEF LabelsOK, Writing
<1>7. LabelsOpen(lines', frames')
    BY <1>1, <1>2, <1>4, OpenKeeps DEF LabelsOK
<1>8. JumpsOK(lines', frames')
    <2> SUFFICES ASSUME NEW i \in 1 .. Len(lines'), lines'[i].op # "label",
                        NEW k \in DOMAIN lines'[i].labels
                 PROVE  Lands(lines', i, lines'[i].labels[k]) \/ Pends(lines', frames', i, lines'[i].labels[k])
        BY DEF JumpsOK
    <2>1. /\ Len(lines) \in Nat /\ Len(lines') = Len(lines) + Len(text) /\ Len(text) \in Nat
          /\ \A j \in 1 .. Len(lines) : lines'[j] = lines[j]
          /\ \A j \in Len(lines) + 1 .. Len(lines) + Len(text) :
                j - Len(lines) \in 1 .. Len(text) /\ lines'[j] = text[j - Len(lines)]
        BY <1>1, LinesFacts
    <2>2. i \in 1 .. Len(lines)
        <3>1. i \notin Len(lines) + 1 .. Len(lines) + Len(text)
            BY <1>3, <2>1
        <3> QED  BY <2>1, <3>1
    <2> PICK l : l = lines[i].labels[k]
        OBVIOUS
    <2>3. lines'[i].labels[k] = l /\ (Lands(lines, i, l) \/ Pends(lines, frames, i, l))
        BY <2>1, <2>2 DEF LabelsOK, JumpsOK
    <2>4. CASE Lands(lines, i, l)
        BY <1>1, <2>2, <2>3, <2>4, LandsKeeps
    <2>5. CASE Pends(lines, frames, i, l)
        <3>1. PICK f \in 1 .. Len(frames) :
                Active(frames[f]) /\ frames[f].at >= 1 /\ l \in {frames[f].label + 2, frames[f].label + 3}
            BY <2>5 DEF Pends
        <3>2. f + d \in 1 .. Len(frames') /\ Alike(frames[f], frames'[f + d])
            BY <1>2, <3>1 DEF Kept, Active
        <3>3. frames # <<>>
            BY <3>1
        <3>4. Inside(lines, i, Len(lines)) /\ \A h \in 1 .. Len(text) : ~Between(text[h])
            BY <1>3, <2>5, <3>3 DEF Pends
        <3> QED  BY <1>1, <2>2, <2>3, <3>1, <3>2, <3>4, PendsKeeps
    <2> QED  BY <2>3, <2>4, <2>5
<1> QED  BY <1>5, <1>6, <1>7, <1>8 DEF LabelsOK

LEMMA MakingLabels ==
    ASSUME Setting, LabelsOK(lines, frames, max.label), Making
    PROVE  LabelsOK(lines', frames', max'.label)
<1>1. /\ Len(frames') = Len(frames) /\ Len(frames) \in Nat \ {0}
      /\ frames[1].result = NULL
      /\ frames'[1].term = frames[1].term
      /\ \A f \in 2 .. Len(frames) : frames'[f] = frames[f]
      /\ LogicalKind(frames[1].term) =>
            frames'[1].label = max.label /\ max'.label = max.label + 4
      /\ max'.label \in Nat /\ max'.label >= max.label /\ lines' = lines
    BY MakingFacts DEF Making
<1>2. max.label \in Nat
    BY DEF Setting, Shape
<1>3. ~Active(frames[1])
    BY <1>1 DEF Active
<1>4. Active(frames'[1]) => frames'[1].label = max.label /\ max'.label = max.label + 4
    BY <1>1 DEF Active
<1>5. \A f \in 1 .. Len(frames) : frames[f].label \in Nat /\ frames[f].at \in Nat
    BY RecordFacts
<1>6. LabelsOnce(lines', max'.label)
    <2>1. \A l \in 1 .. max.label : l \in 1 .. max'.label
        BY <1>1, <1>2
    <2>2. ASSUME NEW i \in 1 .. Len(lines), lines[i].op = "label"
          PROVE  \E l \in 1 .. max.label : lines[i].labels = <<l>>
        BY <2>2 DEF LabelsOK, LabelsOnce
    <2>3. ASSUME NEW i \in 1 .. Len(lines), NEW j \in 1 .. Len(lines), NEW l \in 1 .. max'.label,
                 Marks(lines[i], l), Marks(lines[j], l)
          PROVE  i = j
        <3>1. PICK k \in 1 .. max.label : lines[i].labels = <<k>>
            BY <2>2, <2>3 DEF Marks
        <3>2. l = k
            BY <2>3, <3>1, OneMark
        <3> QED  BY <2>3, <3>1, <3>2 DEF LabelsOK, LabelsOnce
    <2> QED  BY <1>1, <2>1, <2>2, <2>3 DEF LabelsOnce
<1>7. LabelsApart(frames', max'.label)
    <2> SUFFICES ASSUME NEW f \in 1 .. Len(frames), Active(frames'[f])
                 PROVE  /\ frames'[f].label + 4 <= max'.label
                        /\ \A g \in f + 1 .. Len(frames) :
                            Active(frames'[g]) => frames'[g].label + 4 <= frames'[f].label
        BY <1>1 DEF LabelsApart
    <2>1. \A g \in f + 1 .. Len(frames) : g \in 2 .. Len(frames) /\ frames'[g] = frames[g]
        BY <1>1
    <2>2. \A g \in 2 .. Len(frames) : Active(frames[g]) => frames[g].label + 4 <= max.label
        BY DEF LabelsOK, LabelsApart
    <2>3. CASE f = 1
        BY <1>1, <1>2, <1>4, <2>1, <2>2, <2>3
    <2>4. CASE f # 1
        <3>1. f \in 2 .. Len(frames) /\ frames'[f] = frames[f]
            BY <1>1, <2>4
        <3>2. frames[f].label + 4 <= max.label
            BY <2>2, <3>1
        <3>3. frames[f].label + 4 <= max'.label
            BY <1>1, <1>2, <1>5, <3>1, <3>2
        <3> QED  BY <2>1, <3>1, <3>3 DEF LabelsOK, LabelsApart
    <2> QED  BY <2>3, <2>4
<1>8. LabelsOpen(lines', frames')
    <2> SUFFICES ASSUME NEW f \in 1 .. Len(frames), Active(frames'[f]),
                        NEW i \in 1 .. Len(lines), NEW k \in 1 .. 4,
                        Marks(lines[i], frames'[f].label + k)
                 PROVE  k = 1 /\ frames'[f].at >= 1
        BY <1>1 DEF LabelsOpen
    <2>1. CASE f = 1
        <3>1. PICK l \in 1 .. max.label : lines[i].labels = <<l>>
            BY DEF Marks, LabelsOK, LabelsOnce
        <3>2. frames'[f].label + k = l
            BY <3>1, OneMark
        <3>3. frames'[f].label = max.label
            BY <1>4, <2>1
        <3> QED  BY <1>2, <3>2, <3>3
    <2>2. CASE f # 1
        <3>1. f \in 2 .. Len(frames) /\ frames'[f] = frames[f]
            BY <1>1, <2>2
        <3> QED  BY <3>1 DEF LabelsOK, LabelsOpen
    <2> QED  BY <2>1, <2>2
<1>9. JumpsOK(lines', frames')
    <2> SUFFICES ASSUME NEW i \in 1 .. Len(lines), lines[i].op # "label", NEW k \in DOMAIN lines[i].labels
                 PROVE  Lands(lines, i, lines[i].labels[k]) \/ Pends(lines, frames', i, lines[i].labels[k])
        BY <1>1 DEF JumpsOK
    <2> PICK l : l = lines[i].labels[k]
        OBVIOUS
    <2>1. Lands(lines, i, l) \/ Pends(lines, frames, i, l)
        BY DEF LabelsOK, JumpsOK
    <2>2. ASSUME Pends(lines, frames, i, l)
          PROVE  Pends(lines, frames', i, l)
        <3>1. PICK f \in 1 .. Len(frames) :
                Active(frames[f]) /\ frames[f].at >= 1 /\ l \in {frames[f].label + 2, frames[f].label + 3}
            BY <2>2 DEF Pends
        <3>2. f # 1
            BY <1>3, <3>1
        <3>3. f \in 1 .. Len(frames') /\ frames'[f] = frames[f]
            BY <1>1, <3>2
        <3> QED  BY <2>2, <3>1, <3>3 DEF Pends
    <2> QED  BY <2>1, <2>2
<1> QED  BY <1>6, <1>7, <1>8, <1>9 DEF LabelsOK

\* What the labels of a running logical operator are known to be.
LEMMA ActiveFacts ==
    ASSUME Setting, LabelsOK(lines, frames, max.label),
           frames # <<>>, LogicalKind(Cur.term), Cur.result # NULL
    PROVE  /\ Cur = frames[1] /\ 1 \in 1 .. Len(frames) /\ Active(frames[1])
           /\ Cur.label \in Nat /\ \A k \in 1 .. 4 : Cur.label + k \in 1 .. max.label
           /\ \A k \in 2 .. 4 : \A h \in 1 .. Len(lines) : ~Marks(lines[h], Cur.label + k)
           /\ Cur.at = 0 => \A h \in 1 .. Len(lines) : ~Marks(lines[h], Cur.label + 1)
           /\ \A g \in 2 .. Len(frames) : Active(frames[g]) =>
                \A k \in 1 .. 4 : \A j \in 1 .. 4 : frames[g].label + k # Cur.label + j
<1>1. Cur = frames[1] /\ Len(frames) \in Nat \ {0} /\ Active(frames[1])
    BY CurFacts DEF Active
<1>2. \A f \in 1 .. Len(frames) : frames[f].label \in Nat /\ frames[f].at \in Nat
    BY RecordFacts
<1>3. 1 \in 1 .. Len(frames) /\ Cur.label \in Nat
    BY <1>1, <1>2
<1>4. Cur.label + 4 <= max.label /\ max.label \in Nat
    BY <1>1, <1>3 DEF LabelsOK, LabelsApart, Setting, Shape
<1>5. \A k \in 1 .. 4 : \A h \in 1 .. Len(lines) :
        Marks(lines[h], Cur.label + k) => k = 1 /\ Cur.at >= 1
    BY <1>1, <1>3 DEF LabelsOK, LabelsOpen
<1>6. ASSUME NEW g \in 2 .. Len(frames), Active(frames[g])
      PROVE  \A k \in 1 .. 4 : \A j \in 1 .. 4 : frames[g].label + k # Cur.label + j
    <2>1. g \in 1 + 1 .. Len(frames)
        OBVIOUS
    <2>2. frames[g].label + 4 <= Cur.label
        BY <1>1, <1>3, <1>6, <2>1 DEF LabelsOK, LabelsApart
    <2>3. frames[g].label \in Nat
        BY <1>1, <1>2
    <2> QED  BY <1>3, <2>2, <2>3
<1>7. \A k \in 1 .. 4 : Cur.label + k \in 1 .. max.label
    BY <1>3, <1>4
<1>8. \A k \in 2 .. 4 : \A h \in 1 .. Len(lines) : ~Marks(lines[h], Cur.label + k)
    BY <1>5
<1>9. Cur.at = 0 => \A h \in 1 .. Len(lines) : ~Marks(lines[h], Cur.label + 1)
    BY <1>5
<1> QED  BY <1>1, <1>3, <1>6, <1>7, <1>8, <1>9

\* The label of the right operand follows the branch to it.
LEMMA LeftText ==
    ASSUME LeftEmitted
    PROVE  \E text :
            /\ Writing(text) /\ Len(text) = 2
            /\ text[1].op = "jnz"
            /\ \/ text[1].labels = <<Cur.label + 1, Cur.label + 2>>
               \/ text[1].labels = <<Cur.label + 3, Cur.label + 1>>
            /\ text[2].op = "label" /\ text[2].labels = <<Cur.label + 1>>
<1>1. PICK s, yes, no :
        /\ Writing(<<E!Branch(s, yes, no, Cur.term), E!Label(E!bLabel, Cur.term)>>)
        /\ \/ yes = E!bLabel /\ no = E!falseLabel
           \/ yes = E!trueLabel /\ no = E!bLabel
    BY DEF LeftEmitted
<1> PICK a, b : a = E!Branch(s, yes, no, Cur.term) /\ b = E!Label(E!bLabel, Cur.term)
    OBVIOUS
<1>2. a.op = "jnz" /\ a.labels = <<yes, no>> /\ b.op = "label" /\ b.labels = <<E!bLabel>>
    BY BranchFacts, LabelFacts
<1>3. /\ E!bLabel = Cur.label + 1 /\ E!falseLabel = Cur.label + 2 /\ E!trueLabel = Cur.label + 3
    BY FrameFacts DEF E!bLabel, E!falseLabel, E!trueLabel
<1>4. Writing(<<a, b>>) /\ Len(<<a, b>>) = 2 /\ <<a, b>>[1] = a /\ <<a, b>>[2] = b
    BY <1>1
<1> QED  BY <1>1, <1>2, <1>3, <1>4

LEMMA LeftLabels ==
    ASSUME Setting, LabelsOK(lines, frames, max.label), LeftEmitted
    PROVE  LabelsOK(lines', frames', max'.label)
<1>1. PICK text :
        /\ Writing(text) /\ Len(text) = 2
        /\ text[1].op = "jnz"
        /\ \/ text[1].labels = <<Cur.label + 1, Cur.label + 2>>
           \/ text[1].labels = <<Cur.label + 3, Cur.label + 1>>
        /\ text[2].op = "label" /\ text[2].labels = <<Cur.label + 1>>
    BY LeftText
<1>2. /\ Cur = frames[1] /\ 1 \in 1 .. Len(frames) /\ Active(frames[1])
      /\ Cur.label \in Nat /\ \A k \in 1 .. 4 : Cur.label + k \in 1 .. max.label
      /\ \A h \in 1 .. Len(lines) : ~Marks(lines[h], Cur.label + 1)
      /\ \A g \in 2 .. Len(frames) : Active(frames[g]) =>
            \A k \in 1 .. 4 : \A j \in 1 .. 4 : frames[g].label + k # Cur.label + j
    BY ActiveFacts DEF LeftEmitted
<1>3. /\ Len(frames') = Len(frames) /\ Len(frames) \in Nat /\ Moved(0) /\ Kept(0)
      /\ frames'[1].at = 1 /\ frames'[1].label = Cur.label
      /\ frames'[1].term = Cur.term /\ frames'[1].result = Cur.result
    BY TakeMoves, RecordFacts DEF LeftEmitted
<1>4. \A l : Marks(text[2], l) => l = Cur.label + 1
    BY <1>1, OneMark
<1>5. \A i \in 1 .. Len(text) : i = 1 \/ i = 2
    BY <1>1
<1>6. \A l : ~Marks(text[1], l)
    BY <1>1 DEF Marks
<1>7. Marks(text[2], Cur.label + 1) /\ ~Between(text[1]) /\ ~Between(text[2])
    BY <1>1 DEF Marks, Between
<1>8. LabelsOnce(lines', max'.label)
    <2>1. \A i \in 1 .. Len(text) : text[i].op = "label" =>
            \E l \in 1 .. max.label :
                text[i].labels = <<l>> /\ \A h \in 1 .. Len(lines) : ~Marks(lines[h], l)
        <3>1. Cur.label + 1 \in 1 .. max.label
            BY <1>2
        <3>2. text[1].op # "label"
            BY <1>1
        <3> QED  BY <1>1, <1>2, <1>5, <3>1, <3>2
    <2>2. \A i, j \in 1 .. Len(text) : \A l \in 1 .. max.label :
            Marks(text[i], l) /\ Marks(text[j], l) => i = j
        BY <1>5, <1>6
    <2> QED  BY <1>1, <2>1, <2>2, OnceKeeps DEF LabelsOK
<1>9. LabelsApart(frames', max'.label)
    BY <1>1, <1>3, ApartKeeps DEF LabelsOK, Writing
<1>10. LabelsOpen(lines', frames')
    <2>1. ASSUME NEW g \in 1 .. Len(frames'), Active(frames'[g]),
                 NEW i \in 1 .. Len(text), NEW k \in 1 .. 4, Marks(text[i], frames'[g].label + k)
          PROVE  k = 1 /\ frames'[g].at >= 1
        <3>1. frames'[g].label + k = Cur.label + 1
            BY <1>4, <1>5, <1>6, <2>1
        <3>2. CASE g = 1
            <4>1. frames'[g].label = Cur.label /\ frames'[g].at = 1
                BY <1>3, <3>2
            <4>2. Cur.label \in Nat
                BY <1>2
            <4> QED  BY <3>1, <4>1, <4>2
        <3>3. CASE g # 1
            <4>1. g \in 2 .. Len(frames) /\ g - 0 = g
                BY <1>3, <3>3
            <4>2. Active(frames[g]) /\ frames[g].label = frames'[g].label
                BY <1>3, <2>1, <4>1 DEF Moved, Alike, Active
            <4>3. frames[g].label + k # Cur.label + 1
                <5>1. 1 \in 1 .. 4
                    OBVIOUS
                <5> QED  BY <1>2, <4>1, <4>2, <5>1
            <4> QED  BY <3>1, <4>2, <4>3
        <3> QED  BY <3>2, <3>3
    <2>2. \A g \in 1 .. Len(frames') : Active(frames'[g]) =>
            \A i \in 1 .. Len(text) : \A k \in 1 .. 4 :
                Marks(text[i], frames'[g].label + k) => k = 1 /\ frames'[g].at >= 1
        BY <2>1
    <2>3. LabelsOpen(lines, frames) /\ Writing(text) /\ Moved(0) /\ 0 \in Int
        BY <1>1, <1>3 DEF LabelsOK
    <2> QED  BY <2>2, <2>3, OpenKeeps
<1>11. JumpsOK(lines', frames')
    <2> PICK n : n = Len(lines)
        OBVIOUS
    <2>1. /\ n \in Nat /\ Len(lines') = n + 2
          /\ \A j \in 1 .. n : lines'[j] = lines[j]
          /\ \A j \in n + 1 .. n + 2 : lines'[j] = text[j - n]
        BY <1>1, LinesFacts
    <2>2. lines'[n + 1] = text[1] /\ lines'[n + 2] = text[2]
        <3>1. n + 1 \in n + 1 .. n + 2 /\ n + 2 \in n + 1 .. n + 2 /\ (n + 1) - n = 1 /\ (n + 2) - n = 2
            BY <2>1
        <3> QED  BY <2>1, <3>1
    <2>3. ASSUME NEW i \in 1 .. n, NEW l, Lands(lines, i, l) \/ Pends(lines, frames, i, l)
          PROVE  Lands(lines', i, l) \/ Pends(lines', frames', i, l)
        <3>1. CASE Lands(lines, i, l)
            BY <1>1, <3>1, LandsKeeps
        <3>2. CASE Pends(lines, frames, i, l)
            <4>1. PICK f \in 1 .. Len(frames) :
                    Active(frames[f]) /\ frames[f].at >= 1 /\ l \in {frames[f].label + 2, frames[f].label + 3}
                BY <3>2 DEF Pends
            <4>2. f + 0 = f /\ f \in 1 .. Len(frames') /\ Alike(frames[f], frames'[f])
                BY <1>3, <4>1 DEF Kept, Active
            <4>3. Inside(lines, i, Len(lines)) /\ \A h \in 1 .. Len(text) : ~Between(text[h])
                BY <1>5, <1>7, <3>2 DEF Pends
            <4> QED  BY <1>1, <4>1, <4>2, <4>3, PendsKeeps
        <3> QED  BY <2>3, <3>1, <3>2
    <2>4. Inside(lines', n + 1, n + 2)
        <3>1. \A h \in n + 1 .. n + 2 : h = n + 1 \/ h = n + 2
            BY <2>1
        <3> QED  BY <1>7, <2>2, <3>1 DEF Inside
    <2>5. Lands(lines', n + 1, Cur.label + 1)
        <3>1. n + 2 \in (n + 1) + 1 .. Len(lines')
            BY <2>1
        <3> QED  BY <1>7, <2>2, <2>4, <3>1 DEF Lands
    <2>6. \A l \in {Cur.label + 2, Cur.label + 3} : Pends(lines', frames', n + 1, l)
        <3>1. Active(frames'[1]) /\ 1 \in 1 .. Len(frames') /\ frames'[1].at >= 1
            BY <1>2, <1>3 DEF Active
        <3> QED  BY <1>3, <2>1, <2>4, <3>1 DEF Pends
    <2> SUFFICES ASSUME NEW i \in 1 .. Len(lines'), lines'[i].op # "label",
                        NEW k \in DOMAIN lines'[i].labels
                 PROVE  Lands(lines', i, lines'[i].labels[k]) \/ Pends(lines', frames', i, lines'[i].labels[k])
        BY DEF JumpsOK
    <2>7. CASE i \in 1 .. n
        BY <2>1, <2>3, <2>7 DEF LabelsOK, JumpsOK
    <2>8. CASE i = n + 1
        <3>1. lines'[i].labels[k] \in {Cur.label + 1, Cur.label + 2, Cur.label + 3}
            BY <1>1, <2>2, <2>8
        <3> QED  BY <2>5, <2>6, <2>8, <3>1
    <2>9. CASE i = n + 2
        BY <1>1, <2>2, <2>9
    <2>10. i \in 1 .. n \/ i = n + 1 \/ i = n + 2
        BY <2>1
    <2> QED  BY <2>7, <2>8, <2>9, <2>10
<1> QED  BY <1>8, <1>9, <1>10, <1>11 DEF LabelsOK

\* The labels that end a logical operator, and its jumps to them.
LogicalText(text, b) ==
    /\ Len(text) = 7
    /\ text[1].op = "jnz" /\ text[1].labels = <<b + 3, b + 2>>
    /\ text[2].op = "label" /\ text[2].labels = <<b + 2>>
    /\ text[3].op = "copy" /\ text[3].labels = <<>>
    /\ text[4].op = "jmp" /\ text[4].labels = <<b + 4>>
    /\ text[5].op = "label" /\ text[5].labels = <<b + 3>>
    /\ text[6].op = "copy" /\ text[6].labels = <<>>
    /\ text[7].op = "label" /\ text[7].labels = <<b + 4>>

LEMMA BothText ==
    ASSUME BothEmitted
    PROVE  \E text : Writing(text) /\ LogicalText(text, Cur.label)
<1>1. PICK result : Writing(E!LogicalLines(result))
    BY DEF BothEmitted
<1>2. PICK a, b, c, d, e, f, g :
        /\ E!LogicalLines(result) = <<a, b, c, d, e, f, g>>
        /\ a = E!Branch(E!Value(2), E!trueLabel, E!falseLabel, Cur.term)
        /\ b = E!Label(E!falseLabel, Cur.term)
        /\ c = E!CopyNumber(result, 0, Cur.term)
        /\ d = E!Jump(E!endLabel, Cur.term)
        /\ e = E!Label(E!trueLabel, Cur.term)
        /\ f = E!CopyNumber(result, 1, Cur.term)
        /\ g = E!Label(E!endLabel, Cur.term)
    BY FrameFacts DEF E!LogicalLines
<1>3. /\ a.op = "jnz" /\ a.labels = <<E!trueLabel, E!falseLabel>>
      /\ b.op = "label" /\ b.labels = <<E!falseLabel>>
      /\ e.op = "label" /\ e.labels = <<E!trueLabel>>
      /\ g.op = "label" /\ g.labels = <<E!endLabel>>
    BY <1>2, BranchFacts, LabelFacts
<1>4. /\ c.op = "copy" /\ c.labels = <<>> /\ f.op = "copy" /\ f.labels = <<>>
      /\ d.op = "jmp" /\ d.labels = <<E!endLabel>>
    BY <1>2, NumberFacts, JumpFacts
<1>5. E!falseLabel = Cur.label + 2 /\ E!trueLabel = Cur.label + 3 /\ E!endLabel = Cur.label + 4
    BY FrameFacts DEF E!falseLabel, E!trueLabel, E!endLabel
<1>6. Writing(<<a, b, c, d, e, f, g>>)
    BY <1>1, <1>2
<1> PICK text : text = <<a, b, c, d, e, f, g>>
    OBVIOUS
<1>7. /\ Len(text) = 7 /\ text[1] = a /\ text[2] = b /\ text[3] = c /\ text[4] = d
      /\ text[5] = e /\ text[6] = f /\ text[7] = g
    OBVIOUS
<1>8. LogicalText(text, Cur.label)
    BY <1>3, <1>4, <1>5, <1>7 DEF LogicalText
<1> QED  BY <1>6, <1>8

LEMMA BothLabels ==
    ASSUME Setting, LabelsOK(lines, frames, max.label), BothEmitted
    PROVE  LabelsOK(lines', frames', max'.label)
<1>1. PICK text : Writing(text) /\ LogicalText(text, Cur.label)
    BY BothText
<1> PICK b : b = Cur.label
    OBVIOUS
<1>2. /\ Cur = frames[1] /\ b \in Nat /\ \A k \in 1 .. 4 : b + k \in 1 .. max.label
      /\ \A k \in 2 .. 4 : \A h \in 1 .. Len(lines) : ~Marks(lines[h], b + k)
      /\ \A g \in 2 .. Len(frames) : Active(frames[g]) =>
            \A k \in 1 .. 4 : \A j \in 1 .. 4 : frames[g].label + k # b + j
    BY ActiveFacts DEF BothEmitted
<1>3. /\ Len(frames') = Len(frames) - 1 /\ Len(frames) \in Nat /\ Moved(-1)
      /\ \A g \in 1 .. Len(frames') : frames'[g] = frames[g + 1]
    BY TailMoves, RecordFacts DEF BothEmitted
<1>4. Len(text) = 7 /\ \A i \in 1 .. Len(text) : i \in 1 .. 7
    BY <1>1 DEF LogicalText
<1>5. \A i \in 1 .. 7 : ~Between(text[i])
    BY <1>1 DEF LogicalText, Between
<1>6. /\ Marks(text[2], b + 2) /\ Marks(text[5], b + 3) /\ Marks(text[7], b + 4)
      /\ \A i \in 1 .. 7 : text[i].op = "label" => i \in {2, 5, 7}
    BY <1>1 DEF LogicalText, Marks
<1>7. \A i \in 1 .. 7 : \A l : Marks(text[i], l) =>
        \/ i = 2 /\ l = b + 2
        \/ i = 5 /\ l = b + 3
        \/ i = 7 /\ l = b + 4
    <2> SUFFICES ASSUME NEW i \in 1 .. 7, NEW l, Marks(text[i], l)
                 PROVE  \/ i = 2 /\ l = b + 2
                        \/ i = 5 /\ l = b + 3
                        \/ i = 7 /\ l = b + 4
        OBVIOUS
    <2>1. i \in {2, 5, 7}
        BY <1>6 DEF Marks
    <2>2. /\ text[2].labels = <<b + 2>> /\ text[5].labels = <<b + 3>> /\ text[7].labels = <<b + 4>>
        BY <1>6 DEF Marks
    <2> QED  BY <2>1, <2>2, OneMark
<1>8. LabelsOnce(lines', max'.label)
    <2>1. ASSUME NEW i \in 1 .. Len(text), text[i].op = "label"
          PROVE  \E l \in 1 .. max.label :
                    text[i].labels = <<l>> /\ \A h \in 1 .. Len(lines) : ~Marks(lines[h], l)
        <3>1. PICK k \in 2 .. 4 : text[i].labels = <<b + k>>
            <4>1. i \in {2, 5, 7}
                BY <1>4, <1>6, <2>1
            <4>2. text[2].labels = <<b + 2>> /\ text[5].labels = <<b + 3>> /\ text[7].labels = <<b + 4>>
                BY <1>6 DEF Marks
            <4> QED  BY <4>1, <4>2
        <3>2. b + k \in 1 .. max.label /\ \A h \in 1 .. Len(lines) : ~Marks(lines[h], b + k)
            <4>1. k \in 1 .. 4
                OBVIOUS
            <4> QED  BY <1>2, <4>1
        <3> QED  BY <3>1, <3>2
    <2>2. ASSUME NEW i \in 1 .. Len(text), NEW j \in 1 .. Len(text), NEW l \in 1 .. max.label,
                 Marks(text[i], l), Marks(text[j], l)
          PROVE  i = j
        <3>1. i \in 1 .. 7 /\ j \in 1 .. 7
            BY <1>4
        <3>2. \/ i = 2 /\ l = b + 2
              \/ i = 5 /\ l = b + 3
              \/ i = 7 /\ l = b + 4
            BY <1>7, <2>2, <3>1
        <3>3. \/ j = 2 /\ l = b + 2
              \/ j = 5 /\ l = b + 3
              \/ j = 7 /\ l = b + 4
            BY <1>7, <2>2, <3>1
        <3>4. b \in Nat
            BY <1>2
        <3> QED  BY <3>2, <3>3, <3>4
    <2>3. \A i \in 1 .. Len(text) : text[i].op = "label" =>
            \E l \in 1 .. max.label :
                text[i].labels = <<l>> /\ \A h \in 1 .. Len(lines) : ~Marks(lines[h], l)
        BY <2>1
    <2>4. \A i, j \in 1 .. Len(text) : \A l \in 1 .. max.label :
            Marks(text[i], l) /\ Marks(text[j], l) => i = j
        BY <2>2
    <2> QED  BY <1>1, <2>3, <2>4, OnceKeeps DEF LabelsOK
<1>9. LabelsApart(frames', max'.label)
    <2>1. -1 \in Int /\ max'.label = max.label /\ LabelsApart(frames, max.label)
        BY <1>1 DEF Writing, LabelsOK
    <2> QED  BY <1>3, <2>1, ApartKeeps
<1>10. LabelsOpen(lines', frames')
    <2>1. ASSUME NEW g \in 1 .. Len(frames'), Active(frames'[g]),
                 NEW i \in 1 .. Len(text), NEW k \in 1 .. 4, Marks(text[i], frames'[g].label + k)
          PROVE  FALSE
        <3>1. \E j \in 1 .. 4 : frames'[g].label + k = b + j
            BY <1>4, <1>7, <2>1
        <3>2. g + 1 \in 2 .. Len(frames) /\ frames'[g] = frames[g + 1]
            BY <1>3
        <3>3. Active(frames[g + 1])
            BY <2>1, <3>2
        <3> QED  BY <1>2, <3>1, <3>2, <3>3
    <2>2. \A g \in 1 .. Len(frames') : Active(frames'[g]) =>
            \A i \in 1 .. Len(text) : \A k \in 1 .. 4 :
                Marks(text[i], frames'[g].label + k) => k = 1 /\ frames'[g].at >= 1
        BY <2>1
    <2>3. LabelsOpen(lines, frames) /\ Writing(text) /\ Moved(-1) /\ -1 \in Int
        BY <1>1, <1>3 DEF LabelsOK
    <2> QED  BY <2>2, <2>3, OpenKeeps
<1>11. JumpsOK(lines', frames')
    <2> PICK n : n = Len(lines)
        OBVIOUS
    <2>1. /\ n \in Nat /\ Len(lines') = n + 7
          /\ \A j \in 1 .. n : lines'[j] = lines[j]
          /\ \A j \in n + 1 .. n + 7 : lines'[j] = text[j - n]
        BY <1>1, <1>4, LinesFacts
    <2>2. ASSUME NEW j \in 1 .. 7
          PROVE  lines'[n + j] = text[j]
        <3>1. n + j \in n + 1 .. n + 7 /\ (n + j) - n = j
            BY <2>1
        <3> QED  BY <2>1, <3>1
    <2>3. /\ Marks(lines'[n + 2], b + 2) /\ Marks(lines'[n + 5], b + 3) /\ Marks(lines'[n + 7], b + 4)
        BY <1>6, <2>2
    <2>4. ASSUME NEW i \in 1 .. n, NEW l, Lands(lines, i, l) \/ Pends(lines, frames, i, l)
          PROVE  Lands(lines', i, l) \/ Pends(lines', frames', i, l)
        <3>1. CASE Lands(lines, i, l)
            BY <1>1, <3>1, LandsKeeps
        <3>2. CASE Pends(lines, frames, i, l)
            <4>1. PICK f \in 1 .. Len(frames) :
                    Active(frames[f]) /\ frames[f].at >= 1 /\ l \in {frames[f].label + 2, frames[f].label + 3}
                BY <3>2 DEF Pends
            <4>2. Inside(lines, i, Len(lines)) /\ \A h \in 1 .. Len(text) : ~Between(text[h])
                BY <1>4, <1>5, <3>2 DEF Pends
            <4>3. CASE f = 1
                <5>1. l = b + 2 \/ l = b + 3
                    BY <1>2, <4>1, <4>3
                <5>2. \A j \in {2, 5} : Inside(lines', i, n + j)
                    <6>1. \A j \in {2, 5} : j \in 0 .. Len(text)
                        BY <1>4
                    <6> QED  BY <1>1, <4>2, <6>1, InsideKeeps
                <5>3. n + 2 \in i + 1 .. Len(lines') /\ n + 5 \in i + 1 .. Len(lines')
                    BY <2>1
                <5> QED  BY <2>3, <5>1, <5>2, <5>3 DEF Lands
            <4>4. CASE f # 1
                <5>1. f - 1 \in 1 .. Len(frames') /\ (f - 1) + 1 = f
                    BY <1>3, <4>4
                <5>2. frames'[f - 1] = frames[f]
                    BY <1>3, <5>1
                <5>3. Alike(frames[f], frames'[f - 1])
                    BY <5>2, AlikeItself
                <5> QED  BY <1>1, <4>1, <4>2, <5>1, <5>3, PendsKeeps
            <4> QED  BY <4>3, <4>4
        <3> QED  BY <2>4, <3>1, <3>2
    <2>5. ASSUME NEW i \in 1 .. 7, NEW j \in i + 1 .. 7, NEW l, Marks(text[j], l)
          PROVE  Lands(lines', n + i, l)
        <3>1. n + j \in (n + i) + 1 .. Len(lines') /\ j \in 1 .. 7
            BY <2>1
        <3>2. ASSUME NEW h \in n + i .. n + j
              PROVE  ~Between(lines'[h])
            <4>1. h - n \in 1 .. 7 /\ n + (h - n) = h
                BY <2>1, <3>2
            <4> QED  BY <1>5, <2>2, <4>1
        <3>3. Inside(lines', n + i, n + j)
            BY <3>2 DEF Inside
        <3>4. Marks(lines'[n + j], l)
            BY <2>2, <2>5, <3>1
        <3> QED  BY <3>1, <3>3, <3>4 DEF Lands
    <2> SUFFICES ASSUME NEW i \in 1 .. Len(lines'), lines'[i].op # "label",
                        NEW k \in DOMAIN lines'[i].labels
                 PROVE  Lands(lines', i, lines'[i].labels[k]) \/ Pends(lines', frames', i, lines'[i].labels[k])
        BY DEF JumpsOK
    <2>6. CASE i \in 1 .. n
        BY <2>1, <2>4, <2>6 DEF LabelsOK, JumpsOK
    <2>7. CASE i \notin 1 .. n
        <3> PICK h : h = i - n
            OBVIOUS
        <3>1. h \in 1 .. 7 /\ i = n + h
            BY <2>1, <2>7
        <3>2. lines'[i] = text[h]
            BY <2>2, <3>1
        <3>3. /\ h = 1 \/ h = 4
              /\ h = 1 => text[h].labels[k] = b + 3 \/ text[h].labels[k] = b + 2
              /\ h = 4 => text[h].labels[k] = b + 4
            <4>1. h = 2 => text[h].op = "label"
                BY <1>1 DEF LogicalText
            <4>2. h = 5 => text[h].op = "label"
                BY <1>1 DEF LogicalText
            <4>3. h = 7 => text[h].op = "label"
                BY <1>1 DEF LogicalText
            <4>4. h = 3 \/ h = 6 => DOMAIN text[h].labels = {}
                BY <1>1 DEF LogicalText
            <4>5. h = 1 => text[h].labels = <<b + 3, b + 2>>
                BY <1>1 DEF LogicalText
            <4>6. h = 4 => text[h].labels = <<b + 4>>
                BY <1>1 DEF LogicalText
            <4> QED  BY <3>1, <3>2, <4>1, <4>2, <4>3, <4>4, <4>5, <4>6
        <3>4. /\ 1 \in 1 .. 7 /\ 4 \in 1 .. 7 /\ 5 \in 1 + 1 .. 7
              /\ 2 \in 1 + 1 .. 7 /\ 7 \in 4 + 1 .. 7
            OBVIOUS
        <3>5. Lands(lines', n + 1, b + 3) /\ Lands(lines', n + 1, b + 2) /\ Lands(lines', n + 4, b + 4)
            BY <1>6, <2>5, <3>4
        <3> QED  BY <3>1, <3>2, <3>3, <3>5
    <2> QED  BY <2>6, <2>7
<1> QED  BY <1>8, <1>9, <1>10, <1>11 DEF LabelsOK

-----------------------------------------------------------------------------
(* The whole *)

\* The inductive invariant.  While the type checker runs there are no frames, and while the emitter runs
\* all that it can come to is checked.
Invariant ==
    /\ program \in Programs
    /\ status \in {"typing", "typed", "emitted", "fatal", "crash"}
    /\ status = "typing" => Walk /\ frames = <<>>
    /\ status = "typed" => Checked
    /\ status = "emitted" => frames = <<>>
    /\ Shape
    /\ Owned
    /\ LabelsOK(lines, frames, max.label)

LEMMA InitInvariant == Init => Invariant
<1> SUFFICES ASSUME Init PROVE Invariant
    OBVIOUS
<1>1. /\ program \in Programs /\ status = "typing" /\ stack = <<>> /\ decl = 1
      /\ typed = [t \in DOMAIN program.terms |-> NULL]
    BY DEF Init, T!Init
<1>2. /\ frames = <<>> /\ lines = <<>> /\ emitted = 0
      /\ max = [local |-> program.maxId, label |-> 0, struct |-> 0, global |-> 0]
    BY DEF Init, E!Init
<1>3. Len(frames) = 0 /\ Len(lines) = 0 /\ frames \in Seq({}) /\ lines \in Seq({})
    BY <1>2
<1>4. Walk
    <2>1. StackOK
        <3>1. Len(stack) = 0 /\ stack \in Seq({})
            BY <1>1
        <3> QED  BY <3>1 DEF StackOK
    <2>2. Done = {} /\ DOMAIN typed = TermAt
        BY <1>1 DEF Done, TermAt
    <2>3. Closed(Done)
        BY <2>2 DEF Closed
    <2>4. DOMAIN program.decls = 1 .. Len(program.decls)
        BY <1>1, ProgramFacts
    <2> QED  BY <1>1, <2>1, <2>2, <2>3, <2>4 DEF Walk
<1>5. max.local = program.maxId /\ max.label = 0 /\ program.maxId \in Nat
    BY <1>1, <1>2, ProgramFacts
<1>6. Shape
    BY <1>2, <1>3, <1>5 DEF Shape
<1>7. Owned
    <2>1. [n \in Nat |-> 0] \in [Nat -> Nat]
        OBVIOUS
    <2>2. \A owner : OwnedBy(owner, max.local, lines, frames)
        BY <1>3 DEF OwnedBy
    <2> QED  BY <2>1, <2>2 DEF Owned
<1>8. LabelsOK(lines, frames, max.label)
    BY <1>3 DEF LabelsOK, LabelsOnce, LabelsApart, LabelsOpen, JumpsOK
<1> QED  BY <1>1, <1>2, <1>4, <1>6, <1>7, <1>8 DEF Invariant

LEMMA LabelsKeep ==
    ASSUME Setting, LabelsOK(lines, frames, max.label), EmitStep
    PROVE  LabelsOK(lines, frames, max.label)'
<1>1. LabelsOK(lines', frames', max'.label)
    BY PlainLabels, LeftLabels, BothLabels, MakingLabels DEF EmitStep
<1>2. program' = program
    BY DEF EmitStep
<1> QED  BY <1>1, <1>2 DEF LabelsOK, LabelsOnce, LabelsApart, LabelsOpen, JumpsOK, Pends, Lands,
                           Inside, Marks, Between, Active, LogicalKind, Kind

LEMMA EmitInvariant ==
    ASSUME Invariant, E!Next
    PROVE  Invariant'
<1>1. status = "typed"
    BY TurnFacts, CallsFacts, CompletedFacts
       DEF E!Next, E!EmitKid, E!EmitReturnUnit, E!EmitReturn, E!EmitBoolean, E!EmitConstant,
                 E!EmitStructure, E!EmitVar, E!EnterBinary, E!EmitLeft, E!EmitLogical,
                 E!EmitOperator, E!TakeEmitted, E!EmitAssignment, E!EmitLocal, E!EmitBlock,
                 E!EnterCall, E!EmitCall, E!NotImplemented, E!SkipDecl, E!StartFunction,
                 E!FinishFunction, E!Finish, E!AtDecl
<1>2. Setting
    BY <1>1 DEF Invariant, Setting
<1>3. EmitStep
    BY <1>2, EmitterStep
<1>4. Setting' /\ Owned' /\ LabelsOK(lines, frames, max.label)'
    BY <1>2, <1>3, SettingKeeps, OwnedKeeps, LabelsKeep DEF Invariant
<1>5. status' \in {"typed", "emitted", "fatal"} /\ (status' = "emitted" => frames' = <<>>)
    BY <1>3 DEF EmitStep
<1> QED  BY <1>4, <1>5 DEF Invariant, Setting

LEMMA TyperRuns ==
    ASSUME T!Next
    PROVE  status = "typing"
<1>1. T!EvaluateKid \/ T!ReadNull \/ T!TakeOperand \/ T!TypeLiteral \/ T!TypeKnownVar
        \/ T!TypeNewVar \/ T!EnterFunction \/ T!TypeFunction => status = "typing"
    BY Zenon DEF T!EvaluateKid, T!ReadNull, T!TakeOperand, T!TypeLiteral, T!TypeKnownVar,
           T!TypeNewVar, T!EnterFunction, T!TypeFunction, T!Calls, T!Returned, T!Complete, T!Turn
<1>2. T!TakeCallee \/ T!TakeArgument \/ T!TypeApplication \/ T!TypeStructure \/ T!TypeReturn
        \/ T!TypeJump => status = "typing"
    BY DEF T!TakeCallee, T!TakeArgument, T!TypeApplication, T!TypeStructure, T!TypeReturn,
           T!TypeJump, T!Returned, T!Complete, T!Turn
<1>3. T!TypeAddition \/ T!TypeArithmetic \/ T!TypeRelation \/ T!TypeRemainder
        \/ T!TypeLogical \/ T!TypeEquality => status = "typing"
    BY DEF T!TypeAddition, T!TypeArithmetic, T!TypeRelation, T!TypeRemainder, T!TypeLogical,
           T!TypeEquality, T!Operation, T!Complete, T!Turn
<1>4. T!TakeCondition \/ T!TakeThen \/ T!TakeElse \/ T!TypeConditional \/ T!TypeAssignment
        \/ T!TakeDeclaration \/ T!TakeUnitStatement \/ T!TakeBlockValue \/ T!TypeBlock
        \/ T!NotImplemented => status = "typing"
    BY DEF T!TakeCondition, T!TakeThen, T!TakeElse, T!TypeConditional, T!TypeAssignment,
           T!TakeDeclaration, T!TakeUnitStatement, T!TakeBlockValue, T!TypeBlock,
           T!NotImplemented, T!Statement, T!Returned, T!Complete, T!Turn
<1>5. T!StartDecl \/ T!FinishDecl \/ T!DeclareOnly \/ T!ResolveDecls => status = "typing"
    BY DEF T!StartDecl, T!FinishDecl, T!DeclareOnly, T!ResolveDecls, T!AtDecl
<1> QED  BY <1>1, <1>2, <1>3, <1>4, <1>5 DEF T!Next

LEMMA SameLines ==
    ASSUME Shape, Owned, LabelsOK(lines, frames, max.label),
           UNCHANGED <<program, frames, lines, max, emitted>>
    PROVE  Shape' /\ Owned' /\ LabelsOK(lines, frames, max.label)'
<1>1. program' = program /\ frames' = frames /\ lines' = lines /\ max' = max /\ emitted' = emitted
    OBVIOUS
<1>2. Shape'
    BY <1>1 DEF Shape, TermAt, Record
<1>3. Owned'
    <2> PICK owner \in [Nat -> Nat] : OwnedBy(owner, max.local, lines, frames)
        BY DEF Owned
    <2>1. OwnedBy(owner, max.local, lines, frames)'
        BY <1>1 DEF OwnedBy, WrittenByOwner, HeldByOwner, Made, Named, Kind
    <2> QED  BY <2>1 DEF Owned
<1>4. LabelsOK(lines, frames, max.label)'
    BY <1>1 DEF LabelsOK, LabelsOnce, LabelsApart, LabelsOpen, JumpsOK, Pends, Lands,
                Inside, Marks, Between, Active, LogicalKind, Kind
<1> QED  BY <1>2, <1>3, <1>4

LEMMA TypeInvariant ==
    ASSUME Invariant, T!Next, UNCHANGED emitterVars
    PROVE  Invariant'
<1>1. status = "typing"
    BY TyperRuns
<1>2. WalkStep
    BY <1>1, TyperStep DEF Invariant
<1>3. /\ program' = program
      /\ \/ status' = "typing" /\ Walk'
         \/ status' = "typed" /\ Checked'
         \/ status' \in {"fatal", "crash"}
    BY <1>1, <1>2, WalkKeeps DEF Invariant
<1>4. frames' = frames /\ lines' = lines /\ max' = max /\ emitted' = emitted /\ frames = <<>>
    BY <1>1 DEF emitterVars, Invariant
<1>5. Shape' /\ Owned' /\ LabelsOK(lines, frames, max.label)'
    BY <1>3, <1>4, SameLines DEF Invariant
<1> QED  BY <1>3, <1>4, <1>5 DEF Invariant

LEMMA Invariance == Spec => []Invariant
<1>1. Init => Invariant
    BY InitInvariant
<1>2. Invariant /\ [Next]_vars => Invariant'
    <2> SUFFICES ASSUME Invariant, [Next]_vars PROVE Invariant'
        OBVIOUS
    <2>1. CASE T!Next /\ UNCHANGED emitterVars
        BY <2>1, TypeInvariant
    <2>2. CASE E!Next
        BY <2>2, EmitInvariant
    <2>3. CASE UNCHANGED vars
        <3>1. /\ program' = program /\ status' = status /\ stack' = stack /\ typed' = typed
              /\ decl' = decl /\ frames' = frames /\ lines' = lines /\ max' = max
              /\ emitted' = emitted
            BY <2>3 DEF vars, typerVars, emitterVars
        <3>2. Walk' <=> Walk
            BY <3>1 DEF Walk, Closed, Done, StackOK, FrameOK, TermAt, Kind, Parts
        <3>3. Checked' <=> Checked
            BY <3>1 DEF Checked, Closed, Roots, TermAt, Kind, Parts
        <3>4. Shape' /\ Owned' /\ LabelsOK(lines, frames, max.label)'
            BY <3>1, SameLines DEF Invariant
        <3> QED  BY <3>1, <3>2, <3>3, <3>4 DEF Invariant
    <2> QED  BY <2>1, <2>2, <2>3 DEF Next
<1> QED  BY <1>1, <1>2, PTL DEF Spec

-----------------------------------------------------------------------------
(* What the text has of it *)

\* A temporary of an identifier is written only by its declaration and by
\* assignments, and any other only for the term it was made for: newLocal and
\* the identifiers of the parser draw on one numbering.
THEOREM TemporariesAreApart == Spec => []LocalsDistinct
<1>1. Invariant => LocalsDistinct
    <2> SUFFICES ASSUME Invariant, NEW i \in LineAt, NEW j \in LineAt,
                        NEW s \in Writes(i) \cap Writes(j)
                 PROVE  IF s.id < program.maxId
                        THEN program.terms[lines[i].of].kind \in {"assignment", "block"}
                        ELSE lines[i].of = lines[j].of
        BY DEF LocalsDistinct
    <2>1. PICK S : lines \in Seq(S)
        BY DEF Invariant, Shape
    <2>2. i \in 1 .. Len(lines) /\ j \in 1 .. Len(lines)
        BY <2>1 DEF LineAt
    <2>3. /\ s \in Range(lines[i].to) /\ s \in Range(lines[j].to) /\ s.space = "local"
        BY DEF Writes
    <2>4. PICK owner \in [Nat -> Nat] : OwnedBy(owner, max.local, lines, frames)
        BY DEF Invariant, Owned
    <2>5. WrittenByOwner(owner, max.local, lines[i]) /\ WrittenByOwner(owner, max.local, lines[j])
        BY <2>2, <2>4 DEF OwnedBy
    <2>6. /\ Named(s, lines[i].of) \/ Made(owner, max.local, s.id, lines[i].of)
          /\ Named(s, lines[j].of) \/ Made(owner, max.local, s.id, lines[j].of)
        BY <2>3, <2>5 DEF WrittenByOwner
    <2>7. program.maxId \in Nat /\ max.local \in Nat
        BY ProgramFacts DEF Invariant, Shape
    <2>8. \A t : Made(owner, max.local, s.id, t) => ~(s.id < program.maxId) /\ owner[s.id] = t
        BY <2>7 DEF Made
    <2>9. CASE s.id < program.maxId
        BY <2>6, <2>8, <2>9 DEF Named, Kind
    <2>10. CASE ~(s.id < program.maxId)
        BY <2>6, <2>8, <2>10 DEF Named
    <2> QED  BY <2>9, <2>10
<1> QED  BY <1>1, Invariance, PTL

\* Every jump of an emitted program goes forward, to a label that is defined
\* once in the whole text, in the same function: the four labels of an `and` or
\* `or` are defined by the call that has made them, however its operands nest.
THEOREM EveryJumpLands == Spec => []JumpsLand
<1>1. Invariant => JumpsLand
    <2> SUFFICES ASSUME Invariant, status = "emitted", NEW i \in LineAt,
                        NEW k \in DOMAIN lines[i].labels
                 PROVE  \E j \in LineAt :
                            /\ Defines(j, lines[i].labels[k])
                            /\ \A h \in LineAt : Defines(h, lines[i].labels[k]) => h = j
                            /\ lines[i].op # "label" =>
                                j > i /\ \A h \in i .. j : lines[h].op \notin {"function", "end"}
        BY DEF JumpsLand
    <2>1. PICK S : lines \in Seq(S)
        BY DEF Invariant, Shape
    <2>2. LineAt = 1 .. Len(lines) /\ Len(lines) \in Nat /\ i \in 1 .. Len(lines)
        BY <2>1 DEF LineAt
    <2>3. LabelsOnce(lines, max.label) /\ JumpsOK(lines, frames)
        BY DEF Invariant, LabelsOK
    <2>4. \A j, l : Defines(j, l) <=> Marks(lines[j], l)
        BY DEF Defines, Marks
    <2>5. ASSUME NEW j \in LineAt, NEW h \in LineAt, NEW l, Marks(lines[j], l), Marks(lines[h], l)
          PROVE  h = j
        <3>1. PICK m \in 1 .. max.label : lines[j].labels = <<m>>
            BY <2>2, <2>3, <2>5 DEF LabelsOnce, Marks
        <3>2. l = m
            BY <2>5, <3>1, OneMark
        <3> QED  BY <2>2, <2>3, <2>5, <3>2 DEF LabelsOnce
    <2>6. CASE lines[i].op = "label"
        <3>1. PICK m \in 1 .. max.label : lines[i].labels = <<m>>
            BY <2>2, <2>3, <2>6 DEF LabelsOnce
        <3>2. lines[i].labels[k] = m
            BY <3>1
        <3>3. Marks(lines[i], lines[i].labels[k])
            BY <2>6, <3>1, <3>2 DEF Marks
        <3> QED  BY <2>4, <2>5, <2>6, <3>3
    <2>7. CASE lines[i].op # "label"
        <3>1. frames = <<>>
            BY DEF Invariant
        <3>2. ~Pends(lines, frames, i, lines[i].labels[k])
            BY <3>1 DEF Pends
        <3>3. Lands(lines, i, lines[i].labels[k])
            BY <2>2, <2>3, <2>7, <3>2 DEF JumpsOK
        <3>4. PICK j \in i + 1 .. Len(lines) : Marks(lines[j], lines[i].labels[k]) /\ Inside(lines, i, j)
            BY <3>3 DEF Lands
        <3>5. j \in LineAt /\ j > i
            BY <2>2, <3>4
        <3>6. \A h \in i .. j : lines[h].op \notin {"function", "end"}
            BY <3>4 DEF Inside, Between
        <3> QED  BY <2>4, <2>5, <3>4, <3>5, <3>6
    <2> QED  BY <2>6, <2>7
<1> QED  BY <1>1, Invariance, PTL

\* The emitter comes only to terms that the type checker has gone through: the
\* kinds that typeTerm does not know, for which emitExpression has no case
\* either, never reach it, nor does an initialiser that is missing.
TypableRuns ==
    status = "typed" => \A f \in 1 .. Len(frames) :
        frames[f].term \in TermAt /\ Kind(frames[f].term) \in Typable

THEOREM EmitterMeetsOnlyTypable == Spec => []TypableRuns
<1>1. Invariant => TypableRuns
    BY DEF Invariant, Checked, Closed, TypableRuns
<1> QED  BY <1>1, Invariance, PTL

-----------------------------------------------------------------------------
(* What the emitter makes. *)

LEMMA FirstOf ==
    ASSUME NEW S \in SUBSET Nat, S # {}
    PROVE  \E m \in S : \A k \in S : m <= k
<1>1. PICK m \in S : \A k \in S : ~(<<k, m>> \in OpToRel(<, Nat))
    BY NatLessThanWellFounded, WFMin
<1>2. \A k \in S : ~(k < m)
    BY <1>1 DEF OpToRel
<1> QED  BY <1>2

LineOp == BinaryOp \cup {"function", "end", "label", "jnz", "jmp", "ret", "copy", "call"}

Counter == [local : Nat, label : Nat, struct : Nat, global : Nat]

Emission == [term : TermAt, at : Nat, result : E!Symbol \cup {NULL}, label : Nat]

LEMMA SymbolMade ==
    ASSUME NEW S, NEW U, NEW space \in S, NEW id \in Nat, NEW text \in U
    PROVE  [space |-> space, id |-> id, text |-> text] \in [space : S, id : Nat, text : U]
OBVIOUS

LEMMA SymbolIn ==
    ASSUME NEW space \in {"local", "global", "data", "type", "indeterminate", "garbage"},
           NEW id \in Nat, NEW text \in Text
    PROVE  [space |-> space, id |-> id, text |-> text] \in E!Symbol
<1> PICK S : S = {"local", "global", "data", "type", "indeterminate", "garbage"}
    OBVIOUS
<1>1. space \in S
    OBVIOUS
<1>2. [space |-> space, id |-> id, text |-> text] \in [space : S, id : Nat, text : Text]
    BY ONLY <1>1, SymbolMade, id \in Nat, text \in Text
<1>3. E!Text = Text
    BY DEF E!Text, Text
<1>4. E!Symbol = [space : S, id : Nat, text : Text]
    BY <1>3 DEF E!Symbol
<1> QED  BY <1>2, <1>4

LEMMA NoTextIn == "" \in Text
BY DEF Text

LEMMA SymbolsMade ==
    /\ \A n \in Nat : E!Local(n) \in E!Symbol /\ E!Data(n) \in E!Symbol
    /\ \A text \in Text : E!Global(text) \in E!Symbol
    /\ E!Indeterminate \in E!Symbol /\ E!Garbage \in E!Symbol
<1> PICK no : no = ""
    OBVIOUS
<1>0. no \in Text
    BY NoTextIn
<1>1. ASSUME NEW n \in Nat PROVE E!Local(n) \in E!Symbol /\ E!Data(n) \in E!Symbol
    <2>1. E!Local(n) = [space |-> "local", id |-> n, text |-> no]
          /\ E!Data(n) = [space |-> "data", id |-> n, text |-> no]
        BY DEF E!Local, E!Data
    <2> QED  BY ONLY n \in Nat, <1>0, <2>1, SymbolIn
<1>2. ASSUME NEW text \in Text PROVE E!Global(text) \in E!Symbol
    BY SymbolIn DEF E!Global
<1>3. E!Indeterminate \in E!Symbol /\ E!Garbage \in E!Symbol
    <2>1. E!Indeterminate = [space |-> "indeterminate", id |-> 0, text |-> no]
          /\ E!Garbage = [space |-> "garbage", id |-> 0, text |-> no]
        BY DEF E!Indeterminate, E!Garbage
    <2> QED  BY <1>0, <2>1, SymbolIn
<1> QED  BY <1>1, <1>2, <1>3

LEMMA SymbolParts ==
    ASSUME NEW s \in E!Symbol
    PROVE  /\ s = [space |-> s.space, id |-> s.id, text |-> s.text]
           /\ s.id \in Nat /\ s.text \in Text
<1> PICK S, U : S = {"local", "global", "data", "type", "indeterminate", "garbage"} /\ U = E!Text
    OBVIOUS
<1>1. s \in [space : S, id : Nat, text : U]
    BY DEF E!Symbol
<1>2. s = [space |-> s.space, id |-> s.id, text |-> s.text] /\ s.id \in Nat /\ s.text \in U
    BY ONLY <1>1
<1> QED  BY <1>2 DEF E!Text, Text

\* A symbol that is written as if it were of another kind.
LEMMA SymbolAs ==
    ASSUME NEW s \in E!Symbol
    PROVE  [s EXCEPT !.space = "type"] \in E!Symbol
<1> PICK a, b, c : a = s.space /\ b = s.id /\ c = s.text
    OBVIOUS
<1>1. s = [space |-> a, id |-> b, text |-> c] /\ b \in Nat /\ c \in Text
    BY SymbolParts
<1>2. [s EXCEPT !.space = "type"] = [space |-> "type", id |-> b, text |-> c]
    BY ONLY <1>1
<1> QED  BY <1>1, <1>2, SymbolIn

LEMMA IdentifierFacts ==
    /\ E!identifier = identifier
    /\ E!NoName \in identifier
    /\ \A name \in identifier : E!idToSymbol(name) \in E!Symbol
<1>1. E!identifier = identifier
    BY DEF E!identifier, identifier, E!Text, Text
<1>2. E!NoName \in identifier
    <2> PICK no, U : no = "" /\ U = Text
        OBVIOUS
    <2>1. E!NoName = [isAuto |-> FALSE, id |-> 0, text |-> no]
        BY DEF E!NoName, E!TextIdent
    <2>2. no \in U
        BY NoTextIn
    <2>3. [isAuto |-> FALSE, id |-> 0, text |-> no] \in [isAuto : BOOLEAN, id : Nat, text : U]
        BY ONLY <2>2
    <2> QED  BY <2>1, <2>3 DEF identifier
<1>3. ASSUME NEW name \in identifier PROVE E!idToSymbol(name) \in E!Symbol
    <2>1. name.id \in Nat /\ name.text \in Text
        <3> PICK U : U = Text
            OBVIOUS
        <3>1. name \in [isAuto : BOOLEAN, id : Nat, text : U]
            BY DEF identifier
        <3>2. name.id \in Nat /\ name.text \in U
            BY ONLY <3>1
        <3> QED  BY <3>2
    <2> QED  BY <2>1, SymbolsMade DEF E!idToSymbol
<1> QED  BY <1>1, <1>2, <1>3

LEMMA LineMade ==
    ASSUME NEW O, NEW S, NEW I, NEW op \in O, NEW to \in Seq(S), NEW from \in Seq(S),
           NEW labels \in Seq(Nat), NEW name \in I, NEW value \in Int, NEW of \in Nat
    PROVE  [op |-> op, to |-> to, from |-> from, labels |-> labels,
            name |-> name, value |-> value, of |-> of]
                \in [op : O, to : Seq(S), from : Seq(S), labels : Seq(Nat),
                     name : I, value : Int, of : Nat]
OBVIOUS

LEMMA LineIn ==
    ASSUME NEW op \in LineOp, NEW to \in Seq(E!Symbol), NEW from \in Seq(E!Symbol),
           NEW labels \in Seq(Nat), NEW name \in identifier, NEW value \in Int, NEW of \in Nat
    PROVE  [op |-> op, to |-> to, from |-> from, labels |-> labels,
            name |-> name, value |-> value, of |-> of] \in E!Line
<1> PICK O, S, I : O = LineOp /\ S = E!Symbol /\ I = identifier
    OBVIOUS
<1>1. op \in O /\ to \in Seq(S) /\ from \in Seq(S) /\ name \in I
    OBVIOUS
<1>2. [op |-> op, to |-> to, from |-> from, labels |-> labels,
       name |-> name, value |-> value, of |-> of]
            \in [op : O, to : Seq(S), from : Seq(S), labels : Seq(Nat),
                 name : I, value : Int, of : Nat]
    BY ONLY <1>1, LineMade, labels \in Seq(Nat), value \in Int, of \in Nat
<1>3. E!BinaryOp = BinaryOp
    BY DEF E!BinaryOp, E!Arithmetic, E!Relational, E!Equality, E!Logical,
           BinaryOp, Arithmetic, Relational, Equality, Logical
<1>4. E!Line = [op : O, to : Seq(S), from : Seq(S), labels : Seq(Nat),
                name : I, value : Int, of : Nat]
    BY <1>3, IdentifierFacts DEF E!Line, LineOp
<1> QED  BY <1>2, <1>4

\* Lines of the forms that the emitter writes.
LEMMA Singles ==
    ASSUME NEW S, NEW s \in S
    PROVE  <<s>> \in Seq(S) /\ <<>> \in Seq(S) /\ Len(<<s>>) = 1
OBVIOUS

LEMMA Doubles ==
    ASSUME NEW S, NEW s \in S, NEW t \in S
    PROVE  <<s, t>> \in Seq(S)
OBVIOUS

LEMMA OpLine ==
    ASSUME NEW op \in LineOp, NEW of \in Nat, NEW to \in Seq(E!Symbol), NEW from \in Seq(E!Symbol),
           NEW labels \in Seq(Nat), NEW name \in identifier, NEW value \in Int
    PROVE  /\ E!Op(op, of) \in E!Line
           /\ [E!Op(op, of) EXCEPT !.from = from] \in E!Line
           /\ [E!Op(op, of) EXCEPT !.name = name] \in E!Line
           /\ [E!Op(op, of) EXCEPT !.labels = labels] \in E!Line
           /\ [E!Op(op, of) EXCEPT !.from = from, !.labels = labels] \in E!Line
           /\ [E!Op(op, of) EXCEPT !.to = to, !.from = from] \in E!Line
           /\ [E!Op(op, of) EXCEPT !.to = to, !.value = value] \in E!Line
           /\ [E!Op(op, of) EXCEPT !.to = to, !.from = from, !.name = name] \in E!Line
<1> PICK none, nobody, S : none = <<>> /\ nobody = E!NoName /\ S = E!Symbol
    OBVIOUS
<1>1. none \in Seq(E!Symbol) /\ none \in Seq(Nat) /\ nobody \in identifier /\ 0 \in Int
    <2>1. nobody \in identifier
        BY IdentifierFacts
    <2>2. none \in Seq(E!Symbol) /\ none \in Seq(Nat)
        OBVIOUS
    <2> QED  BY <2>1, <2>2
<1> PICK r : r = E!Op(op, of)
    OBVIOUS
<1>2. r = [op |-> op, to |-> none, from |-> none, labels |-> none, name |-> nobody,
           value |-> 0, of |-> of]
    BY DEF E!Op
<1>3. [r EXCEPT !.from = from] =
            [op |-> op, to |-> none, from |-> from, labels |-> none, name |-> nobody,
             value |-> 0, of |-> of]
    BY ONLY <1>2
<1>3a. [r EXCEPT !.name = name] =
            [op |-> op, to |-> none, from |-> none, labels |-> none, name |-> name,
             value |-> 0, of |-> of]
    BY ONLY <1>2
<1>3b. [r EXCEPT !.labels = labels] =
            [op |-> op, to |-> none, from |-> none, labels |-> labels, name |-> nobody,
             value |-> 0, of |-> of]
    BY ONLY <1>2
<1>4. [r EXCEPT !.from = from, !.labels = labels] =
            [op |-> op, to |-> none, from |-> from, labels |-> labels, name |-> nobody,
             value |-> 0, of |-> of]
    <2> PICK q : q = [r EXCEPT !.from = from]
        OBVIOUS
    <2>1. q = [op |-> op, to |-> none, from |-> from, labels |-> none, name |-> nobody,
             value |-> 0, of |-> of]
        BY SMTT(30), <1>2
    <2>2. [q EXCEPT !.labels = labels] =
            [op |-> op, to |-> none, from |-> from, labels |-> labels, name |-> nobody,
             value |-> 0, of |-> of]
        BY ONLY <2>1
    <2> QED  BY <2>2
<1>5. [r EXCEPT !.to = to, !.from = from] =
            [op |-> op, to |-> to, from |-> from, labels |-> none, name |-> nobody,
             value |-> 0, of |-> of]
    <2> PICK q : q = [r EXCEPT !.to = to]
        OBVIOUS
    <2>1. q = [op |-> op, to |-> to, from |-> none, labels |-> none, name |-> nobody,
             value |-> 0, of |-> of]
        BY SMTT(30), <1>2
    <2>2. [q EXCEPT !.from = from] =
            [op |-> op, to |-> to, from |-> from, labels |-> none, name |-> nobody,
             value |-> 0, of |-> of]
        BY ONLY <2>1
    <2> QED  BY <2>2
<1>6. [r EXCEPT !.to = to, !.value = value] =
            [op |-> op, to |-> to, from |-> none, labels |-> none, name |-> nobody,
             value |-> value, of |-> of]
    <2> PICK q : q = [r EXCEPT !.to = to]
        OBVIOUS
    <2>1. q = [op |-> op, to |-> to, from |-> none, labels |-> none, name |-> nobody,
             value |-> 0, of |-> of]
        BY SMTT(30), <1>2
    <2>2. [q EXCEPT !.value = value] =
            [op |-> op, to |-> to, from |-> none, labels |-> none, name |-> nobody,
             value |-> value, of |-> of]
        BY ONLY <2>1
    <2> QED  BY <2>2
<1>7. [r EXCEPT !.to = to, !.from = from, !.name = name] =
            [op |-> op, to |-> to, from |-> from, labels |-> none, name |-> name,
             value |-> 0, of |-> of]
    <2> PICK q : q = [r EXCEPT !.to = to, !.from = from]
        OBVIOUS
    <2>1. q = [op |-> op, to |-> to, from |-> from, labels |-> none, name |-> nobody,
               value |-> 0, of |-> of]
        BY <1>5
    <2>2. [q EXCEPT !.name = name] =
            [op |-> op, to |-> to, from |-> from, labels |-> none, name |-> name,
             value |-> 0, of |-> of]
        BY ONLY <2>1
    <2> QED  BY <2>2
<1>8. r \in E!Line
    BY ONLY <1>1, <1>2, LineIn, op \in LineOp, of \in Nat
<1>9. [r EXCEPT !.from = from] \in E!Line
    <2> PICK q : q = [op |-> op, to |-> none, from |-> from, labels |-> none, name |-> nobody,
         value |-> 0, of |-> of]
        OBVIOUS
    <2>1. q \in E!Line
        BY <1>1, LineIn
    <2>2. [r EXCEPT !.from = from] = q
        BY <1>3
    <2> QED  BY ONLY <2>1, <2>2
<1>10. [r EXCEPT !.name = name] \in E!Line
    <2> PICK q : q = [op |-> op, to |-> none, from |-> none, labels |-> none, name |-> name,
         value |-> 0, of |-> of]
        OBVIOUS
    <2>1. q \in E!Line
        BY <1>1, LineIn
    <2>2. [r EXCEPT !.name = name] = q
        BY <1>3a
    <2> QED  BY ONLY <2>1, <2>2
<1>11. [r EXCEPT !.labels = labels] \in E!Line
    <2> PICK q : q = [op |-> op, to |-> none, from |-> none, labels |-> labels, name |-> nobody,
         value |-> 0, of |-> of]
        OBVIOUS
    <2>1. q \in E!Line
        BY <1>1, LineIn
    <2>2. [r EXCEPT !.labels = labels] = q
        BY <1>3b
    <2> QED  BY ONLY <2>1, <2>2
<1>12. [r EXCEPT !.from = from, !.labels = labels] \in E!Line
    BY ONLY SMTT(30), <1>1, <1>4, LineIn, op \in LineOp, of \in Nat, labels \in Seq(Nat), from \in Seq(E!Symbol)
<1>13. [r EXCEPT !.to = to, !.from = from] \in E!Line
    BY ONLY <1>1, <1>5, LineIn, op \in LineOp, of \in Nat, to \in Seq(E!Symbol), from \in Seq(E!Symbol)
<1>14. [r EXCEPT !.to = to, !.value = value] \in E!Line
    BY ONLY <1>1, <1>6, LineIn, op \in LineOp, of \in Nat, to \in Seq(E!Symbol), value \in Int
<1>15. [r EXCEPT !.to = to, !.from = from, !.name = name] \in E!Line
    BY ONLY <1>1, <1>7, LineIn, op \in LineOp, of \in Nat, to \in Seq(E!Symbol),
            from \in Seq(E!Symbol), name \in identifier
<1> QED  BY <1>8, <1>9, <1>10, <1>11, <1>12, <1>13, <1>14, <1>15

LEMMA LineForms ==
    ASSUME NEW of \in Nat
    PROVE  /\ \A n \in Nat : E!Label(n, of) \in E!Line /\ E!Jump(n, of) \in E!Line
           /\ \A on \in E!Symbol, yes \in Nat, no \in Nat : E!Branch(on, yes, no, of) \in E!Line
           /\ \A to \in E!Symbol, from \in E!Symbol : E!Copy(to, from, of) \in E!Line
           /\ \A to \in Seq(E!Symbol), value \in Int : E!CopyNumber(to, value, of) \in E!Line
<1>0. {"label", "jmp", "jnz", "copy"} \subseteq LineOp /\ <<>> \in Seq(E!Symbol)
      /\ E!NoName \in identifier /\ 0 \in Int /\ <<>> \in Seq(Nat)
    BY IdentifierFacts DEF LineOp
<1>1. ASSUME NEW n \in Nat PROVE E!Label(n, of) \in E!Line /\ E!Jump(n, of) \in E!Line
    <2> PICK labels : labels = <<n>>
        OBVIOUS
    <2>1. labels \in Seq(Nat)
        OBVIOUS
    <2>2. [E!Op("label", of) EXCEPT !.labels = labels] \in E!Line
          /\ [E!Op("jmp", of) EXCEPT !.labels = labels] \in E!Line
        BY <1>0, <2>1, OpLine, Zenon
    <2> QED  BY <2>2 DEF E!Label, E!Jump
<1>2. ASSUME NEW on \in E!Symbol, NEW yes \in Nat, NEW no \in Nat
      PROVE  E!Branch(on, yes, no, of) \in E!Line
    <2> PICK from, labels : from = <<on>> /\ labels = <<yes, no>>
        OBVIOUS
    <2>1. from \in Seq(E!Symbol) /\ labels \in Seq(Nat)
        BY Singles, Doubles
    <2>2. [E!Op("jnz", of) EXCEPT !.from = from, !.labels = labels] \in E!Line
        BY <1>0, <2>1, OpLine, Zenon
    <2> QED  BY <2>2 DEF E!Branch
<1>3. ASSUME NEW to \in E!Symbol, NEW from \in E!Symbol PROVE E!Copy(to, from, of) \in E!Line
    <2> PICK tos, froms : tos = <<to>> /\ froms = <<from>>
        OBVIOUS
    <2>1. tos \in Seq(E!Symbol) /\ froms \in Seq(E!Symbol)
        BY Singles
    <2>2. [E!Op("copy", of) EXCEPT !.to = tos, !.from = froms] \in E!Line
        BY <1>0, <2>1, OpLine, Zenon
    <2> QED  BY <2>2 DEF E!Copy
<1>4. ASSUME NEW to \in Seq(E!Symbol), NEW value \in Int PROVE E!CopyNumber(to, value, of) \in E!Line
    BY <1>0, OpLine, Zenon DEF E!CopyNumber
<1> QED  BY <1>1, <1>2, <1>3, <1>4

-----------------------------------------------------------------------------
(* How many structs are converted. *)

LEMMA CountFacts ==
    ASSUME NEW S, NEW types \in Seq(S)
    PROVE  E!CountStructs(types) \in Nat
<1> PICK A : A = {i \in DOMAIN types : types[i].kind \in E!Structs}
    OBVIOUS
<1>1. DOMAIN types = 1 .. Len(types) /\ Len(types) \in Nat
    OBVIOUS
<1>2. IsFiniteSet(1 .. Len(types))
    BY <1>1, FS_Interval
<1>3. A \subseteq 1 .. Len(types)
    BY <1>1
<1>4. IsFiniteSet(A)
    BY <1>2, <1>3, FS_Subset
<1>5. E!CountStructs(types) = Cardinality(A)
    BY DEF E!CountStructs, E!Cardinality, Cardinality
<1>6. Cardinality(A) \in Nat
    BY ONLY <1>4, FS_CardinalityType
<1> QED  BY ONLY <1>5, <1>6

LEMMA CountOne ==
    ASSUME NEW type
    PROVE  E!CountStructs(<<type>>) \in Nat
<1> PICK S, types : S = {type} /\ types = <<type>>
    OBVIOUS
<1>1. types \in Seq(S)
    OBVIOUS
<1> QED  BY <1>1, CountFacts

\* The counters.
LEMMA CounterSet ==
    ASSUME max \in Counter, NEW n \in Nat
    PROVE  /\ [max EXCEPT !.local = @ + 1] \in Counter
           /\ [max EXCEPT !.global = @ + 1] \in Counter
           /\ [max EXCEPT !.struct = @ + n] \in Counter
           /\ [max EXCEPT !.local = @ + 1, !.label = @ + n] \in Counter
           /\ max.local \in Nat /\ max.label \in Nat /\ max.struct \in Nat /\ max.global \in Nat
<1> PICK r, a, b, c, d : r = max /\ a = max.local /\ b = max.label /\ c = max.struct /\ d = max.global
    OBVIOUS
<1>1. /\ r = [local |-> a, label |-> b, struct |-> c, global |-> d]
      /\ a \in Nat /\ b \in Nat /\ c \in Nat /\ d \in Nat
    BY DEF Counter
<1>2. /\ [r EXCEPT !.local = a + 1] = [local |-> a + 1, label |-> b, struct |-> c, global |-> d]
      /\ [r EXCEPT !.global = d + 1] = [local |-> a, label |-> b, struct |-> c, global |-> d + 1]
      /\ [r EXCEPT !.struct = c + n] = [local |-> a, label |-> b, struct |-> c + n, global |-> d]
    BY ONLY <1>1
<1>3. [r EXCEPT !.local = a + 1, !.label = b + n] =
            [local |-> a + 1, label |-> b + n, struct |-> c, global |-> d]
    <2> PICK q : q = [r EXCEPT !.local = a + 1]
        OBVIOUS
    <2>1. q = [local |-> a + 1, label |-> b, struct |-> c, global |-> d]
        BY <1>2
    <2>2. [q EXCEPT !.label = b + n] = [local |-> a + 1, label |-> b + n, struct |-> c, global |-> d]
        BY ONLY <2>1
    <2> QED  BY <2>2
<1>4. ASSUME NEW k \in Nat, NEW l \in Nat, NEW s \in Nat, NEW g \in Nat
      PROVE  [local |-> k, label |-> l, struct |-> s, global |-> g] \in Counter
    BY DEF Counter
<1>5. a + 1 \in Nat /\ b + n \in Nat /\ c + n \in Nat /\ d + 1 \in Nat
    BY <1>1
<1>6. /\ [r EXCEPT !.local = a + 1] \in Counter
      /\ [r EXCEPT !.global = d + 1] \in Counter
      /\ [r EXCEPT !.struct = c + n] \in Counter
      /\ [r EXCEPT !.local = a + 1, !.label = b + n] \in Counter
    BY ONLY <1>1, <1>2, <1>3, <1>4, <1>5
<1> QED  BY <1>1, <1>6

-----------------------------------------------------------------------------
(* What the emitter keeps. *)

\* The parts of the term that have been dealt with have symbols, but for the
\* callee of an application.
Given(f, of) ==
    /\ f.at <= Len(Parts(f.term))
    /\ \A i \in 1 .. f.at :
        \/ Kind(f.term) = "application" /\ i = 1
        \/ Parts(f.term)[i] \in TermAt /\ of[Parts(f.term)[i]] \in E!Symbol

EmitterOK ==
    /\ frames \in Seq(Emission)
    /\ symbol \in [TermAt -> E!Symbol \cup {NULL}]
    /\ lines \in Seq(E!Line)
    /\ max \in Counter
    /\ emitted \in 0 .. Len(program.decls)
    /\ \A f \in 1 .. Len(frames) : Given(frames[f], symbol)

EndsCall ==
    /\ frames # <<>> /\ frames' = Tail(frames)
    /\ \E s \in E!Symbol : symbol' = [symbol EXCEPT ![Cur.term] = s]

SetsCall ==
    /\ frames # <<>> /\ symbol' = symbol
    /\ \E f \in Emission : Given(f, symbol) /\ frames' = [frames EXCEPT ![1] = f]

BeginsCall ==
    /\ symbol' = symbol
    /\ \E t \in TermAt : frames' = <<E!Frame(t)>> \o frames

EmitForm ==
    /\ UNCHANGED <<program, heap, typed, declType>>
    /\ \E text \in Seq(E!Line) : lines' = lines \o text
    /\ max' \in Counter
    /\ emitted' \in 0 .. Len(program.decls)
    /\ (frames' = frames /\ symbol' = symbol) \/ EndsCall \/ SetsCall \/ BeginsCall

LEMMA FrameIn ==
    ASSUME NEW t \in TermAt
    PROVE  E!Frame(t) \in Emission /\ E!Frame(t).term = t /\ E!Frame(t).at = 0
BY DEF E!Frame, Emission

LEMMA EmissionFacts ==
    ASSUME NEW f \in Emission
    PROVE  /\ f.term \in TermAt /\ f.at \in Nat /\ f.label \in Nat
           /\ f.result \in E!Symbol \cup {NULL}
           /\ f = [term |-> f.term, at |-> f.at, result |-> f.result, label |-> f.label]
<1> PICK S : S = E!Symbol \cup {NULL}
    OBVIOUS
<1>1. f \in [term : TermAt, at : Nat, result : S, label : Nat]
    BY DEF Emission
<1> QED  BY <1>1

LEMMA CallsChangeKeeps ==
    ASSUME program \in Programs, EmitterOK, EmitForm
    PROVE  /\ frames' \in Seq(Emission)
           /\ symbol' \in [TermAt -> E!Symbol \cup {NULL}]
           /\ \A f \in 1 .. Len(frames') : Given(frames'[f], symbol')
<1> PICK R, D : R = Emission /\ D = TermAt
    OBVIOUS
<1>0. frames \in Seq(R) /\ symbol \in [D -> E!Symbol \cup {NULL}]
    BY DEF EmitterOK
<1>1. CASE frames' = frames /\ symbol' = symbol
    BY <1>1 DEF EmitterOK
<1>2. CASE EndsCall
    <2>1. PICK s \in E!Symbol : symbol' = [symbol EXCEPT ![Cur.term] = s]
        BY <1>2 DEF EndsCall
    <2>2. frames # <<>> /\ frames' = Tail(frames)
        BY <1>2 DEF EndsCall
    <2>3. /\ frames' \in Seq(R) /\ Len(frames') = Len(frames) - 1 /\ Len(frames) \in Nat \ {0}
          /\ \A i \in 1 .. Len(frames) - 1 : frames'[i] = frames[i + 1]
        BY <1>0, <2>2, PopFacts
    <2>4. symbol' \in [D -> E!Symbol \cup {NULL}]
        BY <1>0, <2>1
    <2>5. ASSUME NEW k \in TermAt, symbol[k] \in E!Symbol PROVE symbol'[k] \in E!Symbol
        BY <1>0, <2>1, <2>5
    <2>6. ASSUME NEW i \in 1 .. Len(frames') PROVE Given(frames'[i], symbol')
        <3>1. i + 1 \in 1 .. Len(frames) /\ frames'[i] = frames[i + 1]
            BY <2>3
        <3>2. Given(frames[i + 1], symbol)
            BY <3>1 DEF EmitterOK
        <3>3. Given(frames[i + 1], symbol')
            BY <2>5, <3>2 DEF Given
        <3> QED  BY <3>1, <3>3
    <2> QED  BY <2>3, <2>4, <2>6
<1>3. CASE SetsCall
    <2>1. PICK f \in Emission : Given(f, symbol) /\ frames' = [frames EXCEPT ![1] = f]
        BY <1>3 DEF SetsCall
    <2>2. frames # <<>> /\ symbol' = symbol
        BY <1>3 DEF SetsCall
    <2>3. frames' \in Seq(R)
        BY <1>0, <2>1, <2>2, SetIn
    <2>4. /\ Len(frames') = Len(frames) /\ Len(frames) \in Nat \ {0} /\ frames'[1] = f
          /\ \A i \in 2 .. Len(frames) : frames'[i] = frames[i]
        BY <1>0, <2>1, <2>2, SetFacts
    <2>5. ASSUME NEW i \in 1 .. Len(frames') PROVE Given(frames'[i], symbol)
        <3>1. CASE i = 1
            BY <2>1, <2>4, <3>1
        <3>2. CASE i # 1
            <4>1. i \in 2 .. Len(frames) /\ i \in 1 .. Len(frames)
                BY <2>4, <3>2
            <4>2. frames'[i] = frames[i] /\ Given(frames[i], symbol)
                BY <2>4, <4>1 DEF EmitterOK
            <4> QED  BY <4>2
        <3> QED  BY <3>1, <3>2
    <2> QED  BY <1>0, <2>2, <2>3, <2>5
<1>4. CASE BeginsCall
    <2>1. PICK t \in TermAt : frames' = <<E!Frame(t)>> \o frames
        BY <1>4 DEF BeginsCall
    <2>2. symbol' = symbol
        BY <1>4 DEF BeginsCall
    <2> PICK e : e = E!Frame(t)
        OBVIOUS
    <2>3. e \in R /\ e.term = t /\ e.at = 0
        BY FrameIn
    <2>4. frames' \in Seq(R)
        <3>1. <<e>> \in Seq(R)
            BY <2>3
        <3>2. <<e>> \o frames \in Seq(R)
            BY <1>0, <3>1
        <3> QED  BY <2>1, <3>2
    <2>5. /\ Len(frames') = Len(frames) + 1 /\ Len(frames) \in Nat /\ frames'[1] = e
          /\ \A i \in 2 .. Len(frames) + 1 : frames'[i] = frames[i - 1]
        BY <1>0, <2>1, PushFacts
    <2>6. Given(e, symbol)
        <3>1. Len(Parts(t)) \in Nat
            BY TermFacts
        <3> QED  BY <2>3, <3>1 DEF Given
    <2>7. ASSUME NEW i \in 1 .. Len(frames') PROVE Given(frames'[i], symbol)
        <3>1. CASE i = 1
            BY <2>5, <2>6, <3>1
        <3>2. CASE i # 1
            <4>1. i \in 2 .. Len(frames) + 1 /\ i - 1 \in 1 .. Len(frames)
                BY <2>5, <3>2
            <4>2. frames'[i] = frames[i - 1] /\ Given(frames[i - 1], symbol)
                BY <2>5, <4>1 DEF EmitterOK
            <4> QED  BY <4>2
        <3> QED  BY <3>1, <3>2
    <2> QED  BY <1>0, <2>2, <2>4, <2>7
<1> QED  BY <1>1, <1>2, <1>3, <1>4 DEF EmitForm

LEMMA EmitFormKeeps ==
    ASSUME program \in Programs, EmitterOK, EmitForm
    PROVE  EmitterOK'
<1>1. program' = program
    BY DEF EmitForm
<1>2. lines' \in Seq(E!Line)
    <2> PICK L : L = E!Line
        OBVIOUS
    <2>1. PICK text \in Seq(L) : lines' = lines \o text
        BY DEF EmitForm
    <2>2. lines \in Seq(L)
        BY DEF EmitterOK
    <2>3. lines \o text \in Seq(L)
        BY ONLY <2>1, <2>2
    <2> QED  BY <2>1, <2>3
<1>3. TermAt' = TermAt /\ Emission' = Emission
    BY <1>1 DEF TermAt, Emission
<1>4. (\A f \in 1 .. Len(frames) : Given(frames[f], symbol))'
    BY <1>1, <1>3, CallsChangeKeeps DEF Given, Parts, Kind
<1>5. max' \in Counter /\ emitted' \in 0 .. Len(program.decls)
    BY DEF EmitForm
<1> QED  BY <1>1, <1>2, <1>3, <1>4, <1>5, CallsChangeKeeps DEF EmitterOK

-----------------------------------------------------------------------------
(* Each action of the emitter is a step of this form. *)

EmitSetting == Setting /\ EmitterOK

LEMMA CurCall ==
    ASSUME EmitSetting, frames # <<>>
    PROVE  /\ program \in Programs /\ Setting /\ EmitterOK
           /\ Cur \in Emission /\ Given(Cur, symbol) /\ Cur.term \in TermAt /\ Cur.term \in Nat
           /\ Cur.at \in Nat /\ Cur.label \in Nat /\ Cur.result \in E!Symbol \cup {NULL}
           /\ Len(Parts(Cur.term)) \in Nat /\ Kind(Cur.term) \in Typable
           /\ \A i \in 1 .. Len(Parts(Cur.term)) :
                /\ Parts(Cur.term)[i] \in TermAt /\ Kind(Parts(Cur.term)[i]) \in Typable
                /\ symbol[Parts(Cur.term)[i]] \in E!Symbol \cup {NULL}
<1>0. program \in Programs /\ Setting /\ EmitterOK
    BY DEF EmitSetting, Setting
<1> PICK R : R = Emission
    OBVIOUS
<1>1. frames \in Seq(R)
    BY <1>0 DEF EmitterOK
<1>2. Cur = frames[1] /\ Len(frames) \in Nat \ {0} /\ Cur \in R
    BY <1>1, PopFacts DEF Cur
<1>3. Given(Cur, symbol)
    BY <1>0, <1>2 DEF EmitterOK
<1>4. /\ Cur.term \in TermAt /\ Kind(Cur.term) \in Typable
      /\ \A i \in 1 .. Len(Parts(Cur.term)) :
            Parts(Cur.term)[i] \in TermAt /\ Kind(Parts(Cur.term)[i]) \in Typable
    BY <1>0, CurFacts
<1>5. Cur.term \in Nat /\ Len(Parts(Cur.term)) \in Nat
    BY <1>0, <1>4, ProgramFacts, TermFacts
<1>6. \A t \in TermAt : symbol[t] \in E!Symbol \cup {NULL}
    BY <1>0 DEF EmitterOK
<1> QED  BY <1>0, <1>2, <1>3, <1>4, <1>5, <1>6, EmissionFacts

LEMMA PartGiven ==
    ASSUME EmitSetting, frames # <<>>, NEW i \in 1 .. Cur.at, Kind(Cur.term) # "application" \/ i # 1
    PROVE  /\ Parts(Cur.term)[i] \in TermAt /\ symbol[Parts(Cur.term)[i]] \in E!Symbol
           /\ E!Value(i) = symbol[Parts(Cur.term)[i]]
<1>1. E!Value(i) = symbol[Parts(Cur.term)[i]]
    BY FrameFacts DEF E!Value, Parts
<1> QED  BY <1>1, CurCall DEF Given

LEMMA KidGiven ==
    ASSUME EmitSetting, NEW kinds, E!Returned(kinds)
    PROVE  /\ status = "typed" /\ frames # <<>> /\ Kind(Cur.term) \in kinds
           /\ Cur.at < Len(Parts(Cur.term)) /\ Cur.at + 1 \in 1 .. Len(Parts(Cur.term))
           /\ E!Kid = Parts(Cur.term)[Cur.at + 1] /\ E!Kid \in TermAt
           /\ symbol[E!Kid] \in E!Symbol
           /\ Kind(Cur.term) \in {"binary", "application"} => Cur.result \in E!Symbol
<1>1. /\ status = "typed" /\ frames # <<>> /\ Kind(Cur.term) \in kinds
      /\ Cur.at < Len(Parts(Cur.term)) /\ symbol[E!Kid] # NULL
      /\ Kind(Cur.term) \in {"binary", "application"} => Cur.result # NULL
    BY CallsFacts DEF E!Returned
<1>2. Cur.at + 1 \in 1 .. Len(Parts(Cur.term))
    BY <1>1, CurCall
<1> QED  BY <1>1, <1>2, CurCall, FrameFacts

LEMMA AllGiven ==
    ASSUME EmitSetting, NEW kinds, E!Complete(kinds)
    PROVE  /\ status = "typed" /\ frames # <<>> /\ Kind(Cur.term) \in kinds
           /\ Cur.at = Len(Parts(Cur.term)) /\ Cur.term \in TermAt /\ Cur.term \in Nat
           /\ E!Top.term = Cur.term /\ E!Top.result = Cur.result
           /\ Kind(Cur.term) \in {"binary", "application"} => Cur.result \in E!Symbol
<1>1. /\ status = "typed" /\ frames # <<>> /\ Kind(Cur.term) \in kinds
      /\ Cur.at = Len(Parts(Cur.term))
      /\ Kind(Cur.term) \in {"binary", "application"} => Cur.result # NULL
    BY CompletedFacts
<1> QED  BY <1>1, CurCall, FrameFacts

\* The lines that a step can write.
LEMMA NoLine ==
    ASSUME EmitterOK, lines' = lines
    PROVE  \E text \in Seq(E!Line) : lines' = lines \o text
<1> PICK L : L = E!Line
    OBVIOUS
<1>1. lines \in Seq(L)
    BY DEF EmitterOK
<1>2. <<>> \in Seq(L) /\ lines \o <<>> = lines
    BY ONLY <1>1
<1> QED  BY <1>2

LEMMA LineWritten ==
    ASSUME NEW line \in E!Line, lines' = lines \o <<line>>
    PROVE  \E text \in Seq(E!Line) : lines' = lines \o text
<1> PICK L : L = E!Line
    OBVIOUS
<1>1. <<line>> \in Seq(L)
    BY Singles
<1> QED  BY <1>1

\* The forms of a step that does not come to the end of a declaration.
LEMMA SameForm ==
    ASSUME EmitterOK, E!Same, \E text \in Seq(E!Line) : lines' = lines \o text, max' \in Counter,
           (frames' = frames /\ symbol' = symbol) \/ EndsCall \/ SetsCall \/ BeginsCall
    PROVE  EmitForm
<1>1. UNCHANGED <<program, heap, typed, declType>> /\ emitted' = emitted
    BY DEF E!Same, E!Typed
<1> QED  BY <1>1 DEF EmitForm, EmitterOK

LEMMA SilentForm ==
    ASSUME EmitterOK, E!Same, lines' = lines, max' = max,
           EndsCall \/ SetsCall \/ BeginsCall
    PROVE  EmitForm
<1>1. max' \in Counter
    BY DEF EmitterOK
<1> QED  BY <1>1, NoLine, SameForm

LEMMA StopForm ==
    ASSUME EmitterOK, E!Fatal
    PROVE  EmitForm
<1>1. /\ UNCHANGED <<program, heap, typed, declType>> /\ emitted' = emitted /\ max' = max
      /\ lines' = lines /\ frames' = frames /\ symbol' = symbol
    BY DEF E!Fatal, E!Typed
<1>2. max' \in Counter /\ emitted' \in 0 .. Len(program.decls)
    BY <1>1 DEF EmitterOK
<1> QED  BY <1>1, <1>2, NoLine DEF EmitForm

LEMMA EndForm ==
    ASSUME frames # <<>>, NEW s \in E!Symbol, E!Return(s)
    PROVE  EndsCall
BY FrameFacts DEF E!Return, EndsCall

LEMMA TakenForm ==
    ASSUME EmitSetting, NEW kinds, E!Returned(kinds), E!TakeKid
    PROVE  SetsCall
<1> PICK f : f = [Cur EXCEPT !.at = Cur.at + 1]
    OBVIOUS
<1>1. /\ frames # <<>> /\ Cur.at + 1 \in 1 .. Len(Parts(Cur.term))
      /\ E!Kid = Parts(Cur.term)[Cur.at + 1] /\ E!Kid \in TermAt /\ symbol[E!Kid] \in E!Symbol
    BY KidGiven
<1>2. Cur \in Emission /\ Given(Cur, symbol) /\ Cur.at \in Nat
    BY <1>1, CurCall
<1>3. f = [term |-> Cur.term, at |-> Cur.at + 1, result |-> Cur.result, label |-> Cur.label]
    <2> PICK r, t, a, e, l : r = Cur /\ t = Cur.term /\ a = Cur.at /\ e = Cur.result /\ l = Cur.label
        OBVIOUS
    <2>1. r = [term |-> t, at |-> a, result |-> e, label |-> l]
        BY <1>2, EmissionFacts
    <2>2. [r EXCEPT !.at = a + 1] = [term |-> t, at |-> a + 1, result |-> e, label |-> l]
        BY ONLY <2>1
    <2> QED  BY <2>2
<1>4. f.term = Cur.term /\ f.at = Cur.at + 1
    BY <1>3
<1>5. f \in Emission
    <2> PICK S : S = E!Symbol \cup {NULL}
        OBVIOUS
    <2>1. Cur.term \in TermAt /\ Cur.at + 1 \in Nat /\ Cur.result \in S /\ Cur.label \in Nat
        BY <1>2, EmissionFacts
    <2>2. f \in [term : TermAt, at : Nat, result : S, label : Nat]
        BY ONLY <1>3, <2>1
    <2> QED  BY <2>2 DEF Emission
<1>6. Given(f, symbol)
    <2>1. f.at <= Len(Parts(f.term))
        BY <1>1, <1>4
    <2>2. ASSUME NEW i \in 1 .. f.at
          PROVE  \/ Kind(f.term) = "application" /\ i = 1
                 \/ Parts(f.term)[i] \in TermAt /\ symbol[Parts(f.term)[i]] \in E!Symbol
        <3>1. CASE i = Cur.at + 1
            BY <1>1, <1>4, <3>1
        <3>2. CASE i # Cur.at + 1
            <4>1. i \in 1 .. Cur.at
                BY <1>2, <1>4, <3>2
            <4> QED  BY <1>2, <1>4, <4>1 DEF Given
        <3> QED  BY <3>1, <3>2
    <2> QED  BY <2>1, <2>2 DEF Given
<1>7. frames' = [frames EXCEPT ![1] = f] /\ symbol' = symbol
    <2>1. frames[1] = Cur
        <3> PICK R : frames \in Seq(R)
            BY DEF EmitSetting, EmitterOK
        <3> QED  BY <1>1, PopFacts DEF Cur
    <2>2. frames' = [frames EXCEPT ![1].at = @ + 1] /\ symbol' = symbol
        BY DEF E!TakeKid
    <2> QED  BY <2>1, <2>2
<1> QED  BY <1>1, <1>5, <1>6, <1>7 DEF SetsCall

LEMMA TermParts ==
    ASSUME program \in Programs, NEW t \in TermAt
    PROVE  /\ program.terms[t].value \in Int
           /\ Kind(t) = "binary" => program.terms[t].op \in BinaryOp
           /\ \A i \in 1 .. Len(Names(t)) : Names(t)[i] # NULL => Names(t)[i] \in identifier
<1>1. Shaped(program.terms[t])
    BY BackendAssumption DEF WellFormed, TermAt
<1>2. program.terms[t] \in Term
    <2> PICK S : S = Term
        OBVIOUS
    <2>1. program.terms \in Seq(S) /\ t \in DOMAIN program.terms
        BY ProgramFacts DEF TermAt
    <2> QED  BY <2>1
<1>3. program.terms[t].value \in Int
    BY <1>2 DEF Term
<1>4. Kind(t) = "binary" => program.terms[t].op \in BinaryOp
    BY <1>1 DEF Shaped, Kind
<1>5. ASSUME NEW i \in 1 .. Len(Names(t)), Names(t)[i] # NULL PROVE Names(t)[i] \in identifier
    <2> PICK I : I = identifier \cup {NULL}
        OBVIOUS
    <2>1. Names(t) \in Seq(I)
        BY <1>2 DEF Term, Names
    <2>2. Names(t)[i] \in I
        BY <2>1
    <2> QED  BY <1>5, <2>2
<1> QED  BY <1>3, <1>4, <1>5

\* A call ends, when a line has been written.
LEMMA WriteAndEnd ==
    ASSUME EmitSetting, frames # <<>>, NEW line \in E!Line, E!Write(<<line>>),
           NEW s \in E!Symbol, E!Return(s), E!Same, max' \in Counter
    PROVE  EmitForm
<1>1. lines' = lines \o <<line>>
    BY DEF E!Write
<1> QED  BY <1>1, LineWritten, EndForm, SameForm DEF EmitSetting

LEMMA NewLocalIn ==
    ASSUME EmitSetting
    PROVE  /\ E!NewLocal \in E!Symbol /\ max \in Counter
           /\ max' = max => max' \in Counter
           /\ max' = [max EXCEPT !.local = @ + 1] => max' \in Counter
<1>1. max \in Counter
    BY DEF EmitSetting, EmitterOK
<1>2. max.local \in Nat /\ 0 \in Nat
    BY <1>1, CounterSet
<1>3. [max EXCEPT !.local = @ + 1] \in Counter
    BY <1>1, <1>2, CounterSet
<1>4. max.local + 1 \in Nat
    BY <1>2
<1> QED  BY <1>1, <1>3, <1>4, SymbolsMade DEF E!NewLocal

LEMMA ReturnForms ==
    ASSUME EmitSetting
    PROVE  /\ E!EmitKid => EmitForm
           /\ E!EmitReturnUnit => EmitForm
           /\ E!EmitReturn => EmitForm
<1>0. Setting /\ EmitterOK /\ {"ret"} \subseteq LineOp
    BY DEF EmitSetting, LineOp
<1>1. ASSUME E!EmitKid PROVE EmitForm
    <2>1. /\ frames # <<>> /\ Cur.at < Len(Parts(Cur.term))
          /\ frames' = <<E!Frame(E!Kid)>> \o frames
          /\ E!Same /\ lines' = lines /\ max' = max /\ symbol' = symbol
        BY <1>1, CallsFacts DEF E!EmitKid
    <2>2. Cur.at + 1 \in 1 .. Len(Parts(Cur.term))
        BY <2>1, CurCall
    <2>3. E!Kid \in TermAt
        BY <2>1, <2>2, CurCall, FrameFacts
    <2>4. BeginsCall
        BY <2>1, <2>3 DEF BeginsCall
    <2> QED  BY <1>0, <2>1, <2>4, SilentForm
<1>2. ASSUME E!EmitReturnUnit PROVE EmitForm
    <2> PICK line : line = E!Op("ret", E!Top.term)
        OBVIOUS
    <2>1. /\ frames # <<>> /\ max' = max /\ E!Same
          /\ E!Write(<<line>>) /\ E!Return(E!Indeterminate)
        BY <1>2, CallsFacts DEF E!EmitReturnUnit
    <2>2. line \in E!Line
        <3>1. E!Top.term \in Nat
            BY <2>1, CurCall, FrameFacts
        <3>2. <<>> \in Seq(E!Symbol) /\ <<>> \in Seq(Nat) /\ 0 \in Int
            OBVIOUS
        <3> QED  BY <1>0, <3>1, <3>2, IdentifierFacts, OpLine, Zenon
    <2> QED  BY <2>1, <2>2, SymbolsMade, NewLocalIn, WriteAndEnd
<1>3. ASSUME E!EmitReturn PROVE EmitForm
    <2> PICK s, from : s = [symbol[E!Kid] EXCEPT !.space = "type"] /\ from = <<s>>
        OBVIOUS
    <2> PICK line : line = [E!Op("ret", E!Top.term) EXCEPT !.from = from]
        OBVIOUS
    <2>1. /\ E!Returned({"return"}) /\ max' = max /\ E!Same
          /\ E!Write(<<line>>) /\ E!Return(symbol[E!Kid])
        BY <1>3 DEF E!EmitReturn
    <2>2. frames # <<>> /\ symbol[E!Kid] \in E!Symbol
        BY <2>1, KidGiven
    <2>3. from \in Seq(E!Symbol)
        BY <2>2, SymbolAs, Singles
    <2>4. line \in E!Line
        <3>1. E!Top.term \in Nat
            BY <2>2, CurCall, FrameFacts
        <3>2. <<>> \in Seq(E!Symbol) /\ <<>> \in Seq(Nat) /\ 0 \in Int
            OBVIOUS
        <3> QED  BY <1>0, <2>3, <3>1, <3>2, IdentifierFacts, OpLine, Zenon
    <2> QED  BY <2>1, <2>2, <2>4, NewLocalIn, WriteAndEnd
<1> QED  BY <1>1, <1>2, <1>3

LEMMA LeafForms ==
    ASSUME EmitSetting
    PROVE  /\ E!EmitBoolean => EmitForm
           /\ E!EmitConstant => EmitForm
           /\ E!EmitStructure => EmitForm
           /\ E!EmitVar => EmitForm
           /\ E!EmitBlock => EmitForm
           /\ E!TakeEmitted => EmitForm
           /\ E!NotImplemented => EmitForm
<1>0. Setting /\ EmitterOK /\ program \in Programs
    BY DEF EmitSetting, Setting
<1>1. ASSUME E!EmitBoolean PROVE EmitForm
    <2> PICK to, value, line : /\ to = <<E!NewLocal, E!Garbage>> /\ value = E!This.value
                               /\ line = E!CopyNumber(to, value, E!Top.term)
        OBVIOUS
    <2>1. /\ E!Complete({"boolean"}) /\ max' = [max EXCEPT !.local = @ + 1] /\ E!Same
          /\ E!Write(<<line>>) /\ E!Return(E!NewLocal)
        BY <1>1 DEF E!EmitBoolean
    <2>2. frames # <<>> /\ Cur.term \in TermAt /\ E!Top.term = Cur.term /\ E!Top.term \in Nat
        BY <2>1, AllGiven
    <2>3. value \in Int /\ to \in Seq(E!Symbol)
        BY <1>0, <2>2, TermParts, FrameFacts, NewLocalIn, SymbolsMade, Doubles
    <2>4. line \in E!Line
        BY <2>2, <2>3, LineForms
    <2> QED  BY <2>1, <2>2, <2>4, NewLocalIn, WriteAndEnd
<1>2. ASSUME E!EmitConstant PROVE EmitForm
    <2> PICK to, value, line : /\ to = <<E!NewLocal>> /\ value = E!This.value
                               /\ line = E!CopyNumber(to, value, E!Top.term)
        OBVIOUS
    <2>1. /\ E!Complete({"constant"}) /\ max' = [max EXCEPT !.local = @ + 1] /\ E!Same
          /\ E!Write(<<line>>) /\ E!Return(E!NewLocal)
        BY <1>2 DEF E!EmitConstant
    <2>2. frames # <<>> /\ Cur.term \in TermAt /\ E!Top.term = Cur.term /\ E!Top.term \in Nat
        BY <2>1, AllGiven
    <2>3. value \in Int /\ to \in Seq(E!Symbol)
        BY <1>0, <2>2, TermParts, FrameFacts, NewLocalIn, Singles
    <2>4. line \in E!Line
        BY <2>2, <2>3, LineForms
    <2> QED  BY <2>1, <2>2, <2>4, NewLocalIn, WriteAndEnd
<1>3. ASSUME E!EmitStructure PROVE EmitForm
    <2>1. E!Turn({"structure"}) /\ E!Same /\ lines' = lines
        BY <1>3 DEF E!EmitStructure
    <2>2. frames # <<>>
        BY <2>1, TurnFacts
    <2>3. max \in Counter /\ max.global \in Nat /\ max.global + 1 \in Nat
          /\ [max EXCEPT !.global = @ + 1] \in Counter
        <3>1. max \in Counter /\ 0 \in Nat
            BY <1>0 DEF EmitterOK
        <3>2. max.global \in Nat /\ [max EXCEPT !.global = @ + 1] \in Counter
            BY <3>1, CounterSet
        <3> QED  BY <3>1, <3>2
    <2>4. /\ max' \in Counter
          /\ E!Return(E!Indeterminate) \/ E!Return(E!Data(max.global + 1))
        BY <1>3, <2>3 DEF E!EmitStructure
    <2>5. EndsCall
        BY <2>2, <2>3, <2>4, SymbolsMade, EndForm
    <2> QED  BY <1>0, <2>1, <2>4, <2>5, NoLine, SameForm
<1>4. ASSUME E!EmitVar PROVE EmitForm
    <2>1. /\ E!Complete({"var"}) /\ E!Return(E!idToSymbol(E!This.names[1])) /\ E!Same
          /\ lines' = lines /\ max' = max
        BY <1>4 DEF E!EmitVar
    <2>2. frames # <<>> /\ Cur.term \in TermAt /\ Kind(Cur.term) = "var"
        BY <2>1, AllGiven
    <2>3. 1 \in 1 .. Len(Names(Cur.term)) /\ Names(Cur.term)[1] # NULL
        BY <1>0, <2>2, NamesFacts
    <2>4. E!This.names[1] \in identifier
        BY <1>0, <2>2, <2>3, TermParts, FrameFacts DEF Names
    <2>5. EndsCall
        BY <2>1, <2>2, <2>4, IdentifierFacts, EndForm
    <2> QED  BY <1>0, <2>1, <2>5, SilentForm
<1>5. ASSUME E!EmitBlock PROVE EmitForm
    <2>1. /\ E!Complete({"block"}) /\ E!Same /\ lines' = lines /\ max' = max
          /\ \/ E!Return(E!Indeterminate)
             \/ Len(E!This.kids) > Len(E!This.names) /\ E!Return(E!Value(Len(E!This.kids)))
        BY <1>5 DEF E!EmitBlock
    <2>2. frames # <<>> /\ Cur.term \in TermAt /\ Kind(Cur.term) = "block"
          /\ Cur.at = Len(Parts(Cur.term)) /\ Len(E!This.kids) = Cur.at
        BY <2>1, AllGiven, FrameFacts DEF Parts
    <2>3. CASE E!Return(E!Indeterminate)
        <3>1. EndsCall
            BY <2>2, <2>3, SymbolsMade, EndForm
        <3> QED  BY <1>0, <2>1, <3>1, SilentForm
    <2>4. CASE Len(E!This.kids) > Len(E!This.names) /\ E!Return(E!Value(Len(E!This.kids)))
        <3>1. Len(Names(Cur.term)) \in Nat /\ E!This.names = Names(Cur.term) /\ Cur.at \in Nat
            BY <1>0, <2>2, NamesFacts, CurCall, FrameFacts DEF Names
        <3>2. Cur.at \in 1 .. Cur.at
            BY <2>2, <2>4, <3>1
        <3>3. E!Value(Cur.at) \in E!Symbol
            BY <2>2, <3>2, PartGiven
        <3>4. EndsCall
            BY <2>2, <2>4, <3>3, EndForm
        <3> QED  BY <1>0, <2>1, <3>4, SilentForm
    <2> QED  BY <2>1, <2>3, <2>4
<1>6. ASSUME E!TakeEmitted PROVE EmitForm
    <2>1. E!TakeKid /\ E!Same /\ lines' = lines /\ max' = max
          /\ \E kinds : E!Returned(kinds)
        BY <1>6 DEF E!TakeEmitted
    <2>2. SetsCall
        BY <2>1, TakenForm
    <2> QED  BY <1>0, <2>1, <2>2, SilentForm
<1>7. E!NotImplemented => EmitForm
    BY <1>0, StopForm DEF E!NotImplemented
<1> QED  BY <1>1, <1>2, <1>3, <1>4, <1>5, <1>6, <1>7

\* A call has made its temporary, and is at the part `at`.
LEMMA MadeForm ==
    ASSUME EmitSetting, frames # <<>>, NEW at \in Nat, NEW label \in Nat,
           \/ at = Cur.at
           \/ at = 1 /\ Kind(Cur.term) = "application" /\ Len(Parts(Cur.term)) > 0,
           frames' = [frames EXCEPT ![1] = [term |-> Cur.term, at |-> at,
                                            result |-> E!NewLocal, label |-> label]],
           symbol' = symbol
    PROVE  SetsCall
<1> PICK f : f = [term |-> Cur.term, at |-> at, result |-> E!NewLocal, label |-> label]
    OBVIOUS
<1>1. f.term = Cur.term /\ f.at = at
    OBVIOUS
<1>2. Cur.term \in TermAt /\ E!NewLocal \in E!Symbol /\ Len(Parts(Cur.term)) \in Nat
    BY CurCall, NewLocalIn
<1>3. f \in Emission
    <2> PICK S : S = E!Symbol \cup {NULL}
        OBVIOUS
    <2>1. E!NewLocal \in S /\ at \in Nat
        BY <1>2
    <2>2. f \in [term : TermAt, at : Nat, result : S, label : Nat]
        BY <1>2, <2>1
    <2> QED  BY <2>2 DEF Emission
<1>4. Given(f, symbol)
    <2>1. CASE at = Cur.at
        BY <1>1, <2>1, CurCall DEF Given
    <2>2. CASE at = 1 /\ Kind(Cur.term) = "application" /\ Len(Parts(Cur.term)) > 0
        <3>1. f.at <= Len(Parts(f.term))
            BY <1>1, <1>2, <2>2
        <3>2. \A i \in 1 .. f.at : Kind(f.term) = "application" /\ i = 1
            BY <1>1, <2>2
        <3> QED  BY <3>1, <3>2 DEF Given
    <2> QED  BY <2>1, <2>2
<1> QED  BY <1>3, <1>4 DEF SetsCall

\* The records of the frames of an operator and of a call, once made.
LEMMA MadeFrame ==
    ASSUME EmitSetting, frames # <<>>, NEW n
    PROVE  /\ [frames EXCEPT ![1].result = E!NewLocal, ![1].label = n] =
                [frames EXCEPT ![1] = [term |-> Cur.term, at |-> Cur.at,
                                       result |-> E!NewLocal, label |-> n]]
           /\ [frames EXCEPT ![1].result = E!NewLocal, ![1].at = n] =
                [frames EXCEPT ![1] = [term |-> Cur.term, at |-> n,
                                       result |-> E!NewLocal, label |-> Cur.label]]
<1> PICK R : R = Emission
    OBVIOUS
<1> PICK r, t, a, e, l, s : /\ r = Cur /\ t = Cur.term /\ a = Cur.at /\ e = Cur.result
                            /\ l = Cur.label /\ s = E!NewLocal
    OBVIOUS
<1>1. r = [term |-> t, at |-> a, result |-> e, label |-> l]
    BY CurCall, EmissionFacts
<1>2. frames \in Seq(R)
    BY DEF EmitSetting, EmitterOK
<1>3. frames[1] = r /\ Len(frames) \in Nat \ {0}
    BY <1>2, PopFacts DEF Cur
<1>4. 1 \in DOMAIN frames
    BY ONLY <1>2, <1>3
<1>5. [r EXCEPT !.result = s, !.label = n] = [term |-> t, at |-> a, result |-> s, label |-> n]
    <2> PICK q : q = [r EXCEPT !.result = s]
        OBVIOUS
    <2>1. q = [term |-> t, at |-> a, result |-> s, label |-> l]
        BY <1>1
    <2>2. [q EXCEPT !.label = n] = [term |-> t, at |-> a, result |-> s, label |-> n]
        BY ONLY <2>1
    <2> QED  BY <2>2
<1>6. [r EXCEPT !.result = s, !.at = n] = [term |-> t, at |-> n, result |-> s, label |-> l]
    <2> PICK q : q = [r EXCEPT !.result = s]
        OBVIOUS
    <2>1. q = [term |-> t, at |-> a, result |-> s, label |-> l]
        BY <1>1
    <2>2. [q EXCEPT !.at = n] = [term |-> t, at |-> n, result |-> s, label |-> l]
        BY ONLY <2>1
    <2> QED  BY <2>2
<1>7. [frames EXCEPT ![1].result = s, ![1].label = n] =
        [frames EXCEPT ![1] = [r EXCEPT !.result = s, !.label = n]]
    BY ONLY <1>2, <1>3, <1>4
<1>8. [frames EXCEPT ![1].result = s, ![1].at = n] =
        [frames EXCEPT ![1] = [r EXCEPT !.result = s, !.at = n]]
    BY ONLY <1>2, <1>3, <1>4
<1> QED  BY <1>5, <1>6, <1>7, <1>8

LEMMA EnterForms ==
    ASSUME EmitSetting
    PROVE  /\ E!EnterBinary => EmitForm
           /\ E!EnterCall => EmitForm
<1>0. Setting /\ EmitterOK /\ program \in Programs /\ max \in Counter
    BY DEF EmitSetting, Setting, EmitterOK
<1>1. ASSUME E!EnterBinary PROVE EmitForm
    <2> PICK n : n = IF E!This.op \in E!Logical THEN 4 ELSE 0
        OBVIOUS
    <2>1. /\ E!Turn({"binary"}) /\ E!Top.result = NULL /\ E!Same
          /\ frames' = [frames EXCEPT ![1].result = E!NewLocal, ![1].label = max.label]
          /\ max' = [max EXCEPT !.local = @ + 1, !.label = @ + n]
          /\ symbol' = symbol /\ lines' = lines
        BY <1>1 DEF E!EnterBinary
    <2>2. frames # <<>> /\ Kind(Cur.term) = "binary"
        BY <2>1, TurnFacts
    <2>3. n \in Nat
        OBVIOUS
    <2>4. max.label \in Nat /\ max' \in Counter
        BY <1>0, <2>1, <2>3, CounterSet
    <2>5. Cur.at \in Nat
        BY <2>2, CurCall
    <2>6. SetsCall
        BY <2>1, <2>2, <2>4, <2>5, MadeFrame, MadeForm
    <2> QED  BY <1>0, <2>1, <2>4, <2>6, NoLine, SameForm
<1>2. ASSUME E!EnterCall PROVE EmitForm
    <2>1. /\ E!Turn({"application"}) /\ E!Same
          /\ frames' = [frames EXCEPT ![1].result = E!NewLocal, ![1].at = 1]
          /\ max' = [max EXCEPT !.local = @ + 1]
          /\ symbol' = symbol /\ lines' = lines
        BY <1>2 DEF E!EnterCall
    <2>2. frames # <<>> /\ Kind(Cur.term) = "application"
        BY <2>1, TurnFacts
    <2>3. Len(Parts(Cur.term)) > 0 /\ Cur.label \in Nat
        BY <1>0, <2>2, CurCall, TermFacts
    <2> PICK one : one = 1
        OBVIOUS
    <2>4. frames' = [frames EXCEPT ![1] = [term |-> Cur.term, at |-> one,
                                           result |-> E!NewLocal, label |-> Cur.label]]
        BY <2>1, <2>2, MadeFrame
    <2>5. one \in Nat /\ one = 1
        OBVIOUS
    <2>6. SetsCall
        BY <2>1, <2>2, <2>3, <2>4, <2>5, MadeForm
    <2> QED  BY <1>0, <2>1, <2>6, NoLine, NewLocalIn, SameForm
<1> QED  BY <1>1, <1>2

LEMMA ManyLines ==
    ASSUME NEW text \in Seq(E!Line), E!Write(text)
    PROVE  \E t \in Seq(E!Line) : lines' = lines \o t
BY DEF E!Write

LEMMA SevenLines ==
    ASSUME NEW L, NEW a \in L, NEW b \in L, NEW c \in L, NEW d \in L, NEW e \in L, NEW f \in L,
           NEW g \in L
    PROVE  <<a, b, c, d, e, f, g>> \in Seq(L)
OBVIOUS

\* The labels of a logical operator.
LEMMA LabelsIn ==
    ASSUME EmitSetting, frames # <<>>
    PROVE  /\ E!bLabel \in Nat /\ E!falseLabel \in Nat /\ E!trueLabel \in Nat /\ E!endLabel \in Nat
           /\ E!Top.term = Cur.term /\ Cur.term \in Nat
<1>1. Cur.label \in Nat /\ Cur.term \in Nat
    BY CurCall
<1> QED  BY <1>1, FrameFacts DEF E!bLabel, E!falseLabel, E!trueLabel, E!endLabel

LEMMA OperatorEmits ==
    ASSUME EmitSetting
    PROVE  /\ E!EmitLeft => EmitForm
           /\ E!EmitLogical => EmitForm
           /\ E!EmitOperator => EmitForm
<1>0. Setting /\ EmitterOK /\ program \in Programs
    BY DEF EmitSetting, Setting
<1>1. ASSUME E!EmitLeft PROVE EmitForm
    <2> PICK jump, text : /\ jump = (IF E!This.op = "and"
                                     THEN E!Branch(symbol[E!Kid], E!bLabel, E!falseLabel, E!Top.term)
                                     ELSE E!Branch(symbol[E!Kid], E!trueLabel, E!bLabel, E!Top.term))
                          /\ text = <<jump, E!Label(E!bLabel, E!Top.term)>>
        OBVIOUS
    <2>1. E!Returned({"binary"}) /\ E!Write(text) /\ E!TakeKid /\ E!Same /\ max' = max
        BY <1>1 DEF E!EmitLeft
    <2>2. frames # <<>> /\ symbol[E!Kid] \in E!Symbol
        BY <2>1, KidGiven
    <2>3. jump \in E!Line /\ E!Label(E!bLabel, E!Top.term) \in E!Line
        BY <2>2, LabelsIn, LineForms
    <2>4. text \in Seq(E!Line)
        BY <2>3, Doubles
    <2>5. SetsCall
        BY <2>1, TakenForm
    <2> QED  BY <1>0, <2>1, <2>4, <2>5, ManyLines, NewLocalIn, SameForm
<1>2. ASSUME E!EmitLogical PROVE EmitForm
    <2> PICK result : result = IF E!This.op = "and" THEN <<E!Garbage>> ELSE <<E!Top.result>>
        OBVIOUS
    <2> PICK text : text = E!LogicalLines(result)
        OBVIOUS
    <2>1. E!Complete({"binary"}) /\ E!Write(text) /\ E!Return(E!Top.result) /\ E!Same /\ max' = max
        BY <1>2 DEF E!EmitLogical
    <2>2. /\ frames # <<>> /\ Kind(Cur.term) = "binary" /\ Cur.at = Len(Parts(Cur.term))
          /\ Cur.result \in E!Symbol /\ E!Top.result = Cur.result /\ Cur.term \in TermAt
        BY <2>1, AllGiven
    <2>3. E!Value(2) \in E!Symbol
        <3>0. Len(Parts(Cur.term)) = 2
            BY <1>0, <2>2, TermFacts
        <3>1. 2 \in 1 .. Cur.at
            BY <2>2, <3>0
        <3> QED  BY <2>2, <3>1, PartGiven
    <2>4. result \in Seq(E!Symbol)
        BY <2>2, SymbolsMade, Singles
    <2>5. text \in Seq(E!Line)
        <3> PICK a, b, c, d, e, f, g :
                /\ a = E!Branch(E!Value(2), E!trueLabel, E!falseLabel, E!Top.term)
                /\ b = E!Label(E!falseLabel, E!Top.term)
                /\ c = E!CopyNumber(result, 0, E!Top.term)
                /\ d = E!Jump(E!endLabel, E!Top.term)
                /\ e = E!Label(E!trueLabel, E!Top.term)
                /\ f = E!CopyNumber(result, 1, E!Top.term)
                /\ g = E!Label(E!endLabel, E!Top.term)
            OBVIOUS
        <3>1. text = <<a, b, c, d, e, f, g>>
            BY DEF E!LogicalLines
        <3>2. a \in E!Line /\ b \in E!Line /\ d \in E!Line /\ e \in E!Line /\ g \in E!Line
            BY <2>2, <2>3, LabelsIn, LineForms
        <3>3. 0 \in Int /\ 1 \in Int
            OBVIOUS
        <3>4. c \in E!Line /\ f \in E!Line
            BY <2>2, <2>4, <3>3, LabelsIn, LineForms
        <3> QED  BY ONLY <3>1, <3>2, <3>4, SevenLines
    <2>6. EndsCall
        BY <2>1, <2>2, EndForm
    <2> QED  BY <1>0, <2>1, <2>5, <2>6, ManyLines, NewLocalIn, SameForm
<1>3. ASSUME E!EmitOperator PROVE EmitForm
    <2> PICK to, from : to = <<E!Top.result, E!Garbage>> /\ from = <<E!Value(1), E!Value(2)>>
        OBVIOUS
    <2> PICK line : line = [E!Op(E!This.op, E!Top.term) EXCEPT !.to = to, !.from = from]
        OBVIOUS
    <2>1. E!Complete({"binary"}) /\ E!Write(<<line>>) /\ E!Return(E!Top.result) /\ E!Same /\ max' = max
        BY <1>3 DEF E!EmitOperator
    <2>2. /\ frames # <<>> /\ Kind(Cur.term) = "binary" /\ Cur.at = Len(Parts(Cur.term))
          /\ Cur.result \in E!Symbol /\ E!Top.result = Cur.result /\ Cur.term \in TermAt
          /\ E!Top.term \in Nat
        BY <2>1, AllGiven
    <2>3. E!Value(1) \in E!Symbol /\ E!Value(2) \in E!Symbol
        <3>0. Len(Parts(Cur.term)) = 2
            BY <1>0, <2>2, TermFacts
        <3>1. 1 \in 1 .. Cur.at /\ 2 \in 1 .. Cur.at
            BY <2>2, <3>0
        <3> QED  BY <2>2, <3>1, PartGiven
    <2>4. to \in Seq(E!Symbol) /\ from \in Seq(E!Symbol)
        BY <2>2, <2>3, SymbolsMade, Doubles
    <2>5. E!This.op \in LineOp
        BY <1>0, <2>2, TermParts, FrameFacts DEF LineOp
    <2>6. line \in E!Line
        <3>1. <<>> \in Seq(Nat) /\ 0 \in Int
            OBVIOUS
        <3> QED  BY ZenonT(30), <2>2, <2>4, <2>5, <3>1, IdentifierFacts, OpLine
    <2> QED  BY <2>1, <2>2, <2>6, NewLocalIn, WriteAndEnd
<1> QED  BY <1>1, <1>2, <1>3

\* What a name is declared with, or assigned.
LEMMA DeclarationForm ==
    ASSUME EmitSetting, frames # <<>>, NEW name \in identifier, NEW value,
           symbol[value] \in E!Symbol, NEW step \in BOOLEAN,
           step => EndsCall \/ SetsCall,
           \/ step /\ E!Same /\ lines' = lines /\ max' = max
           \/ E!Fatal
           \/ /\ E!Write(<<E!Copy(E!idToSymbol(name), symbol[value], E!Top.term)>>)
              /\ max' = [max EXCEPT !.struct = @ + E!CountStructs(<<E!TypeOf(value)>>)]
              /\ step /\ E!Same
    PROVE  EmitForm
<1>0. Setting /\ EmitterOK /\ program \in Programs /\ max \in Counter
    BY DEF EmitSetting, Setting, EmitterOK
<1>1. CASE step /\ E!Same /\ lines' = lines /\ max' = max
    BY <1>0, <1>1, SilentForm
<1>2. CASE E!Fatal
    BY <1>0, <1>2, StopForm
<1>3. CASE /\ E!Write(<<E!Copy(E!idToSymbol(name), symbol[value], E!Top.term)>>)
           /\ max' = [max EXCEPT !.struct = @ + E!CountStructs(<<E!TypeOf(value)>>)]
           /\ step /\ E!Same
    <2> PICK line, n : /\ line = E!Copy(E!idToSymbol(name), symbol[value], E!Top.term)
                       /\ n = E!CountStructs(<<E!TypeOf(value)>>)
        OBVIOUS
    <2>1. line \in E!Line
        BY LabelsIn, IdentifierFacts, LineForms
    <2>2. n \in Nat
        BY CountOne
    <2>3. max' \in Counter
        BY <1>0, <1>3, <2>2, CounterSet
    <2>4. \E text \in Seq(E!Line) : lines' = lines \o text
        BY <1>3, <2>1, LineWritten DEF E!Write
    <2> QED  BY <1>0, <1>3, <2>3, <2>4, SameForm
<1> QED  BY <1>1, <1>2, <1>3

LEMMA NamedForms ==
    ASSUME EmitSetting
    PROVE  /\ E!EmitAssignment => EmitForm
           /\ E!EmitLocal => EmitForm
<1>0. Setting /\ EmitterOK /\ program \in Programs
    BY DEF EmitSetting, Setting
<1>1. ASSUME E!EmitAssignment PROVE EmitForm
    <2> PICK name, value : name = program.terms[E!This.kids[2]].names[1] /\ value = E!Kid
        OBVIOUS
    <2>1. E!Returned({"assignment"})
        BY <1>1 DEF E!EmitAssignment
    <2>2. frames # <<>> /\ Kind(Cur.term) = "assignment" /\ symbol[value] \in E!Symbol
        BY <2>1, KidGiven
    <2>3. name \in identifier
        <3> PICK t : t = Parts(Cur.term)[2]
            OBVIOUS
        <3>1. t \in TermAt /\ 1 \in DOMAIN Names(t) /\ Names(t)[1] # NULL
            BY <1>0, <2>2, CurCall, LvalueFacts
        <3>2. 1 \in 1 .. Len(Names(t))
            BY <1>0, <3>1, NamesFacts
        <3>3. Names(t)[1] \in identifier
            BY <1>0, <3>1, <3>2, TermParts
        <3>4. name = Names(t)[1]
            BY FrameFacts DEF Parts, Names
        <3> QED  BY <3>3, <3>4
    <2> DEFINE step == E!Return(E!Indeterminate)
    <2>4. step => EndsCall
        BY <2>2, SymbolsMade, EndForm
    <2>5. \/ step /\ E!Same /\ lines' = lines /\ max' = max
          \/ E!Fatal
          \/ /\ E!Write(<<E!Copy(E!idToSymbol(name), symbol[value], E!Top.term)>>)
             /\ max' = [max EXCEPT !.struct = @ + E!CountStructs(<<E!TypeOf(value)>>)]
             /\ step /\ E!Same
        BY <1>1 DEF E!EmitAssignment, E!EmitDeclaration, E!Require
    <2>6. step \in BOOLEAN
        BY DEF E!Return
    <2> HIDE DEF step
    <2> QED  BY <2>2, <2>3, <2>4, <2>5, <2>6, DeclarationForm
<1>2. ASSUME E!EmitLocal PROVE EmitForm
    <2> PICK name, value : name = E!This.names[E!Top.at + 1] /\ value = E!Kid
        OBVIOUS
    <2>1. E!Returned({"block"}) /\ E!Top.at < Len(E!This.names) /\ name # NULL
        BY <1>2 DEF E!EmitLocal
    <2>2. frames # <<>> /\ symbol[value] \in E!Symbol
        BY <2>1, KidGiven
    <2>3. name \in identifier
        <3>1. Cur.at \in Nat /\ Cur.term \in TermAt /\ E!This.names = Names(Cur.term) /\ E!Top.at = Cur.at
            BY <2>2, CurCall, FrameFacts DEF Names
        <3>2. Cur.at + 1 \in 1 .. Len(Names(Cur.term))
            BY <1>0, <2>1, <3>1, NamesFacts
        <3> QED  BY <1>0, <2>1, <3>1, <3>2, TermParts
    <2> DEFINE step == E!TakeKid
    <2>4. step => SetsCall
        BY <2>1, TakenForm
    <2>5. \/ step /\ E!Same /\ lines' = lines /\ max' = max
          \/ E!Fatal
          \/ /\ E!Write(<<E!Copy(E!idToSymbol(name), symbol[value], E!Top.term)>>)
             /\ max' = [max EXCEPT !.struct = @ + E!CountStructs(<<E!TypeOf(value)>>)]
             /\ step /\ E!Same
        BY <1>2 DEF E!EmitLocal, E!EmitDeclaration, E!Require
    <2>6. step \in BOOLEAN
        BY DEF E!TakeKid
    <2> HIDE DEF step
    <2> QED  BY <2>2, <2>3, <2>4, <2>5, <2>6, DeclarationForm
<1> QED  BY <1>1, <1>2

-----------------------------------------------------------------------------
(* Calls and declarations. *)

\* The sequences that proper is, one for each kid.
ProperTo(f, kids) ==
    /\ f = [i \in DOMAIN kids |-> f[i]]
    /\ \A i \in DOMAIN kids :
        f[i] = IF i = 1 THEN <<>>
               ELSE IF E!IsUnit(kids[i]) THEN f[i - 1] ELSE Append(f[i - 1], kids[i])

\* As far as the n-th kid.
ProperUpTo(f, kids, n) ==
    /\ f = [i \in 1 .. n |-> f[i]]
    /\ \A i \in 1 .. n :
        f[i] = IF i = 1 THEN <<>>
               ELSE IF E!IsUnit(kids[i]) THEN f[i - 1] ELSE Append(f[i - 1], kids[i])

LEMMA ProperExists ==
    ASSUME NEW kids, NEW n \in Nat
    PROVE  \E f : ProperUpTo(f, kids, n)
<1> SUFFICES ASSUME ~\E f : ProperUpTo(f, kids, n) PROVE FALSE
    OBVIOUS
<1> PICK S : S = {k \in 0 .. n : ~\E f : ProperUpTo(f, kids, k)}
    OBVIOUS
<1>1. S \in SUBSET Nat /\ n \in S
    OBVIOUS
<1>2. PICK m \in S : \A k \in S : m <= k
    BY <1>1, FirstOf
<1>3. m # 0
    <2> SUFFICES ASSUME m = 0 PROVE FALSE
        OBVIOUS
    <2> PICK f : f = [i \in 1 .. 0 |-> <<>>]
        OBVIOUS
    <2>1. ProperUpTo(f, kids, 0)
        BY DEF ProperUpTo
    <2> QED  BY <1>2, <2>1
<1>4. m \in 1 .. n /\ m - 1 \in 0 .. n /\ m - 1 \notin S
    BY <1>1, <1>2, <1>3
<1>5. PICK f : ProperUpTo(f, kids, m - 1)
    BY <1>4
<1> PICK last : last = IF m = 1 THEN <<>>
                       ELSE IF E!IsUnit(kids[m]) THEN f[m - 1] ELSE Append(f[m - 1], kids[m])
    OBVIOUS
<1> PICK g : g = [i \in 1 .. m |-> IF i = m THEN last ELSE f[i]]
    OBVIOUS
<1>6. g = [i \in 1 .. m |-> g[i]]
    OBVIOUS
<1>7. ASSUME NEW i \in 1 .. m
      PROVE  g[i] = IF i = 1 THEN <<>>
                    ELSE IF E!IsUnit(kids[i]) THEN g[i - 1] ELSE Append(g[i - 1], kids[i])
    <2>1. i # 1 => i - 1 \in 1 .. m /\ g[i - 1] = f[i - 1]
        BY <1>4
    <2>2. CASE i = m
        <3>1. g[i] = last
            BY <2>2
        <3> QED  BY <2>1, <2>2, <3>1
    <2>3. CASE i # m
        <3>1. g[i] = f[i] /\ i \in 1 .. m - 1
            BY <1>4, <2>3
        <3> QED  BY <1>5, <2>1, <3>1 DEF ProperUpTo
    <2> QED  BY <2>2, <2>3
<1>8. ProperUpTo(g, kids, m)
    BY <1>6, <1>7 DEF ProperUpTo
<1> QED  BY <1>2, <1>8

LEMMA ProperIs ==
    ASSUME NEW S, NEW kids \in Seq(S)
    PROVE  \E f : ProperTo(f, kids) /\ E!Proper(kids) = f[Len(kids)]
<1> DEFINE Like(f) == f = [i \in DOMAIN kids |->
                            IF i = 1 THEN <<>>
                            ELSE IF E!IsUnit(kids[i]) THEN f[i - 1] ELSE Append(f[i - 1], kids[i])]
           proper == CHOOSE f : Like(f)
<1>1. DOMAIN kids = 1 .. Len(kids) /\ Len(kids) \in Nat
    OBVIOUS
<1>2. PICK e : ProperUpTo(e, kids, Len(kids))
    BY <1>1, ProperExists
<1>3. ProperTo(e, kids)
    BY <1>1, <1>2 DEF ProperUpTo, ProperTo
<1>4. ASSUME NEW f PROVE Like(f) <=> ProperTo(f, kids)
    <2> DEFINE F == [i \in DOMAIN kids |->
                        IF i = 1 THEN <<>>
                        ELSE IF E!IsUnit(kids[i]) THEN f[i - 1] ELSE Append(f[i - 1], kids[i])]
    <2>1. ASSUME NEW i \in DOMAIN kids
          PROVE  F[i] = IF i = 1 THEN <<>>
                        ELSE IF E!IsUnit(kids[i]) THEN f[i - 1] ELSE Append(f[i - 1], kids[i])
        OBVIOUS
    <2>2. F = [i \in DOMAIN kids |-> F[i]]
        BY <2>1
    <2>3. Like(f) <=> f = F
        OBVIOUS
    <2> HIDE DEF F, Like
    <2>4. ASSUME f = F PROVE ProperTo(f, kids)
        BY <2>1, <2>2, <2>4 DEF ProperTo
    <2>5. ASSUME ProperTo(f, kids) PROVE f = F
        <3>1. f = [i \in DOMAIN kids |-> f[i]] /\ \A i \in DOMAIN kids : f[i] = F[i]
            BY <2>1, <2>5 DEF ProperTo
        <3> QED  BY <2>2, <3>1
    <2> QED  BY <2>3, <2>4, <2>5
<1>5. E!Proper(kids) = proper[Len(kids)]
    BY DEF E!Proper
<1> HIDE DEF Like
<1>6. Like(proper)
    BY <1>3, <1>4
<1> HIDE DEF proper
<1> QED  BY <1>4, <1>5, <1>6

\* They are among the arguments.
LEMMA ProperFacts ==
    ASSUME NEW S, NEW kids \in Seq(S), kids # <<>>, NEW A, \A i \in 2 .. Len(kids) : kids[i] \in A
    PROVE  E!Proper(kids) \in Seq(A)
<1>1. PICK f : ProperTo(f, kids) /\ E!Proper(kids) = f[Len(kids)]
    BY ProperIs
<1>2. DOMAIN kids = 1 .. Len(kids) /\ Len(kids) \in Nat \ {0}
    OBVIOUS
<1> PICK W : W = {i \in 1 .. Len(kids) : f[i] \notin Seq(A)}
    OBVIOUS
<1>3. W = {}
    <2> SUFFICES ASSUME W # {} PROVE FALSE
        OBVIOUS
    <2>1. W \in SUBSET Nat
        OBVIOUS
    <2>2. PICK m \in W : \A k \in W : m <= k
        BY <2>1, FirstOf
    <2>3. m \in 1 .. Len(kids) /\ f[m] \notin Seq(A)
        BY <2>2
    <2>4. f[m] = IF m = 1 THEN <<>>
                 ELSE IF E!IsUnit(kids[m]) THEN f[m - 1] ELSE Append(f[m - 1], kids[m])
        BY <1>1, <1>2, <2>3 DEF ProperTo
    <2>5. CASE m = 1
        BY <2>3, <2>4, <2>5
    <2>6. CASE m # 1
        <3>1. m \in 2 .. Len(kids) /\ m - 1 \in 1 .. Len(kids) /\ m - 1 \notin W
            BY <1>2, <2>2, <2>3, <2>6
        <3>2. f[m - 1] \in Seq(A) /\ kids[m] \in A
            BY <3>1
        <3>3. Append(f[m - 1], kids[m]) \in Seq(A)
            BY <3>2
        <3> QED  BY <2>3, <2>4, <2>6, <3>2, <3>3
    <2> QED  BY <2>5, <2>6
<1>4. Len(kids) \in 1 .. Len(kids)
    BY <1>2
<1> QED  BY <1>1, <1>3, <1>4

LEMMA ImageSeq ==
    ASSUME NEW A, NEW p \in Seq(A), NEW B, NEW f, f = [i \in DOMAIN p |-> f[i]],
           \A i \in 1 .. Len(p) : f[i] \in B
    PROVE  f \in Seq(B)
<1>1. DOMAIN p = 1 .. Len(p) /\ Len(p) \in Nat
    OBVIOUS
<1>2. f \in [1 .. Len(p) -> B]
    BY <1>1
<1> QED  BY <1>1, <1>2

LEMMA CallLine ==
    ASSUME NEW of \in Nat, NEW to \in Seq(E!Symbol), NEW from \in Seq(E!Symbol), NEW name \in identifier
    PROVE  [E!Op("call", of) EXCEPT !.to = to, !.from = from, !.name = name] \in E!Line
<1>1. PICK op \in LineOp : op = "call"
    BY DEF LineOp
<1>2. <<>> \in Seq(Nat)
    OBVIOUS
<1> PICK none : none = <<>>
    OBVIOUS
<1>3. PICK zero \in Int : zero = 0
    OBVIOUS
<1>4. none \in Seq(Nat)
    BY <1>2
<1>5. [E!Op(op, of) EXCEPT !.to = to, !.from = from, !.name = name] \in E!Line
    BY ONLY OpLine, op \in LineOp, of \in Nat, to \in Seq(E!Symbol), from \in Seq(E!Symbol),
            <1>4, name \in identifier, zero \in Int, Zenon
<1> QED  BY <1>1, <1>5

LEMMA CallEmits ==
    ASSUME EmitSetting, E!EmitCall
    PROVE  EmitForm
<1>0. Setting /\ EmitterOK /\ program \in Programs /\ max \in Counter
    BY DEF EmitSetting, Setting, EmitterOK
<1> PICK p, from, to, name, n :
        /\ p = E!Proper(E!This.kids)
        /\ from = [i \in DOMAIN E!Proper(E!This.kids) |-> symbol[E!Proper(E!This.kids)[i]]]
        /\ to = (IF E!IsUnit(E!Top.term) THEN <<>> ELSE <<E!Top.result>>)
        /\ name = E!toString(program.terms[E!This.kids[1]])
        /\ n = E!CountStructs(E!Written)
    OBVIOUS
<1> PICK line : line = [E!Op("call", E!Top.term) EXCEPT !.to = to, !.from = from, !.name = name]
    BY Zenon
<1>1. /\ E!Complete({"application"})
      /\ \/ E!Fatal
         \/ /\ E!Write(<<line>>) /\ max' = [max EXCEPT !.struct = @ + n]
            /\ E!Return(E!Top.result) /\ E!Same
    BY DEF E!EmitCall, E!Require
<1>2. /\ frames # <<>> /\ Kind(Cur.term) = "application" /\ Cur.at = Len(Parts(Cur.term))
      /\ Cur.result \in E!Symbol /\ E!Top.result = Cur.result /\ Cur.term \in TermAt
      /\ E!Top.term = Cur.term /\ E!Top.term \in Nat
    BY <1>1, AllGiven
<1> PICK kids : kids = Parts(Cur.term)
    OBVIOUS
<1>3. kids = E!This.kids /\ kids \in Seq(Nat \cup {NULL}) /\ Len(kids) \in Nat /\ Len(kids) > 0
    BY <1>0, <1>2, TermFacts, FrameFacts, Zenon DEF Parts
<1> PICK A : A = {t \in TermAt : symbol[t] \in E!Symbol}
    OBVIOUS
<1>4. p \in Seq(A)
    <2>1. ASSUME NEW i \in 2 .. Len(kids) PROVE kids[i] \in A
        <3>1. i \in 1 .. Cur.at /\ i # 1
            BY <1>2, <1>3
        <3> QED  BY <1>2, <3>1, PartGiven
    <2>2. kids # <<>>
        BY <1>3
    <2> QED  BY <1>3, <2>1, <2>2, ProperFacts
<1>5. from \in Seq(E!Symbol)
    <2>1. from = [i \in DOMAIN p |-> symbol[p[i]]]
        OBVIOUS
    <2>2. DOMAIN p = 1 .. Len(p) /\ \A i \in 1 .. Len(p) : p[i] \in A
        BY <1>4
    <2>3. \A i \in 1 .. Len(p) : from[i] \in E!Symbol
        BY <2>1, <2>2
    <2>4. from = [i \in DOMAIN p |-> from[i]]
        BY <2>1
    <2> QED  BY ONLY <1>4, <2>3, <2>4, ImageSeq
<1>6. to \in Seq(E!Symbol)
    BY <1>2, Singles
<1>7. name \in identifier
    <2> PICK t : t = kids[1]
        OBVIOUS
    <2>1. t \in TermAt
        <3>1. 1 \in 1 .. Len(kids)
            BY <1>3
        <3> QED  BY <1>2, <3>1, CurCall
    <2>2. name = IF Kind(t) = "var" /\ ~Names(t)[1].isAuto THEN Names(t)[1] ELSE E!NoName
        BY <1>3 DEF E!toString, Kind, Names
    <2>3. Kind(t) = "var" => Names(t)[1] \in identifier
        <3>1. Kind(t) = "var" => 1 \in 1 .. Len(Names(t)) /\ Names(t)[1] # NULL
            BY <1>0, <2>1, NamesFacts
        <3> QED  BY <1>0, <2>1, <3>1, TermParts
    <2> QED  BY <2>2, <2>3, IdentifierFacts
<1>8. line \in E!Line
    <2> PICK of : of = E!Top.term
        OBVIOUS
    <2>1. of \in Nat
        BY <1>2
    <2>2. [E!Op("call", of) EXCEPT !.to = to, !.from = from, !.name = name] \in E!Line
        BY ONLY <1>5, <1>6, <1>7, <2>1, CallLine
    <2> QED  BY <2>2
<1>9. n \in Nat
    <2> PICK B : B = {E!TypeOf(t) : t \in TermAt}
        OBVIOUS
    <2> PICK a, b : /\ a = [i \in DOMAIN p |-> E!TypeOf(p[i])]
                    /\ b = IF E!IsUnit(E!Top.term) THEN <<>> ELSE <<E!TypeOf(E!Top.term)>>
        OBVIOUS
    <2>1. DOMAIN p = 1 .. Len(p) /\ \A i \in 1 .. Len(p) : p[i] \in TermAt
        <3>1. DOMAIN p = 1 .. Len(p) /\ \A i \in 1 .. Len(p) : p[i] \in A
            BY <1>4
        <3> QED  BY <3>1
    <2>2. \A i \in 1 .. Len(p) : a[i] \in B
        BY <2>1
    <2>3. a = [i \in DOMAIN p |-> a[i]]
        OBVIOUS
    <2>4. a \in Seq(B)
        BY <1>4, <2>2, <2>3, ImageSeq
    <2>5. E!TypeOf(E!Top.term) \in B
        BY <1>2
    <2>6. b \in Seq(B)
        BY <2>5, Singles
    <2> PICK w : w = E!Written
        OBVIOUS
    <2>7. w = a \o b
        BY DEF E!Written
    <2>8. w \in Seq(B)
        BY ONLY <2>4, <2>6, <2>7
    <2> QED  BY <2>8, CountFacts
<1>10. CASE E!Fatal
    BY <1>0, <1>10, StopForm
<1>11. CASE /\ E!Write(<<line>>) /\ max' = [max EXCEPT !.struct = @ + n]
            /\ E!Return(E!Top.result) /\ E!Same
    <2>1. max' \in Counter
        BY <1>0, <1>9, <1>11, CounterSet
    <2> QED  BY <1>2, <1>8, <1>11, <2>1, WriteAndEnd
<1> QED  BY <1>1, <1>10, <1>11

\* The declaration that comes next.
LEMMA NextDeclFacts ==
    ASSUME EmitSetting, E!AtDecl
    PROVE  /\ status = "typed" /\ frames = <<>> /\ emitted + 1 \in DOMAIN program.decls
           /\ emitted + 1 \in 0 .. Len(program.decls)
           /\ E!NextDecl.name \in identifier
           /\ E!IsFunction => E!Body \in TermAt
<1>0. Setting /\ EmitterOK /\ program \in Programs
    BY DEF EmitSetting, Setting
<1>1. status = "typed" /\ frames = <<>> /\ emitted < Len(program.decls)
    BY DEF E!AtDecl
<1>2. emitted + 1 \in DOMAIN program.decls /\ emitted + 1 \in 0 .. Len(program.decls)
    BY <1>0, <1>1, ProgramFacts DEF EmitterOK
<1> PICK d : d = program.decls[emitted + 1]
    OBVIOUS
<1>3. E!NextDecl = d
    BY DEF E!NextDecl
<1>4. d.name \in identifier
    <2> PICK D, I : D = Declaration /\ I = identifier
        OBVIOUS
    <2>1. program.decls \in Seq(D)
        BY <1>0, ProgramFacts
    <2>2. d \in D
        BY <1>2, <2>1
    <2>3. D = [name : I, type : Nat \cup {NULL}, exp : Nat \cup {NULL}]
        BY DEF Declaration
    <2> QED  BY <2>2, <2>3
<1>5. ASSUME E!IsFunction PROVE E!Body \in TermAt
    <2>1. d.exp # NULL /\ Kind(d.exp) = "function" /\ E!Body = Parts(d.exp)[1]
        BY <1>3, <1>5 DEF E!IsFunction, E!Body, Kind, Parts
    <2>2. d.exp \in Roots
        BY <1>2, <2>1 DEF Roots
    <2>3. PICK W \in SUBSET TermAt : Closed(W) /\ Roots \subseteq W
        BY <1>0 DEF Setting, Checked
    <2>4. d.exp \in W /\ d.exp \in TermAt
        BY <2>2, <2>3
    <2>5. 1 \in DOMAIN Parts(d.exp)
        BY <1>0, <2>1, <2>4, TermFacts
    <2> QED  BY <2>1, <2>3, <2>4, <2>5 DEF Closed
<1> QED  BY <1>1, <1>2, <1>3, <1>4, <1>5

LEMMA DeclEmits ==
    ASSUME EmitSetting
    PROVE  /\ E!SkipDecl => EmitForm
           /\ E!StartFunction => EmitForm
           /\ E!FinishFunction => EmitForm
           /\ E!Finish => EmitForm
<1>0. Setting /\ EmitterOK /\ program \in Programs /\ max \in Counter
    BY DEF EmitSetting, Setting, EmitterOK
<1>1. ASSUME E!SkipDecl PROVE EmitForm
    <2>1. /\ E!AtDecl /\ emitted' = emitted + 1 /\ UNCHANGED <<program, heap, typed, declType>>
          /\ frames' = frames /\ symbol' = symbol /\ lines' = lines /\ max' = max
        BY <1>1 DEF E!SkipDecl, E!Typed
    <2>2. emitted' \in 0 .. Len(program.decls)
        BY <2>1, NextDeclFacts
    <2> QED  BY <1>0, <2>1, <2>2, NoLine DEF EmitForm
<1>2. ASSUME E!StartFunction PROVE EmitForm
    <2> PICK name, t, n, line :
            /\ name = E!NextDecl.name /\ t = E!Body
            /\ n = (IF E!isUnitType(E!ResultType) THEN 0 ELSE E!CountStructs(<<E!ResultType>>))
            /\ line = [E!Op("function", 0) EXCEPT !.name = name]
        OBVIOUS
    <2>1. /\ E!AtDecl /\ E!IsFunction
          /\ \/ E!Fatal
             \/ /\ E!Write(<<line>>) /\ max' = [max EXCEPT !.struct = @ + n]
                /\ frames' = <<E!Frame(t)>> /\ symbol' = symbol /\ E!Same
        BY <1>2 DEF E!StartFunction, E!Require
    <2>2. name \in identifier /\ t \in TermAt /\ frames = <<>>
        BY <2>1, NextDeclFacts
    <2>3. n \in Nat
        <3>1. E!CountStructs(<<E!ResultType>>) \in Nat
            BY CountOne
        <3> QED  BY <3>1
    <2>4. line \in E!Line
        <3>1. "function" \in LineOp /\ <<>> \in Seq(Nat) /\ <<>> \in Seq(E!Symbol) /\ 0 \in Int /\ 0 \in Nat
            BY DEF LineOp
        <3> QED  BY <2>2, <3>1, OpLine, Zenon
    <2>5. CASE E!Fatal
        BY <1>0, <2>5, StopForm
    <2>6. CASE /\ E!Write(<<line>>) /\ max' = [max EXCEPT !.struct = @ + n]
               /\ frames' = <<E!Frame(t)>> /\ symbol' = symbol /\ E!Same
        <3>1. max' \in Counter
            BY <1>0, <2>3, <2>6, CounterSet
        <3>2. \E text \in Seq(E!Line) : lines' = lines \o text
            BY <2>4, <2>6, LineWritten DEF E!Write
        <3>3. BeginsCall
            <4> PICK e : e = E!Frame(t)
                OBVIOUS
            <4>1. <<e>> \o <<>> = <<e>>
                OBVIOUS
            <4>2. frames' = <<E!Frame(t)>> \o frames
                BY <2>2, <2>6, <4>1
            <4> QED  BY <2>2, <2>6, <4>2 DEF BeginsCall
        <3> QED  BY <1>0, <2>6, <3>1, <3>2, <3>3, SameForm
    <2> QED  BY <2>1, <2>5, <2>6
<1>3. ASSUME E!FinishFunction PROVE EmitForm
    <2> PICK from, line, end :
            /\ from = (IF E!isUnitType(E!ResultType) THEN <<>> ELSE <<symbol[E!Body]>>)
            /\ line = [E!Op("ret", 0) EXCEPT !.from = from] /\ end = E!Op("end", 0)
        OBVIOUS
    <2>1. /\ E!AtDecl /\ E!IsFunction /\ symbol[E!Body] # NULL
          /\ E!Write(<<line, end>>) /\ emitted' = emitted + 1
          /\ UNCHANGED <<program, heap, typed, declType>>
          /\ frames' = frames /\ symbol' = symbol /\ max' = max
        BY <1>3 DEF E!FinishFunction, E!Typed
    <2>2. E!Body \in TermAt /\ emitted' \in 0 .. Len(program.decls)
        BY <2>1, NextDeclFacts
    <2>3. symbol[E!Body] \in E!Symbol
        BY <1>0, <2>1, <2>2 DEF EmitterOK
    <2>4. from \in Seq(E!Symbol)
        BY <2>3, Singles
    <2>5. line \in E!Line /\ end \in E!Line
        <3>1. /\ {"ret", "end"} \subseteq LineOp /\ <<>> \in Seq(Nat) /\ <<>> \in Seq(E!Symbol)
              /\ 0 \in Int /\ 0 \in Nat
            BY DEF LineOp
        <3> QED  BY <2>4, <3>1, IdentifierFacts, OpLine, Zenon
    <2>6. \E text \in Seq(E!Line) : lines' = lines \o text
        BY <2>1, <2>5, Doubles, ManyLines
    <2> QED  BY <1>0, <2>1, <2>2, <2>6 DEF EmitForm
<1>4. ASSUME E!Finish PROVE EmitForm
    <2>1. /\ emitted' = emitted /\ UNCHANGED <<program, heap, typed, declType>>
          /\ frames' = frames /\ symbol' = symbol /\ lines' = lines /\ max' = max
        BY <1>4 DEF E!Finish, E!Typed
    <2> QED  BY <1>0, <2>1, NoLine DEF EmitForm, EmitterOK
<1> QED  BY <1>1, <1>2, <1>3, <1>4

LEMMA EmitterForm ==
    ASSUME EmitSetting, E!Next
    PROVE  EmitForm
<1>1. E!EmitKid \/ E!EmitReturnUnit \/ E!EmitReturn \/ E!EmitBoolean \/ E!EmitConstant
        \/ E!EmitStructure \/ E!EmitVar => EmitForm
    BY ReturnForms, LeafForms
<1>2. E!EnterBinary \/ E!EmitLeft \/ E!EmitLogical \/ E!EmitOperator => EmitForm
    BY EnterForms, OperatorEmits
<1>3. E!TakeEmitted \/ E!EmitAssignment \/ E!EmitLocal \/ E!EmitBlock => EmitForm
    BY LeafForms, NamedForms
<1>4. E!EnterCall \/ E!EmitCall \/ E!NotImplemented => EmitForm
    BY EnterForms, CallEmits, LeafForms
<1>5. E!SkipDecl \/ E!StartFunction \/ E!FinishFunction \/ E!Finish => EmitForm
    BY DeclEmits
<1> QED  BY <1>1, <1>2, <1>3, <1>4, <1>5 DEF E!Next


-----------------------------------------------------------------------------
(* Tail recursion over any set: a function that goes on with c outside of F *)
(* exists, and its values where the recursion ends are those it comes to.   *)

\* From s the recursion comes to t, by the rules that W is closed under.
ClosedUnder(R, F, c, W) ==
    /\ \A s \in F : <<s, s>> \in W
    /\ \A s \in R \ F, t \in R : <<c[s], t>> \in W => <<s, t>> \in W

ComesTo(R, F, c) ==
    {p \in R \X R : \A W \in SUBSET (R \X R) : ClosedUnder(R, F, c, W) => p \in W}

Continues(R, F, c, f) == f = [s \in R |-> IF s \in F THEN s ELSE f[c[s]]]

LEMMA ComesToIsClosed ==
    ASSUME NEW R, NEW F \in SUBSET R, NEW c \in [R -> R]
    PROVE  ClosedUnder(R, F, c, ComesTo(R, F, c))
<1>1. ASSUME NEW s \in F PROVE <<s, s>> \in ComesTo(R, F, c)
    <2>1. <<s, s>> \in R \X R
        OBVIOUS
    <2>2. ASSUME NEW W \in SUBSET (R \X R), ClosedUnder(R, F, c, W) PROVE <<s, s>> \in W
        BY <2>2 DEF ClosedUnder
    <2> QED  BY <2>1, <2>2 DEF ComesTo
<1>2. ASSUME NEW s \in R \ F, NEW t \in R, <<c[s], t>> \in ComesTo(R, F, c)
      PROVE  <<s, t>> \in ComesTo(R, F, c)
    <2>1. <<s, t>> \in R \X R
        OBVIOUS
    <2>2. ASSUME NEW W \in SUBSET (R \X R), ClosedUnder(R, F, c, W) PROVE <<s, t>> \in W
        <3>1. <<c[s], t>> \in W
            BY <1>2, <2>2 DEF ComesTo
        <3> QED  BY <2>2, <3>1 DEF ClosedUnder
    <2> QED  BY <2>1, <2>2 DEF ComesTo
<1> QED  BY <1>1, <1>2 DEF ClosedUnder

\* What is closed under the rules holds wherever the recursion comes to.
LEMMA ComesToInduction ==
    ASSUME NEW R, NEW F \in SUBSET R, NEW c \in [R -> R],
           NEW W \in SUBSET (R \X R), ClosedUnder(R, F, c, W),
           NEW s, NEW t, <<s, t>> \in ComesTo(R, F, c)
    PROVE  <<s, t>> \in W
BY DEF ComesTo

LEMMA ComesToInverts ==
    ASSUME NEW R, NEW F \in SUBSET R, NEW c \in [R -> R],
           NEW s, NEW t, <<s, t>> \in ComesTo(R, F, c)
    PROVE  /\ s \in R /\ t \in F
           /\ s \in F => t = s
           /\ s \notin F => <<c[s], t>> \in ComesTo(R, F, c)
<1> DEFINE G == ComesTo(R, F, c)
<1> DEFINE W == {p \in R \X R : p[2] \in F /\ (p[1] \in F => p[2] = p[1])
                                /\ (p[1] \notin F => <<c[p[1]], p[2]>> \in G)}
<1>1. W \in SUBSET (R \X R)
    OBVIOUS
<1>2. ASSUME NEW u \in F PROVE <<u, u>> \in W
    OBVIOUS
<1>3. W \subseteq G
    <2> SUFFICES ASSUME NEW p \in W PROVE p \in G
        OBVIOUS
    <2>1. PICK a \in R, b \in R : p = <<a, b>>
        OBVIOUS
    <2>2. b \in F /\ (a \in F => b = a) /\ (a \notin F => <<c[a], b>> \in G)
        BY <2>1
    <2>3. ClosedUnder(R, F, c, G)
        BY ComesToIsClosed
    <2> HIDE DEF G, W
    <2> QED  BY <2>1, <2>2, <2>3 DEF ClosedUnder
<1>4. ASSUME NEW u \in R \ F, NEW v \in R, <<c[u], v>> \in W PROVE <<u, v>> \in W
    <2>1. <<c[u], v>> \in G
        BY <1>3, <1>4
    <2>2. v \in F
        BY <1>4
    <2> HIDE DEF G
    <2> QED  BY <2>1, <2>2
<1>5. ClosedUnder(R, F, c, W)
    <2> HIDE DEF W
    <2> QED  BY <1>2, <1>4 DEF ClosedUnder
<1>6. <<s, t>> \in W
    <2> HIDE DEF W
    <2> QED  BY <1>1, <1>5, ComesToInduction
<1> QED  BY <1>6

LEMMA ComesToNothingElse ==
    ASSUME NEW R, NEW F \in SUBSET R, NEW c \in [R -> R],
           NEW s \in F, NEW t, <<s, t>> \in ComesTo(R, F, c)
    PROVE  t = s
<1> DEFINE W == {p \in R \X R : p[1] \in F => p[2] = p[1]}
<1>1. W \in SUBSET (R \X R) /\ (\A a \in F : <<a, a>> \in W)
    OBVIOUS
<1>2. ASSUME NEW a \in R \ F, NEW b \in R PROVE <<a, b>> \in W
    OBVIOUS
<1>3. ClosedUnder(R, F, c, W)
    <2> HIDE DEF W
    <2> QED  BY <1>1, <1>2 DEF ClosedUnder
<1>4. <<s, t>> \in W
    <2> HIDE DEF W
    <2> QED  BY <1>1, <1>3, ComesToInduction
<1> QED  BY <1>4

LEMMA ComesToOne ==
    ASSUME NEW R, NEW F \in SUBSET R, NEW c \in [R -> R],
           NEW s, NEW t, <<s, t>> \in ComesTo(R, F, c),
           NEW u, <<s, u>> \in ComesTo(R, F, c)
    PROVE  t = u
<1> DEFINE G == ComesTo(R, F, c)
<1> DEFINE W == {p \in R \X R : \A v \in R : <<p[1], v>> \in G => v = p[2]}
<1>1. ASSUME NEW a \in F PROVE <<a, a>> \in W
    <2>1. ASSUME NEW v \in R, <<a, v>> \in G PROVE v = a
        <3>1. <<a, v>> \in ComesTo(R, F, c)
            BY <2>1
        <3> QED  BY <3>1, ComesToNothingElse
    <2> HIDE DEF G
    <2> QED  BY <2>1
<1>2. ASSUME NEW a \in R \ F, NEW b \in R, <<c[a], b>> \in W PROVE <<a, b>> \in W
    <2>1. ASSUME NEW v \in R, <<a, v>> \in G PROVE v = b
        <3>1. <<c[a], v>> \in G
            BY <2>1, ComesToInverts
        <3> HIDE DEF G
        <3> QED  BY <1>2, <3>1
    <2> HIDE DEF G
    <2> QED  BY <2>1
<1>3. ClosedUnder(R, F, c, W)
    <2> HIDE DEF W
    <2> QED  BY <1>1, <1>2 DEF ClosedUnder
<1>4. W \in SUBSET (R \X R)
    OBVIOUS
<1>5. <<s, t>> \in W
    <2> HIDE DEF W
    <2> QED  BY <1>3, <1>4, ComesToInduction
<1>6. u \in R
    BY DEF ComesTo
<1> QED  BY <1>5, <1>6

LEMMA ContinuationExists ==
    ASSUME NEW R, NEW F \in SUBSET R, NEW c \in [R -> R]
    PROVE  \E f : Continues(R, F, c, f)
<1> DEFINE G == ComesTo(R, F, c)
<1> DEFINE HasEnd(s) == \E t \in R : <<s, t>> \in G
<1> DEFINE f == [s \in R |-> IF HasEnd(s) THEN CHOOSE t \in R : <<s, t>> \in G ELSE R]
<1>1. ASSUME NEW s, NEW t, <<s, t>> \in G PROVE HasEnd(s) /\ f[s] = t /\ s \in R
    <2>1. s \in R /\ t \in R
        BY <1>1 DEF ComesTo
    <2>2. \A u \in R : <<s, u>> \in G => u = t
        BY <1>1, ComesToOne
    <2> HIDE DEF G
    <2> QED  BY <1>1, <2>1, <2>2
<1>2. ASSUME NEW s \in R PROVE f[s] = IF s \in F THEN s ELSE f[c[s]]
    <2>1. CASE s \in F
        <3>1. <<s, s>> \in G
            BY <2>1, ComesToIsClosed DEF ClosedUnder
        <3> HIDE DEF G, f
        <3> QED  BY <1>1, <2>1, <3>1
    <2>2. CASE s \notin F /\ HasEnd(s)
        <3>1. PICK t \in R : <<s, t>> \in G
            BY <2>2
        <3>2. <<c[s], t>> \in G
            BY <2>2, <3>1, ComesToInverts
        <3> HIDE DEF G, f
        <3> QED  BY <1>1, <2>2, <3>1, <3>2
    <2>3. CASE s \notin F /\ ~HasEnd(s)
        <3>1. c[s] \in R
            OBVIOUS
        <3>2. ~HasEnd(c[s])
            <4> SUFFICES ASSUME NEW t \in R, <<c[s], t>> \in G PROVE FALSE
                OBVIOUS
            <4>1. <<s, t>> \in G
                BY <2>3, ComesToIsClosed DEF ClosedUnder
            <4> QED  BY <2>3, <4>1
        <3> HIDE DEF G, HasEnd
        <3> QED  BY <2>3, <3>1, <3>2
    <2> QED  BY <2>1, <2>2, <2>3
<1>3. f = [s \in R |-> f[s]]
    OBVIOUS
<1> HIDE DEF f
<1>4. Continues(R, F, c, f)
    BY <1>2, <1>3 DEF Continues
<1> QED  BY <1>4

\* Where the recursion ends, all such functions have the value it ends with.
LEMMA ContinuationIs ==
    ASSUME NEW R, NEW F \in SUBSET R, NEW c \in [R -> R], NEW f, Continues(R, F, c, f),
           NEW s, NEW t, <<s, t>> \in ComesTo(R, F, c)
    PROVE  f[s] = t
<1> DEFINE W == {p \in R \X R : f[p[1]] = p[2]}
<1>1. ASSUME NEW a \in R PROVE f[a] = IF a \in F THEN a ELSE f[c[a]]
    BY DEF Continues
<1>2. ASSUME NEW a \in F PROVE <<a, a>> \in W
    BY <1>1
<1>3. ASSUME NEW a \in R \ F, NEW b \in R, <<c[a], b>> \in W PROVE <<a, b>> \in W
    BY <1>1, <1>3
<1>4. ClosedUnder(R, F, c, W)
    <2> HIDE DEF W
    <2> QED  BY <1>2, <1>3 DEF ClosedUnder
<1>5. W \in SUBSET (R \X R)
    OBVIOUS
<1>6. <<s, t>> \in W
    <2> HIDE DEF W
    <2> QED  BY <1>4, <1>5, ComesToInduction
<1> QED  BY <1>6

-----------------------------------------------------------------------------
(* The types, as a graph of those that stand for themselves. *)

Nodes(h) == DOMAIN h.type

PartsAt(h, n) == h.type[n].parts

Typed(types) ==
    /\ types \in Seq(Type)
    /\ \A n \in DOMAIN types : \A i \in DOMAIN types[n].parts : types[n].parts[i].type \in DOMAIN types

\* Only a variable stands for another type, and that stands for itself.
HeapOK(h) ==
    /\ h = [type |-> h.type, is |-> h.is]
    /\ Typed(h.type)
    /\ h.is \in [Nodes(h) -> Nodes(h)]
    /\ \A n \in Nodes(h) :
        /\ h.is[h.is[n]] = h.is[n]
        /\ h.is[n] # n => h.type[n].kind = "var"

StandAlone(h) == {n \in Nodes(h) : h.is[n] = n}

Succ(h, n) == {h.is[PartsAt(h, n)[i].type] : i \in DOMAIN PartsAt(h, n)}

\* No set of types leads back into itself from each of its members.
Founded(h) == \A S \in SUBSET StandAlone(h) : S # {} => \E n \in S : Succ(h, n) \cap S = {}

LEMMA TypedFacts ==
    ASSUME NEW types, Typed(types)
    PROVE  /\ DOMAIN types = 1 .. Len(types) /\ Len(types) \in Nat
           /\ \A n \in DOMAIN types :
                /\ types[n] \in Type
                /\ DOMAIN types[n].parts = 1 .. Len(types[n].parts) /\ Len(types[n].parts) \in Nat
                /\ \A i \in DOMAIN types[n].parts : types[n].parts[i].type \in DOMAIN types
<1> PICK T1 : T1 = Type
    OBVIOUS
<1>1. types \in Seq(T1)
    BY DEF Typed
<1>2. DOMAIN types = 1 .. Len(types) /\ Len(types) \in Nat /\ \A n \in DOMAIN types : types[n] \in T1
    BY <1>1
<1>3. ASSUME NEW n \in DOMAIN types
      PROVE  DOMAIN types[n].parts = 1 .. Len(types[n].parts) /\ Len(types[n].parts) \in Nat
    <2>1. types[n].parts \in Seq([name : Text, type : Nat \ {0}])
        BY <1>2 DEF Type
    <2> QED  BY <2>1
<1> QED  BY <1>2, <1>3 DEF Typed

\* The types that v is in, as occursIn finds them.
OccursAt(h, v, O) ==
    \A m \in Nodes(h) :
        m \in O <=> h.is[m] = v
                    \/ \E i \in DOMAIN PartsAt(h, h.is[m]) : PartsAt(h, h.is[m])[i].type \in O

LEMMA OccursExists ==
    ASSUME NEW h, HeapOK(h), NEW v
    PROVE  \E O \in SUBSET Nodes(h) : OccursAt(h, v, O)
<1> DEFINE Inner(W) ==
        \A m \in Nodes(h) :
            h.is[m] = v \/ (\E i \in DOMAIN PartsAt(h, h.is[m]) : PartsAt(h, h.is[m])[i].type \in W)
                => m \in W
<1> DEFINE O == {m \in Nodes(h) : \A W \in SUBSET Nodes(h) : Inner(W) => m \in W}
<1>1. O \in SUBSET Nodes(h)
    OBVIOUS
<1>2. Inner(O)
    <2> SUFFICES ASSUME NEW m \in Nodes(h), NEW W \in SUBSET Nodes(h), Inner(W),
                        h.is[m] = v \/ (\E i \in DOMAIN PartsAt(h, h.is[m]) :
                                            PartsAt(h, h.is[m])[i].type \in O)
                 PROVE  m \in W
        OBVIOUS
    <2>1. O \subseteq W
        OBVIOUS
    <2> HIDE DEF O
    <2> QED  BY <2>1
<1> DEFINE P == {m \in O : h.is[m] = v \/ (\E i \in DOMAIN PartsAt(h, h.is[m]) :
                                            PartsAt(h, h.is[m])[i].type \in O)}
<1>3. P \in SUBSET Nodes(h) /\ P \subseteq O
    OBVIOUS
<1>4. Inner(P)
    <2> SUFFICES ASSUME NEW m \in Nodes(h),
                        h.is[m] = v \/ (\E i \in DOMAIN PartsAt(h, h.is[m]) :
                                            PartsAt(h, h.is[m])[i].type \in P)
                 PROVE  m \in P
        OBVIOUS
    <2>1. h.is[m] = v \/ (\E i \in DOMAIN PartsAt(h, h.is[m]) : PartsAt(h, h.is[m])[i].type \in O)
        BY <1>3
    <2>2. m \in O
        <3> HIDE DEF O
        <3> QED  BY <1>2, <2>1
    <2> HIDE DEF O
    <2> QED  BY <2>1, <2>2, Zenon
<1>5. O \subseteq P
    <2> HIDE DEF P
    <2> QED  BY <1>3, <1>4
<1>6. OccursAt(h, v, O)
    <2> SUFFICES ASSUME NEW m \in Nodes(h)
                 PROVE  m \in O <=> h.is[m] = v
                            \/ \E i \in DOMAIN PartsAt(h, h.is[m]) : PartsAt(h, h.is[m])[i].type \in O
        BY DEF OccursAt
    <2>1. m \in O => h.is[m] = v
                        \/ \E i \in DOMAIN PartsAt(h, h.is[m]) : PartsAt(h, h.is[m])[i].type \in O
        <3> HIDE DEF O
        <3> QED  BY <1>5
    <2> HIDE DEF O
    <2> QED  BY <1>2, <2>1
<1> HIDE DEF O
<1> QED  BY <1>1, <1>6

LEMMA OccursIs ==
    ASSUME NEW h, HeapOK(h), NEW v, NEW n \in Nodes(h)
    PROVE  \E O \in SUBSET Nodes(h) : OccursAt(h, v, O) /\ (T!occursIn(h, v, n) <=> n \in O)
<1> DEFINE Like(f) == f = [m \in DOMAIN h.type |->
                            \/ h.is[m] = v
                            \/ \E i \in DOMAIN T!Resolved(h, m).parts :
                                    f[T!Resolved(h, m).parts[i].type]]
<1> DEFINE occurs == CHOOSE f : Like(f)
<1>1. \E f : Like(f)
    <2>1. PICK O \in SUBSET Nodes(h) : OccursAt(h, v, O)
        BY OccursExists
    <2> DEFINE f == [m \in DOMAIN h.type |-> m \in O]
    <2>2. ASSUME NEW m \in DOMAIN h.type
          PROVE  (m \in O) = (\/ h.is[m] = v
                              \/ \E i \in DOMAIN T!Resolved(h, m).parts :
                                    f[T!Resolved(h, m).parts[i].type])
        <3>1. h.is[m] \in Nodes(h)
            BY DEF HeapOK, Nodes
        <3>2. \A i \in DOMAIN PartsAt(h, h.is[m]) : PartsAt(h, h.is[m])[i].type \in DOMAIN h.type
            BY <3>1 DEF HeapOK, Typed, PartsAt, Nodes
        <3>3. \A i \in DOMAIN PartsAt(h, h.is[m]) :
                f[PartsAt(h, h.is[m])[i].type] <=> PartsAt(h, h.is[m])[i].type \in O
            BY <3>2
        <3> HIDE DEF f
        <3>4. m \in O <=> h.is[m] = v
                    \/ \E i \in DOMAIN PartsAt(h, h.is[m]) : PartsAt(h, h.is[m])[i].type \in O
            BY <2>1 DEF OccursAt, Nodes
        <3>5. m \in O <=> h.is[m] = v
                    \/ \E i \in DOMAIN PartsAt(h, h.is[m]) : f[PartsAt(h, h.is[m])[i].type]
            BY <3>3, <3>4
        <3>6. T!Resolved(h, m).parts = PartsAt(h, h.is[m])
            BY DEF PartsAt, T!Resolved
        <3> DEFINE found == \/ h.is[m] = v
                            \/ \E i \in DOMAIN T!Resolved(h, m).parts :
                                    f[T!Resolved(h, m).parts[i].type]
                   at == m \in O
        <3>7. at <=> found
            BY <3>5, <3>6
        <3>8. at \in BOOLEAN /\ found \in BOOLEAN
            OBVIOUS
        <3>9. at = found
            <4> HIDE DEF at, found
            <4> QED  BY <3>7, <3>8
        <3> QED  BY <3>9
    <2>3. f = [m \in DOMAIN h.type |->
                    \/ h.is[m] = v
                    \/ \E i \in DOMAIN T!Resolved(h, m).parts : f[T!Resolved(h, m).parts[i].type]]
        BY <2>2
    <2>4. Like(f)
        <3> HIDE DEF f
        <3> QED  BY <2>3
    <2> HIDE DEF f, Like
    <2> QED  BY <2>4
<1>2. Like(occurs)
    <2> HIDE DEF Like
    <2> QED  BY <1>1
<1>3. T!occursIn(h, v, n) = occurs[n]
    BY DEF T!occursIn
<1> HIDE DEF occurs
<1> DEFINE O == {m \in Nodes(h) : occurs[m]}
<1>4. ASSUME NEW m \in Nodes(h)
      PROVE  occurs[m] <=> h.is[m] = v
                    \/ \E i \in DOMAIN PartsAt(h, h.is[m]) : occurs[PartsAt(h, h.is[m])[i].type]
    BY <1>2, Zenon DEF Nodes, PartsAt, T!Resolved
<1>5. \A m \in Nodes(h) : \A i \in DOMAIN PartsAt(h, h.is[m]) : PartsAt(h, h.is[m])[i].type \in Nodes(h)
    BY DEF HeapOK, Typed, PartsAt, Nodes
<1>6. OccursAt(h, v, O)
    BY <1>4, <1>5 DEF OccursAt
<1>7. O \in SUBSET Nodes(h) /\ (occurs[n] <=> n \in O)
    OBVIOUS
<1> HIDE DEF O
<1> QED  BY <1>3, <1>6, <1>7

Good(h) == HeapOK(h) /\ Founded(h)

FreeVars(h) == {n \in StandAlone(h) : h.type[n].kind = "var"}

\* A variable that comes to stand for a type it does not occur in.
LEMMA InsertionIs ==
    ASSUME NEW h, HeapOK(h), NEW v, NEW n
    PROVE  LET g == T!insertSubstitution(h, v, n)
           IN  /\ g = [type |-> h.type, is |-> g.is] /\ g.type = h.type
               /\ DOMAIN g.is = Nodes(h) /\ Nodes(g) = Nodes(h)
               /\ \A m \in Nodes(h) : g.is[m] = IF h.is[m] = v THEN n ELSE h.is[m]
<1> PICK g : g = T!insertSubstitution(h, v, n)
    OBVIOUS
<1>1. h = [type |-> h.type, is |-> h.is] /\ DOMAIN h.is = Nodes(h)
    BY DEF HeapOK
<1> PICK w : w = [m \in Nodes(h) |-> IF h.is[m] = v THEN n ELSE h.is[m]]
    OBVIOUS
<1>2. g = [h EXCEPT !.is = w]
    BY <1>1 DEF T!insertSubstitution
<1>3. g = [type |-> h.type, is |-> w]
    BY <1>1, <1>2
<1> QED  BY <1>3 DEF Nodes

LEMMA InsertionKeeps ==
    ASSUME NEW h, HeapOK(h), NEW v \in FreeVars(h), NEW n \in StandAlone(h), v # n
    PROVE  LET g == T!insertSubstitution(h, v, n)
           IN  HeapOK(g) /\ FreeVars(g) \subseteq FreeVars(h) \ {v}
<1> DEFINE g == T!insertSubstitution(h, v, n)
<1>1. /\ g = [type |-> h.type, is |-> g.is] /\ g.type = h.type
      /\ DOMAIN g.is = Nodes(h) /\ Nodes(g) = Nodes(h)
      /\ \A m \in Nodes(h) : g.is[m] = IF h.is[m] = v THEN n ELSE h.is[m]
    BY InsertionIs
<1>2. g.is = [m \in Nodes(h) |-> g.is[m]]
    <2> PICK w : w = [m \in Nodes(h) |-> IF h.is[m] = v THEN n ELSE h.is[m]]
        OBVIOUS
    <2>1. g.is = w
        <3>1. h = [type |-> h.type, is |-> h.is] /\ DOMAIN h.is = Nodes(h)
            BY DEF HeapOK
        <3>2. g = [h EXCEPT !.is = w]
            BY <3>1 DEF T!insertSubstitution
        <3> QED  BY <3>1, <3>2
    <2> QED  BY <2>1
<1> HIDE DEF g
<1>3. v \in Nodes(h) /\ h.is[v] = v /\ h.type[v].kind = "var" /\ n \in Nodes(h) /\ h.is[n] = n
    BY DEF FreeVars, StandAlone
<1>4. \A m \in Nodes(h) : h.is[m] \in Nodes(h) /\ h.is[h.is[m]] = h.is[m]
                          /\ (h.is[m] # m => h.type[m].kind = "var")
    BY DEF HeapOK
<1>5. ASSUME NEW m \in Nodes(h)
      PROVE  g.is[m] \in Nodes(h) /\ g.is[g.is[m]] = g.is[m] /\ (g.is[m] # m => h.type[m].kind = "var")
    <2>1. CASE h.is[m] = v
        <3>1. g.is[m] = n /\ g.is[n] = n
            BY <1>1, <1>3, <2>1
        <3> QED  BY <1>3, <1>4, <2>1, <3>1
    <2>2. CASE h.is[m] # v
        <3>1. g.is[m] = h.is[m] /\ g.is[h.is[m]] = h.is[m]
            BY <1>1, <1>4, <2>2
        <3> QED  BY <1>4, <3>1
    <2> QED  BY <2>1, <2>2
<1>6. g.is \in [Nodes(g) -> Nodes(g)]
    BY <1>1, <1>2, <1>5
<1>7. HeapOK(g)
    BY <1>1, <1>5, <1>6 DEF HeapOK
<1>8. ASSUME NEW m \in FreeVars(g) PROVE m \in FreeVars(h) \ {v}
    <2>1. m \in Nodes(h) /\ g.is[m] = m /\ h.type[m].kind = "var"
        BY <1>1 DEF FreeVars, StandAlone
    <2>2. CASE h.is[m] = v
        <3>1. m = n
            BY <1>1, <2>1, <2>2
        <3> QED  BY <1>3, <2>2, <3>1
    <2>3. CASE h.is[m] # v
        <3>1. h.is[m] = m /\ m # v
            BY <1>1, <2>1, <2>3
        <3> QED  BY <2>1, <3>1 DEF FreeVars, StandAlone
    <2> QED  BY <2>2, <2>3
<1> QED  BY <1>7, <1>8 DEF g

LEMMA InsertionFounded ==
    ASSUME NEW h, HeapOK(h), Founded(h), NEW v \in FreeVars(h), NEW n \in StandAlone(h), v # n,
           NEW O \in SUBSET Nodes(h), OccursAt(h, v, O), n \notin O
    PROVE  Founded(T!insertSubstitution(h, v, n))
<1> DEFINE g == T!insertSubstitution(h, v, n)
<1>1. /\ g.type = h.type /\ Nodes(g) = Nodes(h)
      /\ \A m \in Nodes(h) : g.is[m] = IF h.is[m] = v THEN n ELSE h.is[m]
    BY InsertionIs
<1> HIDE DEF g
<1>2. v \in Nodes(h) /\ h.is[v] = v /\ n \in Nodes(h) /\ h.is[n] = n
    BY DEF FreeVars, StandAlone
<1>3. \A m \in Nodes(h) : h.is[m] \in Nodes(h) /\ h.is[h.is[m]] = h.is[m]
    BY DEF HeapOK
<1>4. \A m \in Nodes(h) : \A i \in DOMAIN PartsAt(h, m) : PartsAt(h, m)[i].type \in Nodes(h)
    BY DEF HeapOK, Typed, Nodes, PartsAt
<1>5. SUFFICES ASSUME NEW S \in SUBSET StandAlone(g), S # {}, \A m \in S : Succ(g, m) \cap S # {}
               PROVE  FALSE
    BY DEF Founded, g
<1>6. \A m \in S : m \in Nodes(h) /\ h.is[m] = m /\ m # v
    <2> SUFFICES ASSUME NEW m \in S PROVE m \in Nodes(h) /\ h.is[m] = m /\ m # v
        OBVIOUS
    <2>1. m \in Nodes(h) /\ g.is[m] = m
        BY <1>1 DEF StandAlone
    <2> QED  BY <1>1, <1>2, <2>1
<1>7. ASSUME NEW m \in S
      PROVE  \E i \in DOMAIN PartsAt(h, m) : g.is[PartsAt(h, m)[i].type] \in S
    <2>1. PICK y \in S : y \in Succ(g, m)
        BY <1>5
    <2>2. PartsAt(g, m) = PartsAt(h, m)
        BY <1>1 DEF PartsAt
    <2> QED  BY <2>1, <2>2 DEF Succ
\* What is in O has what leads to it in O.
<1>8. ASSUME NEW m \in S, NEW i \in DOMAIN PartsAt(h, m), h.is[PartsAt(h, m)[i].type] \in O
      PROVE  m \in O
    <2> DEFINE p == PartsAt(h, m)[i].type
    <2>1. p \in Nodes(h) /\ h.is[p] \in Nodes(h) /\ h.is[h.is[p]] = h.is[p]
        BY <1>3, <1>4, <1>6
    <2>2. p \in O
        BY <1>8, <2>1 DEF OccursAt
    <2> QED  BY <1>6, <2>2 DEF OccursAt
<1>9. v \in O
    BY <1>2 DEF OccursAt
<1>10. ASSUME NEW K \in SUBSET S, K # {},
              \A m \in K : \E i \in DOMAIN PartsAt(h, m) : h.is[PartsAt(h, m)[i].type] \in K
       PROVE  FALSE
    <2>1. K \in SUBSET StandAlone(h)
        BY <1>6 DEF StandAlone
    <2>2. PICK m \in K : Succ(h, m) \cap K = {}
        BY <1>10, <2>1 DEF Founded
    <2>3. PICK i \in DOMAIN PartsAt(h, m) : h.is[PartsAt(h, m)[i].type] \in K
        BY <1>10
    <2> QED  BY <2>2, <2>3 DEF Succ
<1>11. CASE S \subseteq O
    <2>1. ASSUME NEW m \in S PROVE \E i \in DOMAIN PartsAt(h, m) : h.is[PartsAt(h, m)[i].type] \in S
        <3>1. PICK i \in DOMAIN PartsAt(h, m) : g.is[PartsAt(h, m)[i].type] \in S
            BY <1>7
        <3>2. g.is[PartsAt(h, m)[i].type] # n
            BY <1>11, <3>1
        <3>3. PartsAt(h, m)[i].type \in Nodes(h)
            BY <1>4, <1>6
        <3> QED  BY <1>1, <3>1, <3>2, <3>3
    <2> QED  BY <1>5, <1>10, <2>1
<1>12. CASE ~(S \subseteq O)
    <2>1. ASSUME NEW m \in S \ O
          PROVE  \E i \in DOMAIN PartsAt(h, m) : h.is[PartsAt(h, m)[i].type] \in S \ O
        <3>1. PICK i \in DOMAIN PartsAt(h, m) : g.is[PartsAt(h, m)[i].type] \in S
            BY <1>7
        <3>2. h.is[PartsAt(h, m)[i].type] \notin O
            BY <1>8
        <3>3. PartsAt(h, m)[i].type \in Nodes(h)
            BY <1>4, <1>6
        <3>4. h.is[PartsAt(h, m)[i].type] # v
            BY <1>9, <3>2
        <3> QED  BY <1>1, <3>1, <3>2, <3>3, <3>4
    <2> DEFINE K == S \ O
    <2>2. K \in SUBSET S /\ K # {}
        BY <1>12
    <2>3. \A m \in K : \E i \in DOMAIN PartsAt(h, m) : h.is[PartsAt(h, m)[i].type] \in K
        BY <2>1
    <2> HIDE DEF K
    <2> QED  BY <1>10, <2>2, <2>3
<1> QED  BY <1>11, <1>12

LEMMA InsertionGood ==
    ASSUME NEW h, Good(h), NEW v \in FreeVars(h), NEW n \in StandAlone(h), v # n,
           ~T!occursIn(h, v, n)
    PROVE  Good(T!insertSubstitution(h, v, n))
<1>1. n \in Nodes(h) /\ HeapOK(h) /\ Founded(h)
    BY DEF Good, StandAlone
<1>2. PICK O \in SUBSET Nodes(h) : OccursAt(h, v, O) /\ (T!occursIn(h, v, n) <=> n \in O)
    BY <1>1, OccursIs
<1>3. HeapOK(T!insertSubstitution(h, v, n))
    BY <1>1, InsertionKeeps
<1>4. Founded(T!insertSubstitution(h, v, n))
    BY <1>1, <1>2, InsertionFounded
<1> QED  BY <1>3, <1>4 DEF Good

-----------------------------------------------------------------------------
(* The steps of constrainTypes. *)

PairsOf(h) == [left : Nodes(h), right : Nodes(h), agree : BOOLEAN]

LEMMA RunningFacts ==
    ASSUME NEW h, Typed(h.type), NEW s \in T!Running(h)
    PROVE  /\ s = [heap |-> s.heap, ok |-> s.ok, todo |-> s.todo]
           /\ s.heap = [type |-> h.type, is |-> s.heap.is] /\ s.heap.type = h.type
           /\ s.heap.is \in [Nodes(h) -> Nodes(h)] /\ Nodes(s.heap) = Nodes(h)
           /\ s.ok \in BOOLEAN /\ s.todo \in Seq(PairsOf(h))
BY DEF T!Running, PairsOf, Nodes

LEMMA RunningIs ==
    ASSUME NEW h, NEW w \in [Nodes(h) -> Nodes(h)], NEW ok \in BOOLEAN, NEW todo \in Seq(PairsOf(h))
    PROVE  [heap |-> [type |-> h.type, is |-> w], ok |-> ok, todo |-> todo] \in T!Running(h)
BY DEF T!Running, PairsOf, Nodes

\* The pairs of parts of two types.
PartsPaired(h, a, b, pairs) ==
    /\ pairs \in Seq(PairsOf(h)) /\ Len(pairs) = Len(h.type[a].parts)
    /\ \A i \in DOMAIN h.type[a].parts :
        /\ pairs[i].left = h.type[a].parts[i].type
        /\ pairs[i].right = h.type[b].parts[i].type
        /\ pairs[i].agree <=> h.type[a].parts[i].name = h.type[b].parts[i].name

LEMMA PartPairsIs ==
    ASSUME NEW h, Typed(h.type), NEW a \in Nodes(h), NEW b \in Nodes(h),
           Len(h.type[a].parts) = Len(h.type[b].parts)
    PROVE  PartsPaired(h, a, b, T!PartPairs(h.type[a], h.type[b]))
<1> PICK n : n = Len(h.type[a].parts)
    OBVIOUS
<1>1. n \in Nat /\ DOMAIN h.type[a].parts = 1 .. n /\ DOMAIN h.type[b].parts = 1 .. n
    BY TypedFacts DEF Nodes
<1>2. \A i \in 1 .. n : h.type[a].parts[i].type \in Nodes(h) /\ h.type[b].parts[i].type \in Nodes(h)
    BY <1>1, TypedFacts DEF Nodes
<1>3. T!PartPairs(h.type[a], h.type[b]) =
        [i \in 1 .. n |->
            [left |-> h.type[a].parts[i].type, right |-> h.type[b].parts[i].type,
             agree |-> h.type[a].parts[i].name = h.type[b].parts[i].name]]
    BY <1>1 DEF T!PartPairs, T!Pair
<1> PICK seq : seq = T!PartPairs(h.type[a], h.type[b])
    OBVIOUS
<1>4. \A i \in 1 .. n : seq[i] \in PairsOf(h)
    BY <1>2, <1>3 DEF PairsOf
<1>5. seq = [i \in 1 .. n |-> seq[i]]
    BY <1>3
<1>6. seq \in Seq(PairsOf(h)) /\ Len(seq) = n
    <2> PICK P : P = PairsOf(h)
        OBVIOUS
    <2>1. seq \in [1 .. n -> P]
        BY <1>4, <1>5
    <2>2. seq \in Seq(P)
        BY <1>1, <2>1
    <2> QED  BY <1>1, <1>5, <2>2
<1>7. ASSUME NEW i \in 1 .. n
      PROVE  /\ seq[i].left = h.type[a].parts[i].type
             /\ seq[i].right = h.type[b].parts[i].type
             /\ seq[i].agree <=> h.type[a].parts[i].name = h.type[b].parts[i].name
    <2> DEFINE same == h.type[a].parts[i].name = h.type[b].parts[i].name
    <2>1. seq[i] = [left |-> h.type[a].parts[i].type, right |-> h.type[b].parts[i].type,
                    agree |-> same]
        BY <1>3
    <2>2. same \in BOOLEAN
        OBVIOUS
    <2> HIDE DEF same
    <2>3. /\ seq[i].left = h.type[a].parts[i].type /\ seq[i].right = h.type[b].parts[i].type
          /\ seq[i].agree = same
        BY <2>1
    <2>4. seq[i].agree <=> same
        BY <2>2, <2>3
    <2> QED  BY <2>3, <2>4, Zenon DEF same
<1> QED  BY <1>1, <1>6, <1>7 DEF PartsPaired

\* What the first pair that is left does.
Goes(s) == s.ok /\ s.todo # <<>>

LeftOf(s) == s.heap.is[Head(s.todo).left]
RightOf(s) == s.heap.is[Head(s.todo).right]

Fails(s, t) == t = [s EXCEPT !.ok = FALSE]

Drops(s, t) == LeftOf(s) = RightOf(s) /\ t = [s EXCEPT !.todo = Tail(@)]

BindsTo(s, t, v, n) ==
    /\ {v, n} = {LeftOf(s), RightOf(s)} /\ v # n
    /\ s.heap.type[v].kind = "var" /\ ~T!occursIn(s.heap, v, n)
    /\ t = [s EXCEPT !.todo = Tail(@), !.heap = T!insertSubstitution(@, v, n)]

Binds(s, t) == BindsTo(s, t, LeftOf(s), RightOf(s)) \/ BindsTo(s, t, RightOf(s), LeftOf(s))

Descends(s, t) ==
    LET a == s.heap.type[LeftOf(s)]
        b == s.heap.type[RightOf(s)]
    IN  /\ a.kind # "var" /\ a.kind = b.kind /\ Len(a.parts) = Len(b.parts)
        /\ t = [s EXCEPT !.todo = T!PartPairs(a, b) \o Tail(@)]

LEMMA ConstrainPairIs ==
    ASSUME NEW s
    PROVE  \/ Fails(s, T!ConstrainPair(s))
           \/ /\ Head(s.todo).agree
              /\ \/ Drops(s, T!ConstrainPair(s))
                 \/ Binds(s, T!ConstrainPair(s))
                 \/ Descends(s, T!ConstrainPair(s))
<1> DEFINE pair == Head(s.todo)
           a == LeftOf(s)
           b == RightOf(s)
           left == s.heap.type[a]
           right == s.heap.type[b]
           t == T!ConstrainPair(s)
<1>1. t = CASE ~pair.agree -> [s EXCEPT !.ok = FALSE]
            [] pair.agree /\ a = b -> [s EXCEPT !.todo = Tail(@)]
            [] pair.agree /\ a # b /\ left.kind = "var" ->
                IF T!occursIn(s.heap, a, b)
                THEN [s EXCEPT !.ok = FALSE]
                ELSE [s EXCEPT !.todo = Tail(@), !.heap = T!insertSubstitution(@, a, b)]
            [] pair.agree /\ left.kind # "var" /\ right.kind = "var" ->
                IF T!occursIn(s.heap, b, a)
                THEN [s EXCEPT !.ok = FALSE]
                ELSE [s EXCEPT !.todo = Tail(@), !.heap = T!insertSubstitution(@, b, a)]
            [] OTHER ->
                IF left.kind = right.kind /\ Len(left.parts) = Len(right.parts)
                THEN [s EXCEPT !.todo = T!PartPairs(left, right) \o Tail(@)]
                ELSE [s EXCEPT !.ok = FALSE]
    BY Zenon DEF T!ConstrainPair, LeftOf, RightOf
<1> HIDE DEF t, a, b
<1>2. CASE ~pair.agree
    BY <1>1, <1>2 DEF Fails, t
<1>3. CASE pair.agree /\ a = b
    <2>1. t = [s EXCEPT !.todo = Tail(@)]
        BY <1>1, <1>3
    <2> QED  BY <1>3, <2>1, Zenon DEF Drops, t, a, b
<1>4. CASE pair.agree /\ a # b /\ left.kind = "var"
    <2>1. CASE T!occursIn(s.heap, a, b)
        <3>1. t = [s EXCEPT !.ok = FALSE]
            BY <1>1, <1>4, <2>1
        <3> QED  BY <3>1 DEF Fails, t
    <2>2. CASE ~T!occursIn(s.heap, a, b)
        <3>1. t = [s EXCEPT !.todo = Tail(@), !.heap = T!insertSubstitution(@, a, b)]
            BY <1>1, <1>4, <2>2
        <3> QED  BY <1>4, <2>2, <3>1 DEF Binds, BindsTo, t, a, b
    <2> QED  BY <2>1, <2>2
<1>5. CASE pair.agree /\ a # b /\ left.kind # "var" /\ right.kind = "var"
    <2>1. CASE T!occursIn(s.heap, b, a)
        <3>1. t = [s EXCEPT !.ok = FALSE]
            BY <1>1, <1>5, <2>1
        <3> QED  BY <3>1 DEF Fails, t
    <2>2. CASE ~T!occursIn(s.heap, b, a)
        <3>1. t = [s EXCEPT !.todo = Tail(@), !.heap = T!insertSubstitution(@, b, a)]
            BY <1>1, <1>5, <2>2
        <3> QED  BY <1>5, <2>2, <3>1 DEF Binds, BindsTo, t, a, b
    <2> QED  BY <2>1, <2>2
<1>6. CASE pair.agree /\ a # b /\ left.kind # "var" /\ right.kind # "var"
    <2>1. CASE left.kind = right.kind /\ Len(left.parts) = Len(right.parts)
        <3>1. t = [s EXCEPT !.todo = T!PartPairs(left, right) \o Tail(@)]
            BY <1>1, <1>6, <2>1, Zenon
        <3> QED  BY <1>6, <2>1, <3>1 DEF Descends, t, a, b
    <2>2. CASE ~(left.kind = right.kind /\ Len(left.parts) = Len(right.parts))
        <3>1. t = [s EXCEPT !.ok = FALSE]
            BY <1>1, <1>6, <2>2
        <3> QED  BY <3>1 DEF Fails, t
    <2> QED  BY <2>1, <2>2, Zenon
<1> QED  BY <1>2, <1>3, <1>4, <1>5, <1>6

\* A step stays with the types of h.
LEMMA StepRuns ==
    ASSUME NEW h, Typed(h.type), NEW s \in T!Running(h), Goes(s)
    PROVE  T!ConstrainPair(s) \in T!Running(h)
<1> DEFINE t == T!ConstrainPair(s)
<1>1. /\ s = [heap |-> s.heap, ok |-> s.ok, todo |-> s.todo]
      /\ s.heap = [type |-> h.type, is |-> s.heap.is] /\ s.heap.type = h.type
      /\ s.heap.is \in [Nodes(h) -> Nodes(h)] /\ Nodes(s.heap) = Nodes(h)
      /\ s.ok \in BOOLEAN /\ s.todo \in Seq(PairsOf(h))
    BY RunningFacts
<1> PICK P : P = PairsOf(h)
    OBVIOUS
<1>2. Tail(s.todo) \in Seq(P) /\ Head(s.todo) \in P
    BY <1>1 DEF Goes
<1>3. LeftOf(s) \in Nodes(h) /\ RightOf(s) \in Nodes(h)
    BY <1>1, <1>2 DEF LeftOf, RightOf, PairsOf
<1> HIDE DEF t
<1>4. CASE Fails(s, t)
    <2>1. t = [heap |-> [type |-> h.type, is |-> s.heap.is], ok |-> FALSE, todo |-> s.todo]
        BY <1>1, <1>4 DEF Fails
    <2> QED  BY <1>1, <2>1, RunningIs DEF t
<1>5. CASE Drops(s, t)
    <2>1. t = [heap |-> [type |-> h.type, is |-> s.heap.is], ok |-> s.ok, todo |-> Tail(s.todo)]
        BY <1>1, <1>5 DEF Drops
    <2> QED  BY <1>1, <1>2, <2>1, RunningIs DEF t
<1>6. ASSUME NEW v \in Nodes(h), NEW n \in Nodes(h), BindsTo(s, t, v, n)
      PROVE  t \in T!Running(h)
    <2> PICK w : w = [m \in Nodes(h) |-> IF s.heap.is[m] = v THEN n ELSE s.heap.is[m]]
        OBVIOUS
    <2>1. T!insertSubstitution(s.heap, v, n) = [type |-> h.type, is |-> w]
        BY <1>1 DEF T!insertSubstitution
    <2>2. t = [heap |-> [type |-> h.type, is |-> w], ok |-> s.ok, todo |-> Tail(s.todo)]
        BY <1>1, <1>6, <2>1 DEF BindsTo
    <2>3. w \in [Nodes(h) -> Nodes(h)]
        BY <1>1
    <2> QED  BY <1>1, <1>2, <2>2, <2>3, RunningIs
<1>7. CASE Descends(s, t)
    <2> PICK pairs : pairs = T!PartPairs(h.type[LeftOf(s)], h.type[RightOf(s)])
        OBVIOUS
    <2>1. pairs \in Seq(P)
        <3>1. Len(h.type[LeftOf(s)].parts) = Len(h.type[RightOf(s)].parts)
            BY <1>1, <1>7 DEF Descends
        <3>2. PartsPaired(h, LeftOf(s), RightOf(s), pairs)
            BY <1>3, <3>1, PartPairsIs
        <3> QED  BY <3>2 DEF PartsPaired
    <2>2. t = [heap |-> [type |-> h.type, is |-> s.heap.is], ok |-> s.ok,
               todo |-> pairs \o Tail(s.todo)]
        BY <1>1, <1>7 DEF Descends
    <2>3. pairs \o Tail(s.todo) \in Seq(P)
        BY <1>2, <2>1
    <2> QED  BY <1>1, <2>2, <2>3, RunningIs DEF t
<1>8. CASE Binds(s, t)
    BY <1>3, <1>6, <1>8 DEF Binds, t
<1> QED  BY <1>4, <1>5, <1>7, <1>8, ConstrainPairIs DEF t

-----------------------------------------------------------------------------
(* constrainTypes comes to an end: each variable is bound at most once, and *)
(* between two bindings a pair only leaves pairs of parts of its types.     *)

Over(h) == {s \in T!Running(h) : ~Goes(s)}

StepOf(h) == [s \in T!Running(h) |-> IF Goes(s) THEN T!ConstrainPair(s) ELSE s]

\* Where the recursion of constrainTypes comes to from s.
RunsTo(h, s, t) == <<s, t>> \in ComesTo(T!Running(h), Over(h), StepOf(h))

ComesToEnd(h, s) == \E t : RunsTo(h, s, t)

LEMMA StepOfFacts ==
    ASSUME NEW h, Typed(h.type)
    PROVE  Over(h) \in SUBSET T!Running(h) /\ StepOf(h) \in [T!Running(h) -> T!Running(h)]
BY StepRuns DEF Over, StepOf

LEMMA EndsRules ==
    ASSUME NEW h, Typed(h.type), NEW s \in T!Running(h)
    PROVE  /\ ~Goes(s) => ComesToEnd(h, s)
           /\ Goes(s) /\ ComesToEnd(h, T!ConstrainPair(s)) => ComesToEnd(h, s)
<1> DEFINE R == T!Running(h)
           F == Over(h)
           c == StepOf(h)
<1>1. F \in SUBSET R /\ c \in [R -> R]
    BY StepOfFacts
<1>2. ClosedUnder(R, F, c, ComesTo(R, F, c))
    BY <1>1, ComesToIsClosed
<1>3. ASSUME ~Goes(s) PROVE ComesToEnd(h, s)
    <2>1. s \in F
        BY <1>3 DEF Over
    <2>2. <<s, s>> \in ComesTo(R, F, c)
        BY <1>2, <2>1 DEF ClosedUnder
    <2> QED  BY <2>2 DEF ComesToEnd, RunsTo
<1>4. ASSUME Goes(s), ComesToEnd(h, T!ConstrainPair(s)) PROVE ComesToEnd(h, s)
    <2>1. s \in R \ F /\ c[s] = T!ConstrainPair(s)
        BY <1>4 DEF Over, StepOf
    <2>2. PICK t : <<T!ConstrainPair(s), t>> \in ComesTo(R, F, c)
        BY <1>4 DEF ComesToEnd, RunsTo
    <2>3. t \in R
        BY <2>2 DEF ComesTo
    <2>4. <<s, t>> \in ComesTo(R, F, c)
        BY <1>2, <2>1, <2>2, <2>3 DEF ClosedUnder
    <2> QED  BY <2>4 DEF ComesToEnd, RunsTo
<1> QED  BY <1>3, <1>4

\* The pairs todo that are still to be made equal in the types g.
With(g, todo) == [heap |-> g, ok |-> TRUE, todo |-> todo]

AllEnd(h, g) == \A todo \in Seq(PairsOf(h)) : ComesToEnd(h, With(g, todo))

SameTypes(h, g) == Good(g) /\ g.type = h.type

LEMMA WithRuns ==
    ASSUME NEW h, NEW g, SameTypes(h, g), NEW todo \in Seq(PairsOf(h))
    PROVE  With(g, todo) \in T!Running(h)
<1>1. g = [type |-> h.type, is |-> g.is] /\ g.is \in [Nodes(h) -> Nodes(h)]
    BY DEF SameTypes, Good, HeapOK, Nodes
<1>2. [heap |-> [type |-> h.type, is |-> g.is], ok |-> TRUE, todo |-> todo] \in T!Running(h)
    BY <1>1, RunningIs
<1> QED  BY <1>1, <1>2 DEF With

\* A pair whose left type is n does not keep what comes after it from ending.
Settled(h, g, n) ==
    \A p \in PairsOf(h), rest \in Seq(PairsOf(h)) :
        g.is[p.left] = n /\ ComesToEnd(h, With(g, rest)) => ComesToEnd(h, With(g, <<p>> \o rest))

LEMMA SettledPairs ==
    ASSUME NEW h, NEW g, NEW L \in Seq(PairsOf(h)), NEW rest \in Seq(PairsOf(h)),
           \A i \in 1 .. Len(L) : Settled(h, g, g.is[L[i].left]),
           ComesToEnd(h, With(g, rest))
    PROVE  ComesToEnd(h, With(g, L \o rest))
<1> PICK P : P = PairsOf(h)
    OBVIOUS
<1> DEFINE Bad(seq) == /\ seq \in Seq(P)
                       /\ \A i \in 1 .. Len(seq) : Settled(h, g, g.is[seq[i].left])
                       /\ ~ComesToEnd(h, With(g, seq \o rest))
<1> SUFFICES ASSUME Bad(L) PROVE FALSE
    OBVIOUS
<1> PICK S : S = {n \in Nat : \E seq \in Seq(P) : Bad(seq) /\ Len(seq) = n}
    OBVIOUS
<1>1. Len(L) \in S
    OBVIOUS
<1>2. PICK n \in S : \A k \in S : n <= k
    BY <1>1, FirstOf
<1>3. PICK seq \in Seq(P) : Bad(seq) /\ Len(seq) = n
    BY <1>2
<1>4. seq # <<>>
    <2> SUFFICES ASSUME seq = <<>> PROVE FALSE
        OBVIOUS
    <2>1. seq \o rest = rest
        BY ConcatEmptySeq
    <2> QED  BY <1>3, <2>1
<1>5. /\ Head(seq) \in P /\ Head(seq) = seq[1] /\ Tail(seq) \in Seq(P)
      /\ Len(seq) \in Nat \ {0} /\ Len(Tail(seq)) = Len(seq) - 1
      /\ \A i \in 1 .. Len(Tail(seq)) : Tail(seq)[i] = seq[i + 1]
    BY <1>4
<1>6. \A i \in 1 .. Len(Tail(seq)) : Settled(h, g, g.is[Tail(seq)[i].left])
    <2> TAKE i \in 1 .. Len(Tail(seq))
    <2>1. i + 1 \in 1 .. Len(seq) /\ Tail(seq)[i] = seq[i + 1]
        BY <1>5
    <2> QED  BY <1>3, <2>1
<1>7. ComesToEnd(h, With(g, Tail(seq) \o rest))
    <2> SUFFICES ASSUME ~ComesToEnd(h, With(g, Tail(seq) \o rest)) PROVE FALSE
        OBVIOUS
    <2>1. Bad(Tail(seq))
        BY <1>5, <1>6
    <2>2. Len(Tail(seq)) \in S
        <3> HIDE DEF Bad
        <3>1. Tail(seq) \in Seq(P) /\ Len(Tail(seq)) \in Nat
            BY <1>5
        <3> QED  BY <2>1, <3>1
    <2> QED  BY <1>2, <1>3, <1>5, <2>2
<1>8. Settled(h, g, g.is[Head(seq).left])
    BY <1>3, <1>5
<1>9. seq \o rest = <<Head(seq)>> \o (Tail(seq) \o rest)
    <2>1. seq = <<Head(seq)>> \o Tail(seq)
        BY <1>4
    <2>2. <<Head(seq)>> \in Seq(P) /\ Tail(seq) \in Seq(P) /\ rest \in Seq(P)
        BY <1>5
    <2>3. (<<Head(seq)>> \o Tail(seq)) \o rest = <<Head(seq)>> \o (Tail(seq) \o rest)
        BY <2>2, ConcatAssociative
    <2> QED  BY <2>1, <2>3
<1>10. Tail(seq) \o rest \in Seq(P)
    BY <1>5
<1>11. ComesToEnd(h, With(g, <<Head(seq)>> \o (Tail(seq) \o rest)))
    BY <1>5, <1>7, <1>8, <1>10 DEF Settled
<1> QED  BY <1>3, <1>9, <1>11

Fewer(g2, g) == Cardinality(FreeVars(g2)) < Cardinality(FreeVars(g))

LEMMA FreeVarsFinite ==
    ASSUME NEW g, HeapOK(g)
    PROVE  IsFiniteSet(FreeVars(g)) /\ Cardinality(FreeVars(g)) \in Nat
<1>1. Nodes(g) = 1 .. Len(g.type) /\ Len(g.type) \in Nat
    BY TypedFacts DEF HeapOK, Nodes
<1>2. IsFiniteSet(Nodes(g))
    BY <1>1, FS_Interval
<1>3. FreeVars(g) \in SUBSET Nodes(g)
    BY DEF FreeVars, StandAlone
<1>4. IsFiniteSet(FreeVars(g))
    BY <1>2, <1>3, FS_Subset
<1> QED  BY <1>4, FS_CardinalityType

\* A binding leaves fewer variables.
LEMMA BoundIsFewer ==
    ASSUME NEW g, Good(g), NEW v \in FreeVars(g), NEW n \in StandAlone(g), v # n,
           ~T!occursIn(g, v, n)
    PROVE  /\ SameTypes(g, T!insertSubstitution(g, v, n))
           /\ Fewer(T!insertSubstitution(g, v, n), g)
<1> PICK g2 : g2 = T!insertSubstitution(g, v, n)
    OBVIOUS
<1>1. HeapOK(g)
    BY DEF Good
<1>2. Good(g2) /\ FreeVars(g2) \subseteq FreeVars(g) \ {v} /\ g2.type = g.type
    BY <1>1, InsertionGood, InsertionKeeps, InsertionIs
<1>3. IsFiniteSet(FreeVars(g)) /\ Cardinality(FreeVars(g)) \in Nat
    BY <1>1, FreeVarsFinite
<1> PICK A, B : A = FreeVars(g) /\ B = FreeVars(g2)
    OBVIOUS
<1>4. IsFiniteSet(A \ {v}) /\ Cardinality(A \ {v}) = Cardinality(A) - 1
    BY <1>3, FS_RemoveElement
<1>5. B \in SUBSET (A \ {v})
    BY <1>2
<1>6. Cardinality(B) <= Cardinality(A \ {v})
    BY <1>4, <1>5, FS_Subset
<1>7. IsFiniteSet(B)
    BY <1>4, <1>5, FS_Subset
<1>8. Cardinality(B) \in Nat
    BY <1>7, FS_CardinalityType
<1> QED  BY <1>2, <1>3, <1>4, <1>6, <1>8 DEF SameTypes, Fewer

LEMMA StandsIn ==
    ASSUME NEW h, NEW g, SameTypes(h, g), NEW n \in Nodes(h)
    PROVE  g.is[n] \in StandAlone(g) /\ StandAlone(g) \subseteq Nodes(h)
BY DEF SameTypes, Good, HeapOK, StandAlone, Nodes

LEMMA MinimalSettled ==
    ASSUME NEW h, NEW g, SameTypes(h, g),
           \A g2 : SameTypes(h, g2) /\ Fewer(g2, g) => AllEnd(h, g2),
           NEW n \in StandAlone(g), \A m \in Succ(g, n) : Settled(h, g, m)
    PROVE  Settled(h, g, n)
<1>0. Typed(h.type) /\ Good(g) /\ HeapOK(g) /\ g.type = h.type
    BY DEF SameTypes, Good, HeapOK
<1> SUFFICES ASSUME NEW p \in PairsOf(h), NEW rest \in Seq(PairsOf(h)),
                    g.is[p.left] = n, ComesToEnd(h, With(g, rest))
             PROVE  ComesToEnd(h, With(g, <<p>> \o rest))
    BY DEF Settled
<1> PICK P : P = PairsOf(h)
    OBVIOUS
<1> DEFINE todo == <<p>> \o rest
           s == With(g, todo)
           t == T!ConstrainPair(s)
<1>1. todo \in Seq(P) /\ Head(todo) = p /\ Tail(todo) = rest /\ todo # <<>>
    OBVIOUS
<1>2. s \in T!Running(h) /\ s.heap = g /\ s.todo = todo /\ s.ok = TRUE /\ Goes(s)
    <2>1. s \in T!Running(h)
        BY <1>1, WithRuns
    <2> QED  BY <1>1, <2>1 DEF With, Goes
<1>3. t \in T!Running(h)
    BY <1>0, <1>2, StepRuns
<1>4. LeftOf(s) = n /\ RightOf(s) = g.is[p.right] /\ RightOf(s) \in StandAlone(g)
    <2>1. p.right \in Nodes(h)
        BY DEF PairsOf
    <2> HIDE DEF s, todo
    <2> QED  BY <1>1, <1>2, <2>1, StandsIn DEF LeftOf, RightOf
<1> HIDE DEF todo
<1> SUFFICES ComesToEnd(h, t)
    BY <1>0, <1>2, EndsRules DEF todo
<1>5. CASE Fails(s, t)
    <2>1. ~Goes(t)
        <3>1. t.ok = FALSE
            BY <1>2, <1>5 DEF Fails, With
        <3> QED  BY <3>1 DEF Goes
    <2> HIDE DEF t
    <2> QED  BY <1>0, <1>3, <2>1, EndsRules
<1>6. CASE Drops(s, t)
    <2>1. t = With(g, rest)
        BY <1>1, <1>6 DEF Drops, With
    <2> QED  BY <2>1
<1>7. ASSUME NEW v \in StandAlone(g), NEW m \in StandAlone(g), BindsTo(s, t, v, m)
      PROVE  ComesToEnd(h, t)
    <2>1. t = With(T!insertSubstitution(g, v, m), rest)
        BY <1>1, <1>7 DEF BindsTo, With
    <2>2. v \in FreeVars(g) /\ v # m /\ ~T!occursIn(g, v, m)
        BY <1>2, <1>7 DEF BindsTo, FreeVars
    <2>3. SameTypes(g, T!insertSubstitution(g, v, m)) /\ Fewer(T!insertSubstitution(g, v, m), g)
        BY <1>0, <2>2, BoundIsFewer
    <2>4. AllEnd(h, T!insertSubstitution(g, v, m))
        BY <1>0, <2>3 DEF SameTypes
    <2> QED  BY <2>1, <2>4 DEF AllEnd
<1>8. CASE Descends(s, t)
    <2> DEFINE b == RightOf(s)
               pairs == T!PartPairs(g.type[n], g.type[b])
    <2>1. t = With(g, pairs \o rest) /\ Len(g.type[n].parts) = Len(g.type[b].parts)
        <3> HIDE DEF t, b
        <3>1. /\ t = [s EXCEPT !.todo = T!PartPairs(g.type[n], g.type[b]) \o rest]
              /\ Len(g.type[n].parts) = Len(g.type[b].parts)
            BY <1>1, <1>2, <1>4, <1>8, Zenon DEF Descends, b
        <3> QED  BY <3>1 DEF With
    <2>2. n \in Nodes(h) /\ b \in Nodes(h)
        BY <1>4, StandsIn DEF StandAlone, SameTypes, Nodes
    <2>3. /\ pairs \in Seq(P) /\ Len(pairs) = Len(h.type[n].parts)
          /\ \A i \in DOMAIN h.type[n].parts : pairs[i].left = h.type[n].parts[i].type
        <3> HIDE DEF b, t
        <3>1. pairs = T!PartPairs(h.type[n], h.type[b]) /\ Len(h.type[n].parts) = Len(h.type[b].parts)
            BY <1>0, <2>1
        <3>2. PartsPaired(h, n, b, T!PartPairs(h.type[n], h.type[b]))
            BY <1>0, <2>2, <3>1, PartPairsIs
        <3>3. PartsPaired(h, n, b, pairs)
            BY <3>1, <3>2
        <3> HIDE DEF pairs
        <3>4. pairs \in Seq(P) /\ Len(pairs) = Len(h.type[n].parts)
            BY <3>3 DEF PartsPaired
        <3>5. ASSUME NEW i \in DOMAIN h.type[n].parts PROVE pairs[i].left = h.type[n].parts[i].type
            BY <3>3 DEF PartsPaired
        <3> QED  BY <3>4, <3>5
    <2>4. ASSUME NEW i \in 1 .. Len(pairs) PROVE Settled(h, g, g.is[pairs[i].left])
        <3>1. i \in DOMAIN PartsAt(g, n) /\ pairs[i].left = PartsAt(g, n)[i].type
            BY <1>0, <2>2, <2>3, TypedFacts DEF Nodes, PartsAt
        <3>2. g.is[pairs[i].left] \in Succ(g, n)
            BY <3>1 DEF Succ
        <3> QED  BY <3>2
    <2> HIDE DEF pairs
    <2>5. ComesToEnd(h, With(g, pairs \o rest))
        BY <2>3, <2>4, SettledPairs
    <2> QED  BY <2>1, <2>5 DEF pairs
<1>9. CASE Binds(s, t)
    BY <1>4, <1>7, <1>9 DEF Binds
<1> QED  BY <1>5, <1>6, <1>8, <1>9, ConstrainPairIs

LEMMA FewerEnds ==
    ASSUME NEW h, NEW g, SameTypes(h, g),
           \A g2 : SameTypes(h, g2) /\ Fewer(g2, g) => AllEnd(h, g2)
    PROVE  AllEnd(h, g)
<1>1. \A n \in StandAlone(g) : Settled(h, g, n)
    <2> PICK S : S = {n \in StandAlone(g) : ~Settled(h, g, n)}
        OBVIOUS
    <2> SUFFICES ASSUME S # {} PROVE FALSE
        OBVIOUS
    <2>1. Founded(g)
        BY DEF SameTypes, Good
    <2>2. PICK n \in S : Succ(g, n) \cap S = {}
        BY <2>1 DEF Founded
    <2>3. ASSUME NEW m \in Succ(g, n) PROVE Settled(h, g, m)
        <3>1. PICK i \in DOMAIN PartsAt(g, n) : m = g.is[PartsAt(g, n)[i].type]
            BY DEF Succ
        <3>2. PartsAt(g, n)[i].type \in Nodes(h)
            BY DEF SameTypes, Good, HeapOK, Typed, StandAlone, Nodes, PartsAt
        <3>3. m \in StandAlone(g)
            BY <3>1, <3>2, StandsIn
        <3> QED  BY <2>2, <3>3
    <2>4. n \in StandAlone(g)
        OBVIOUS
    <2>5. Settled(h, g, n)
        BY <2>3, <2>4, MinimalSettled
    <2> QED  BY <2>5
<1> SUFFICES ASSUME NEW todo \in Seq(PairsOf(h)) PROVE ComesToEnd(h, With(g, todo))
    BY DEF AllEnd
<1> PICK P : P = PairsOf(h)
    OBVIOUS
<1>2. <<>> \in Seq(P) /\ todo \o <<>> = todo
    BY ConcatEmptySeq
<1>3. ComesToEnd(h, With(g, <<>>))
    <2>1. With(g, <<>>) \in T!Running(h)
        BY <1>2, WithRuns
    <2>2. ~Goes(With(g, <<>>))
        BY DEF With, Goes
    <2> QED  BY <2>1, <2>2, EndsRules DEF SameTypes, Good, HeapOK
<1>4. ASSUME NEW i \in 1 .. Len(todo) PROVE Settled(h, g, g.is[todo[i].left])
    <2>1. todo[i] \in P
        OBVIOUS
    <2>2. g.is[todo[i].left] \in StandAlone(g)
        BY <2>1, StandsIn DEF PairsOf
    <2> QED  BY <1>1, <2>2
<1>5. ComesToEnd(h, With(g, todo \o <<>>))
    BY <1>2, <1>3, <1>4, SettledPairs
<1> QED  BY <1>2, <1>5

\* Whatever types there are, constraining any pairs of them ends.
LEMMA ConstrainingEnds ==
    ASSUME NEW h, NEW g, SameTypes(h, g)
    PROVE  AllEnd(h, g)
<1> DEFINE Bad(g2) == SameTypes(h, g2) /\ ~AllEnd(h, g2)
<1> SUFFICES ASSUME Bad(g) PROVE FALSE
    OBVIOUS
<1> PICK S : S = {n \in Nat : \E g2 : Bad(g2) /\ Cardinality(FreeVars(g2)) = n}
    OBVIOUS
<1>1. ASSUME NEW g2, Bad(g2) PROVE Cardinality(FreeVars(g2)) \in S
    <2>1. Cardinality(FreeVars(g2)) \in Nat
        BY <1>1, FreeVarsFinite DEF SameTypes, Good
    <2> HIDE DEF Bad
    <2> QED  BY <1>1, <2>1
<1>2. S # {}
    <2> HIDE DEF Bad
    <2> QED  BY <1>1
<1>3. PICK n \in S : \A k \in S : n <= k
    BY <1>2, FirstOf
<1>4. PICK g1 : Bad(g1) /\ Cardinality(FreeVars(g1)) = n
    <2> HIDE DEF Bad
    <2> QED  BY <1>3
<1>5. ASSUME NEW g2, SameTypes(h, g2), Fewer(g2, g1) PROVE AllEnd(h, g2)
    <2> SUFFICES ASSUME Bad(g2) PROVE FALSE
        BY <1>5
    <2>1. Cardinality(FreeVars(g2)) \in S
        BY <1>1
    <2>2. n <= Cardinality(FreeVars(g2)) /\ n \in Nat /\ Cardinality(FreeVars(g2)) \in Nat
        BY <1>3, <2>1
    <2> QED  BY <1>4, <1>5, <2>2 DEF Fewer
<1>6. AllEnd(h, g1)
    BY <1>4, <1>5, FewerEnds
<1> QED  BY <1>4, <1>6

-----------------------------------------------------------------------------
(* What constrainTypes returns. *)

LEMMA ConstrainTypesRuns ==
    ASSUME NEW h, Good(h), NEW a \in Nodes(h), NEW b \in Nodes(h)
    PROVE  RunsTo(h, With(h, <<T!Pair(a, b, TRUE)>>), T!constrainTypes(h, a, b))
<1> DEFINE R == T!Running(h)
           F == Over(h)
           c == StepOf(h)
           Like(f) == f = [s \in R |-> IF s.ok /\ s.todo # <<>> THEN f[T!ConstrainPair(s)] ELSE s]
           run == CHOOSE f : Like(f)
           s0 == With(h, <<T!Pair(a, b, TRUE)>>)
<1>0. Typed(h.type) /\ SameTypes(h, h)
    BY DEF Good, HeapOK, SameTypes
<1>1. F \in SUBSET R /\ c \in [R -> R]
    BY <1>0, StepOfFacts
<1>2. ASSUME NEW f PROVE Continues(R, F, c, f) <=> Like(f)
    <2>1. ASSUME NEW s \in R
          PROVE  (IF s \in F THEN s ELSE f[c[s]])
                    = (IF s.ok /\ s.todo # <<>> THEN f[T!ConstrainPair(s)] ELSE s)
        BY DEF Over, StepOf, Goes
    <2> DEFINE f1 == [s \in R |-> IF s \in F THEN s ELSE f[c[s]]]
               f2 == [s \in R |-> IF s.ok /\ s.todo # <<>> THEN f[T!ConstrainPair(s)] ELSE s]
    <2>2. f1 = f2
        <3> HIDE DEF R, F, c
        <3> QED  BY <2>1
    <2>3. (Continues(R, F, c, f) <=> f = f1) /\ (Like(f) <=> f = f2)
        BY DEF Continues
    <2> HIDE DEF f1, f2, Like
    <2> QED  BY <2>2, <2>3
<1>3. \E f : Like(f)
    <2>1. \E f : Continues(R, F, c, f)
        BY <1>1, ContinuationExists
    <2> HIDE DEF Like
    <2> QED  BY <1>2, <2>1
<1>4. Continues(R, F, c, run)
    <2>1. Like(run)
        <3> HIDE DEF Like
        <3> QED  BY <1>3
    <2> HIDE DEF Like, run
    <2> QED  BY <1>2, <2>1
<1>5. T!constrainTypes(h, a, b) = run[s0]
    BY DEF T!constrainTypes, With
<1>6. <<T!Pair(a, b, TRUE)>> \in Seq(PairsOf(h))
    BY DEF T!Pair, PairsOf
<1>7. PICK t : <<s0, t>> \in ComesTo(R, F, c)
    BY <1>0, <1>6, ConstrainingEnds DEF AllEnd, ComesToEnd, RunsTo
<1> HIDE DEF run, s0
<1>8. run[s0] = t
    BY <1>1, <1>4, <1>7, ContinuationIs
<1> QED  BY <1>5, <1>7, <1>8 DEF RunsTo, s0

\* A property of what a step leads from and to, and of the states in between,
\* holds of the whole recursion.
LEMMA RunInduction ==
    ASSUME NEW h, Typed(h.type), NEW W \in SUBSET (T!Running(h) \X T!Running(h)),
           \A s \in T!Running(h) : ~Goes(s) => <<s, s>> \in W,
           \A s \in T!Running(h), t \in T!Running(h) :
                Goes(s) /\ <<T!ConstrainPair(s), t>> \in W => <<s, t>> \in W,
           NEW s0, NEW t0, RunsTo(h, s0, t0)
    PROVE  <<s0, t0>> \in W
<1> DEFINE R == T!Running(h)
           F == Over(h)
           c == StepOf(h)
<1>1. F \in SUBSET R /\ c \in [R -> R]
    BY StepOfFacts
<1>2. ASSUME NEW s \in F PROVE <<s, s>> \in W
    BY DEF Over
<1>3. ASSUME NEW s \in R \ F, NEW t \in R, <<c[s], t>> \in W PROVE <<s, t>> \in W
    <2>1. s \in R /\ Goes(s)
        BY DEF Over
    <2>2. c[s] = T!ConstrainPair(s)
        BY <2>1 DEF StepOf
    <2> QED  BY <1>3, <2>1, <2>2
<1>4. ClosedUnder(R, F, c, W)
    BY <1>2, <1>3 DEF ClosedUnder
<1>5. <<s0, t0>> \in ComesTo(R, F, c)
    BY DEF RunsTo
<1> HIDE DEF R, F, c
<1> QED  BY <1>1, <1>4, <1>5, ComesToInduction DEF R

LEMMA StepGood ==
    ASSUME NEW h, Typed(h.type), NEW s \in T!Running(h), Goes(s), Good(s.heap)
    PROVE  Good(T!ConstrainPair(s).heap)
<1> DEFINE t == T!ConstrainPair(s)
           g == s.heap
<1>1. /\ s = [heap |-> s.heap, ok |-> s.ok, todo |-> s.todo] /\ s.todo \in Seq(PairsOf(h))
      /\ g.type = h.type
    BY RunningFacts
<1> PICK P : P = PairsOf(h)
    OBVIOUS
<1>2. Head(s.todo) \in P
    BY <1>1 DEF Goes
<1>3. SameTypes(h, g)
    BY <1>1 DEF SameTypes
<1>4. LeftOf(s) \in StandAlone(g) /\ RightOf(s) \in StandAlone(g)
    BY <1>2, <1>3, StandsIn DEF LeftOf, RightOf, PairsOf
<1> HIDE DEF t, g
<1> SUFFICES Good(t.heap)
    BY DEF t
<1>5. ASSUME NEW v \in StandAlone(g), NEW n \in StandAlone(g), BindsTo(s, t, v, n)
      PROVE  Good(t.heap)
    <2>1. t.heap = T!insertSubstitution(g, v, n)
        BY <1>1, <1>5 DEF BindsTo, g
    <2>2. v \in FreeVars(g) /\ v # n /\ ~T!occursIn(g, v, n)
        BY <1>5 DEF BindsTo, FreeVars, g
    <2> QED  BY <1>3, <2>1, <2>2, InsertionGood DEF SameTypes
<1>6. CASE Fails(s, t)
    <2>1. t.heap = s.heap
        BY <1>1, <1>6 DEF Fails
    <2> QED  BY <2>1
<1>7. CASE Drops(s, t)
    <2>1. t.heap = s.heap
        BY <1>1, <1>7 DEF Drops
    <2> QED  BY <2>1
<1>8. CASE Descends(s, t)
    <2>1. t.heap = s.heap
        BY <1>1, <1>8 DEF Descends
    <2> QED  BY <2>1
<1>9. CASE Binds(s, t)
    BY <1>4, <1>5, <1>9 DEF Binds
<1> QED  BY <1>6, <1>7, <1>8, <1>9, ConstrainPairIs DEF t

LEMMA RunGood ==
    ASSUME NEW h, Typed(h.type), NEW s0, NEW t0, RunsTo(h, s0, t0), Good(s0.heap)
    PROVE  t0 \in T!Running(h) /\ Good(t0.heap)
<1> DEFINE R == T!Running(h)
           W == {p \in R \X R : Good(p[1].heap) => Good(p[2].heap)}
<1>1. W \in SUBSET (R \X R)
    OBVIOUS
<1>2. \A s \in R : ~Goes(s) => <<s, s>> \in W
    OBVIOUS
<1>3. ASSUME NEW s \in R, NEW t \in R, Goes(s), <<T!ConstrainPair(s), t>> \in W
      PROVE  <<s, t>> \in W
    <2>1. Good(s.heap) => Good(T!ConstrainPair(s).heap)
        BY <1>3, StepGood
    <2>2. Good(T!ConstrainPair(s).heap) => Good(t.heap)
        BY <1>3
    <2> QED  BY <2>1, <2>2
<1>4. <<s0, t0>> \in W
    <2> HIDE DEF W
    <2> QED  BY <1>1, <1>2, <1>3, RunInduction
<1> QED  BY <1>4

\* The types are the same, whatever the answer.
LEMMA ConstrainTypesKeeps ==
    ASSUME NEW h, Good(h), NEW a \in Nodes(h), NEW b \in Nodes(h)
    PROVE  LET answer == T!constrainTypes(h, a, b)
           IN  Good(answer.heap) /\ answer.heap.type = h.type /\ answer.ok \in BOOLEAN
<1> PICK t : t = T!constrainTypes(h, a, b)
    OBVIOUS
<1> PICK s : s = With(h, <<T!Pair(a, b, TRUE)>>)
    OBVIOUS
<1>1. RunsTo(h, s, t) /\ Typed(h.type) /\ s.heap = h
    BY ConstrainTypesRuns DEF Good, HeapOK, With
<1>2. t \in T!Running(h) /\ Good(t.heap)
    BY <1>1, RunGood
<1>3. t.heap.type = h.type /\ t.ok \in BOOLEAN
    BY <1>1, <1>2, RunningFacts
<1> QED  BY <1>2, <1>3

-----------------------------------------------------------------------------
(* Types that are made, and what is constrained by them. *)

\* The types that there are remain as they are written, for all that they come
\* to stand for, and others are added.
Extends(h, g) ==
    /\ Nodes(h) \subseteq Nodes(g)
    /\ \A n \in Nodes(h) : g.type[n] = h.type[n]

StepsTo(h, g) == Good(g) /\ Extends(h, g)

LEMMA StepsTwice ==
    ASSUME NEW f, NEW g, NEW h, StepsTo(f, g), StepsTo(g, h)
    PROVE  StepsTo(f, h)
BY DEF StepsTo, Extends

LEMMA StepsToItself ==
    ASSUME NEW h, Good(h)
    PROVE  StepsTo(h, h)
BY DEF StepsTo, Extends

LEMMA SameTypesStep ==
    ASSUME NEW h, NEW g, Good(g), g.type = h.type
    PROVE  StepsTo(h, g)
BY DEF StepsTo, Extends, Nodes

LEMMA NewTypeIs ==
    ASSUME NEW h, HeapOK(h), NEW type \in Type
    PROVE  LET g == T!newType(h, type)
           IN  /\ g = [type |-> g.type, is |-> g.is]
               /\ g.type \in Seq(Type) /\ Len(g.type) = T!Fresh(h)
               /\ T!Fresh(h) \in Nat /\ T!Fresh(h) = Len(h.type) + 1
               /\ Nodes(h) = 1 .. Len(h.type) /\ Len(h.type) \in Nat
               /\ Nodes(g) = Nodes(h) \cup {T!Fresh(h)} /\ T!Fresh(h) \notin Nodes(h)
               /\ DOMAIN g.is = Nodes(g) /\ g.is = [n \in Nodes(g) |-> g.is[n]]
               /\ g.type[T!Fresh(h)] = type /\ g.is[T!Fresh(h)] = T!Fresh(h)
               /\ \A n \in Nodes(h) : g.type[n] = h.type[n] /\ g.is[n] = h.is[n]
<1> PICK T1 : T1 = Type
    OBVIOUS
<1> PICK N : N = Nodes(h)
    OBVIOUS
<1> PICK types, is, x : types = h.type /\ is = h.is /\ x = T!Fresh(h)
    OBVIOUS
<1>1. types \in Seq(T1) /\ is \in [N -> N] /\ N = DOMAIN types /\ type \in T1
    BY DEF HeapOK, Typed, Nodes
<1>2. N = 1 .. Len(types) /\ Len(types) \in Nat /\ x = Len(types) + 1
    BY <1>1 DEF T!Fresh
<1>3. is \in Seq(N) /\ Len(is) = Len(types)
    <2>1. is \in [1 .. Len(types) -> N]
        BY <1>1, <1>2
    <2>2. is \in Seq(N)
        BY <1>2, <2>1, SeqDef
    <2> QED  BY <1>2, <2>1, <2>2
<1> PICK ty, i2 : ty = Append(types, type) /\ i2 = Append(is, x)
    OBVIOUS
<1>4. /\ ty \in Seq(T1) /\ Len(ty) = x /\ DOMAIN ty = 1 .. x /\ ty[x] = type
      /\ \A n \in N : ty[n] = types[n]
    BY <1>1, <1>2
<1>5. /\ DOMAIN i2 = 1 .. x /\ i2[x] = x /\ i2 = [n \in 1 .. x |-> i2[n]]
      /\ \A n \in N : i2[n] = is[n]
    <2> PICK M : M = N \cup {x}
        OBVIOUS
    <2>1. is \in Seq(M) /\ x \in M
        BY <1>3
    <2>2. i2 \in Seq(M) /\ Len(i2) = x
        BY <1>2, <1>3, <2>1
    <2> QED  BY <1>2, <1>3, <2>1, <2>2
<1>6. T!newType(h, type) = [type |-> ty, is |-> i2]
    BY DEF T!newType
<1>7. 1 .. x = N \cup {x} /\ x \notin N /\ x \in Nat
    BY <1>2
<1> PICK g : g = T!newType(h, type)
    OBVIOUS
<1>8. g = [type |-> g.type, is |-> g.is] /\ g.type = ty /\ g.is = i2
    BY <1>6
<1>9. Nodes(g) = N \cup {x}
    BY <1>4, <1>7, <1>8 DEF Nodes
<1>10. DOMAIN g.is = Nodes(g) /\ g.is = [n \in Nodes(g) |-> g.is[n]]
    BY <1>5, <1>7, <1>8, <1>9
<1>11. \A n \in Nodes(h) : g.type[n] = h.type[n] /\ g.is[n] = h.is[n]
    BY <1>4, <1>5, <1>8
<1> QED  BY <1>2, <1>4, <1>5, <1>7, <1>8, <1>9, <1>10, <1>11

LEMMA NewTypeGood ==
    ASSUME NEW h, Good(h), NEW type \in Type,
           \A i \in DOMAIN type.parts : type.parts[i].type \in Nodes(h)
    PROVE  LET g == T!newType(h, type)
           IN  /\ StepsTo(h, g)
               /\ T!Fresh(h) \in Nodes(g) /\ g.type[T!Fresh(h)] = type
               /\ T!Fresh(h) \in StandAlone(g) /\ StandAlone(h) \subseteq StandAlone(g)
               /\ T!Fresh(h) \notin Nodes(h)
               /\ \A n \in Nodes(h) : g.is[n] = h.is[n]
<1> PICK g, x : g = T!newType(h, type) /\ x = T!Fresh(h)
    OBVIOUS
<1>0. HeapOK(h) /\ Founded(h)
    BY DEF Good
<1>1. /\ g = [type |-> g.type, is |-> g.is]
      /\ g.type \in Seq(Type) /\ Len(g.type) = x /\ x \in Nat
      /\ Nodes(g) = Nodes(h) \cup {x} /\ x \notin Nodes(h)
      /\ DOMAIN g.is = Nodes(g) /\ g.is = [n \in Nodes(g) |-> g.is[n]]
      /\ g.type[x] = type /\ g.is[x] = x
      /\ \A n \in Nodes(h) : g.type[n] = h.type[n] /\ g.is[n] = h.is[n]
    BY <1>0, NewTypeIs
<1>2. \A n \in Nodes(h) : /\ h.is[n] \in Nodes(h) /\ h.is[h.is[n]] = h.is[n]
                          /\ h.is[n] # n => h.type[n].kind = "var"
    BY <1>0 DEF HeapOK
<1>3. \A n \in Nodes(h) : \A i \in DOMAIN h.type[n].parts : h.type[n].parts[i].type \in Nodes(h)
    BY <1>0 DEF HeapOK, Typed, Nodes
<1>4. Typed(g.type)
    <2>1. ASSUME NEW n \in Nodes(g), NEW i \in DOMAIN g.type[n].parts
          PROVE  g.type[n].parts[i].type \in Nodes(g)
        <3>1. CASE n = x
            BY <1>1, <2>1, <3>1
        <3>2. CASE n # x
            BY <1>1, <1>3, <2>1, <3>2
        <3> QED  BY <3>1, <3>2
    <2> QED  BY <1>1, <2>1 DEF Typed, Nodes
<1>5. ASSUME NEW n \in Nodes(g)
      PROVE  g.is[n] \in Nodes(g) /\ g.is[g.is[n]] = g.is[n] /\ (g.is[n] # n => g.type[n].kind = "var")
    <2>1. CASE n = x
        BY <1>1, <2>1
    <2>2. CASE n # x
        <3>1. n \in Nodes(h)
            BY <1>1, <2>2
        <3> QED  BY <1>1, <1>2, <3>1
    <2> QED  BY <2>1, <2>2
<1>6. HeapOK(g)
    <2>1. g.is \in [Nodes(g) -> Nodes(g)]
        BY <1>1, <1>5
    <2> QED  BY <1>1, <1>4, <1>5, <2>1 DEF HeapOK
<1>7. StandAlone(g) = StandAlone(h) \cup {x}
    BY <1>1 DEF StandAlone
<1>8. \A n \in Nodes(g) : Succ(g, n) \subseteq Nodes(h)
    <2> SUFFICES ASSUME NEW n \in Nodes(g), NEW i \in DOMAIN g.type[n].parts
                 PROVE  g.is[g.type[n].parts[i].type] \in Nodes(h)
        BY DEF Succ, PartsAt
    <2>1. g.type[n].parts[i].type \in Nodes(h)
        <3>1. CASE n = x
            BY <1>1, <3>1
        <3>2. CASE n # x
            BY <1>1, <1>3, <3>2
        <3> QED  BY <3>1, <3>2
    <2> QED  BY <1>1, <1>2, <2>1
<1>9. ASSUME NEW n \in Nodes(h) PROVE Succ(g, n) = Succ(h, n)
    <2>1. g.type[n].parts = h.type[n].parts
        BY <1>1
    <2>2. \A i \in DOMAIN h.type[n].parts : g.is[h.type[n].parts[i].type] = h.is[h.type[n].parts[i].type]
        BY <1>1, <1>3
    <2> QED  BY <2>1, <2>2 DEF Succ, PartsAt
<1>10. Founded(g)
    <2> SUFFICES ASSUME NEW S \in SUBSET StandAlone(g), S # {}
                 PROVE  \E n \in S : Succ(g, n) \cap S = {}
        BY DEF Founded
    <2> PICK R : R = S \ {x}
        OBVIOUS
    <2>1. R \in SUBSET StandAlone(h)
        BY <1>7
    <2>2. CASE R = {}
        <3>1. S = {x}
            BY <2>2
        <3>2. Succ(g, x) \subseteq Nodes(h)
            BY <1>1, <1>8
        <3> QED  BY <1>1, <3>1, <3>2
    <2>3. CASE R # {}
        <3>1. PICK n \in R : Succ(h, n) \cap R = {}
            BY <1>0, <2>1, <2>3 DEF Founded
        <3>2. n \in Nodes(h)
            BY <2>1, <3>1 DEF StandAlone
        <3>3. Succ(g, n) = Succ(h, n) /\ x \notin Succ(g, n)
            BY <1>1, <1>8, <1>9, <3>2
        <3> QED  BY <3>1, <3>3
    <2> QED  BY <2>2, <2>3
<1>11. StepsTo(h, g)
    BY <1>1, <1>6, <1>10 DEF StepsTo, Good, Extends
<1>12. x \in StandAlone(g) /\ StandAlone(h) \subseteq StandAlone(g)
    BY <1>7
<1> QED  BY <1>1, <1>11, <1>12

LEMMA ConstrainTypesSteps ==
    ASSUME NEW h, Good(h), NEW a \in Nodes(h), NEW b \in Nodes(h)
    PROVE  LET answer == T!constrainTypes(h, a, b)
           IN  StepsTo(h, answer.heap) /\ answer.ok \in BOOLEAN
BY ConstrainTypesKeeps, SameTypesStep

LEMMA ConstrainTypeToSteps ==
    ASSUME NEW h, Good(h), NEW n \in Nodes(h), NEW target \in Type, target.parts = <<>>
    PROVE  LET answer == T!constrainTypeTo(h, n, target)
           IN  StepsTo(h, answer.heap) /\ answer.ok \in BOOLEAN
<1> PICK answer : answer = T!constrainTypeTo(h, n, target)
    OBVIOUS
<1>1. CASE T!Resolved(h, n).kind = "var"
    <2> PICK g, x, v : g = T!newType(h, target) /\ x = T!Fresh(h) /\ v = h.is[n]
        OBVIOUS
    <2>1. /\ StepsTo(h, g) /\ x \in Nodes(g) /\ g.type[x] = target
          /\ x \in StandAlone(g) /\ StandAlone(h) \subseteq StandAlone(g) /\ x \notin Nodes(h)
        BY NewTypeGood
    <2>2. v \in StandAlone(h) /\ h.type[v].kind = "var"
        BY <1>1 DEF T!Resolved, Good, HeapOK, StandAlone
    <2>3. v \in FreeVars(g) /\ v # x
        BY <2>1, <2>2 DEF FreeVars, StandAlone, StepsTo, Extends
    <2>4. ~T!occursIn(g, v, x)
        <3>1. PICK O \in SUBSET Nodes(g) : OccursAt(g, v, O) /\ (T!occursIn(g, v, x) <=> x \in O)
            BY <2>1, OccursIs DEF StepsTo, Good
        <3>2. g.is[x] = x /\ PartsAt(g, x) = <<>>
            BY <2>1 DEF StandAlone, PartsAt
        <3> QED  BY <2>1, <2>3, <3>1, <3>2 DEF OccursAt
    <2>5. Good(T!insertSubstitution(g, v, x))
        BY <2>1, <2>3, <2>4, InsertionGood DEF StepsTo
    <2>6. T!insertSubstitution(g, v, x).type = g.type
        BY <2>1, InsertionIs DEF StepsTo, Good
    <2>7. StepsTo(g, T!insertSubstitution(g, v, x))
        BY <2>5, <2>6, SameTypesStep
    <2>8. answer.heap = T!insertSubstitution(g, v, x) /\ answer.ok = TRUE
        BY <1>1 DEF T!constrainTypeTo
    <2> QED  BY <2>1, <2>7, <2>8, StepsTwice
<1>2. CASE T!Resolved(h, n).kind # "var"
    <2>1. answer.heap = h /\ answer.ok \in BOOLEAN
        BY <1>2 DEF T!constrainTypeTo, T!SameKind
    <2> QED  BY <2>1, StepsToItself
<1> QED  BY <1>1, <1>2

\* What the identifiers are of: types of h.
Types(h, c) == c \in [Idents -> Nodes(h) \cup {NULL}]

\* An identifier that has a type keeps one.
Keeps(c, d) == \A name \in Idents : c[name] # NULL => d[name] # NULL

LEMMA NodesFacts ==
    ASSUME NEW h, Good(h)
    PROVE  NULL \notin Nodes(h) /\ Nodes(h) \subseteq Nat \ {0}
<1> PICK T1 : T1 = Type
    OBVIOUS
<1>1. h.type \in Seq(T1)
    BY DEF Good, HeapOK, Typed
<1> QED  BY <1>1, BackendAssumption DEF Nodes

LEMMA InsertConstraintSteps ==
    ASSUME NEW h, Good(h), NEW c, Types(h, c), NEW name \in Idents, NEW n \in Nodes(h)
    PROVE  LET answer == T!insertConstraint(h, c, name, n)
           IN  /\ StepsTo(h, answer.heap) /\ answer.ok \in BOOLEAN
               /\ Types(answer.heap, answer.constraint)
               /\ Keeps(c, answer.constraint) /\ answer.constraint[name] # NULL
<1> PICK answer : answer = T!insertConstraint(h, c, name, n)
    OBVIOUS
<1>0. n # NULL
    BY NodesFacts
<1>1. CASE c[name] = NULL
    <2>1. answer.heap = h /\ answer.ok = TRUE /\ answer.constraint = [c EXCEPT ![name] = n]
        BY <1>1 DEF T!insertConstraint
    <2> PICK d : d = [c EXCEPT ![name] = n]
        OBVIOUS
    <2>2. Types(h, d) /\ Keeps(c, d) /\ d[name] # NULL
        BY <1>0 DEF Types, Keeps
    <2> QED  BY <2>1, <2>2, StepsToItself
<1>2. CASE c[name] # NULL
    <2> PICK g : g = T!constrainTypes(h, c[name], n)
        OBVIOUS
    <2>1. answer.heap = g.heap /\ answer.ok = g.ok /\ answer.constraint = c
        BY <1>2 DEF T!insertConstraint
    <2>2. c[name] \in Nodes(h)
        BY <1>2 DEF Types
    <2>3. StepsTo(h, g.heap) /\ g.ok \in BOOLEAN
        BY <2>2, ConstrainTypesSteps
    <2>4. Types(g.heap, c)
        BY <2>3 DEF Types, StepsTo, Extends
    <2> QED  BY <1>2, <2>1, <2>3, <2>4 DEF Keeps
<1> QED  BY <1>1, <1>2

LEMMA TypesKeep ==
    ASSUME NEW h, NEW g, Extends(h, g), NEW c, Types(h, c)
    PROVE  Types(g, c)
BY DEF Types, Extends

-----------------------------------------------------------------------------
(* Names and notes. *)

LEMMA DeclNameFacts ==
    ASSUME program \in Programs, NEW d \in DOMAIN program.decls
    PROVE  program.decls[d].name \in Idents
<1>1. program.decls[d].name # NULL
    BY BackendAssumption DEF WellFormed
<1> DEFINE A == UNION {T!Range(program.terms[t].names) : t \in DOMAIN program.terms}
<1>2. T!Names(program) = A \cup {program.decls[c].name : c \in DOMAIN program.decls}
    BY DEF T!Names
<1> HIDE DEF A
<1> QED  BY <1>1, <1>2 DEF Idents

LEMMA TermNameFacts ==
    ASSUME program \in Programs, NEW t \in TermAt, NEW i \in 1 .. Len(Names(t)), Names(t)[i] # NULL
    PROVE  Names(t)[i] \in Idents
<1>1. i \in DOMAIN Names(t)
    BY NamesFacts
<1>2. Names(t)[i] \in T!Range(program.terms[t].names)
    BY <1>1 DEF T!Range, Names
<1> DEFINE A == {T!Range(program.terms[s].names) : s \in DOMAIN program.terms}
<1>3. T!Range(program.terms[t].names) \in A
    BY DEF TermAt
<1> DEFINE B == {program.decls[c].name : c \in DOMAIN program.decls}
<1>4. T!Names(program) = (UNION A) \cup B
    BY DEF T!Names
<1> HIDE DEF A, B
<1> QED  BY <1>2, <1>3, <1>4 DEF Idents

LEMMA ShapeFacts ==
    ASSUME program \in Programs, NEW t \in TermAt
    PROVE  /\ Kind(t) \in {"function", "var", "structure"} =>
                \A i \in 1 .. Len(Names(t)) : Names(t)[i] # NULL
           /\ Kind(t) = "function" => Len(Names(t)) > 0
           /\ Kind(t) = "var" => Len(Names(t)) = 1
           /\ Kind(t) = "conditional" => Len(Parts(t)) \in 2 .. 3
           /\ Kind(t) = "structure" => program.terms[t].op \in Structs /\ Len(Parts(t)) = Len(Names(t))
           /\ Kind(t) \in {"function", "block"} => Len(program.terms[t].notes) = Len(Names(t))
           /\ Kind(t) = "block" => Len(Parts(t)) \in Len(Names(t)) .. Len(Names(t)) + 1
           /\ Kind(t) \in {"constant", "boolean"} =>
                Len(program.terms[t].notes) = 1 /\ program.terms[t].notes[1] # NULL
<1>1. Shaped(program.terms[t])
    BY BackendAssumption DEF WellFormed, TermAt
<1>2. Kind(t) # "block" => NULL \notin {Names(t)[i] : i \in 1 .. Len(Names(t))}
    BY <1>1 DEF Shaped, Kind, Names
<1>3. Kind(t) \in {"function", "var", "structure"} => \A i \in 1 .. Len(Names(t)) : Names(t)[i] # NULL
    BY <1>2
<1> QED  BY <1>1, <1>3 DEF Shaped, Kind, Names, Parts

LEMMA NoteFacts ==
    ASSUME program \in Programs, NEW t \in TermAt
    PROVE  /\ DOMAIN program.terms[t].notes = 1 .. Len(program.terms[t].notes)
           /\ Len(program.terms[t].notes) \in Nat
           /\ \A i \in 1 .. Len(program.terms[t].notes) :
                program.terms[t].notes[i] \in DOMAIN program.types \cup {NULL}
<1>1. program.terms[t] \in Term
    <2> PICK S : S = Term
        OBVIOUS
    <2>1. program.terms \in Seq(S) /\ t \in DOMAIN program.terms
        BY ProgramFacts DEF TermAt
    <2> QED  BY <2>1
<1>2. program.terms[t].notes \in Seq(Nat \cup {NULL})
    BY <1>1 DEF Term
<1>3. \A i \in DOMAIN program.terms[t].notes :
            program.terms[t].notes[i] \in DOMAIN program.types \cup {NULL}
    BY BackendAssumption DEF WellFormed, TermAt
<1>4. DOMAIN program.terms[t].notes = 1 .. Len(program.terms[t].notes)
      /\ Len(program.terms[t].notes) \in Nat
    <2> PICK S : S = Nat \cup {NULL}
        OBVIOUS
    <2>1. program.terms[t].notes \in Seq(S)
        BY <1>2
    <2> QED  BY <2>1
<1> QED  BY <1>3, <1>4
-----------------------------------------------------------------------------
(* What the type checker keeps, besides its walk. *)

Calls(h) ==
    [term : TermAt \cup {NULL}, at : Nat, fun : Nodes(h) \cup {NULL}, prev : Nodes(h) \cup {NULL}]

\* The type of a function, once made, has a result; and when arguments are
\* next, the type of the callee has as many parameters.
FrameFits(f, h, types) ==
    /\ f.fun # NULL => h.type[f.fun].parts # <<>>
    /\ f.term # NULL /\ f.term \in TermAt /\ Kind(f.term) = "application" /\ f.at > 0 =>
        Len(h.type[types[Parts(f.term)[1]]].parts) = Len(Parts(f.term))

StackFits == \A i \in 1 .. Len(stack) : FrameFits(stack[i], heap, typed)

DeclsFit ==
    \A d \in DOMAIN program.decls :
        d < decl => declType[d] # NULL /\ constraint[program.decls[d].name] # NULL

\* The types that are written down are there from the beginning.
Noted(h) == DOMAIN program.types \subseteq Nodes(h)

TyperOK ==
    /\ Good(heap) /\ Noted(heap)
    /\ Types(heap, constraint)
    /\ typed \in [TermAt -> Nodes(heap) \cup {NULL}]
    /\ declType \in [DOMAIN program.decls -> Nodes(heap) \cup {NULL}]
    /\ stack \in Seq(Calls(heap))
    /\ currentReturnType \in Nodes(heap) \cup {NULL}
    /\ decl \in 1 .. Len(program.decls) + 1
    /\ ignored \in BOOLEAN
    /\ status = "typing" => StackFits /\ DeclsFit

Constrains ==
    /\ StepsTo(heap, heap')
    /\ Types(heap', constraint') /\ Keeps(constraint, constraint')
    /\ ignored' \in BOOLEAN

TakesPart ==
    /\ InTerm /\ PartTyped
    /\ stack' = [stack EXCEPT ![1].at = @ + 1]
    /\ Kind(TopTerm) = "application" /\ TopAt = 0 =>
        Len(heap.type[typed[NextPart]].parts) = Len(Parts(TopTerm))
    /\ Constrains
    /\ UNCHANGED <<program, typed, declType, decl, currentReturnType, status>>

ReturnsType ==
    /\ InTerm
    /\ stack' = Tail(stack)
    /\ \E n \in Nodes(heap') : typed' = [typed EXCEPT ![TopTerm] = n]
    /\ Constrains
    /\ currentReturnType' \in Nodes(heap') \cup {NULL}
    /\ UNCHANGED <<program, declType, decl, status>>

CallsTerm ==
    /\ \E t \in TermAt \cup {NULL} : stack' = <<T!Frame(t)>> \o stack
    /\ UNCHANGED <<program, heap, typed, declType, decl, status>>
    /\ UNCHANGED <<constraint, currentReturnType, ignored>>

EntersFunction ==
    /\ InTerm
    /\ \E fun \in Nodes(heap') :
        /\ heap'.type[fun].parts # <<>>
        /\ stack' = [stack EXCEPT ![1].fun = fun, ![1].prev = currentReturnType]
    /\ Constrains
    /\ currentReturnType' \in Nodes(heap')
    /\ UNCHANGED <<program, typed, declType, decl, status>>

DeclaresType ==
    /\ decl \in DOMAIN program.decls
    /\ \E n \in Nodes(heap') : declType' = [declType EXCEPT ![decl] = n]
    /\ Constrains
    /\ constraint'[program.decls[decl].name] # NULL
    /\ decl' = decl + 1
    /\ UNCHANGED <<program, stack, typed, currentReturnType, ignored, status>>

StopsTyping ==
    /\ status' \in {"fatal", "crash"}
    /\ UNCHANGED <<program, heap, typed, declType, decl, stack>>
    /\ UNCHANGED <<constraint, currentReturnType, ignored>>

\* What is of the types of heap is of those of heap'.
LEMMA GrownKeeps ==
    ASSUME program \in Programs, TyperOK, Constrains, program' = program
    PROVE  /\ Good(heap') /\ Noted(heap)' /\ Types(heap, constraint)'
           /\ Nodes(heap) \subseteq Nodes(heap')
           /\ typed \in [TermAt -> Nodes(heap') \cup {NULL}]
           /\ declType \in [DOMAIN program.decls -> Nodes(heap') \cup {NULL}]
           /\ Calls(heap) \subseteq Calls(heap') /\ stack \in Seq(Calls(heap'))
           /\ currentReturnType \in Nodes(heap') \cup {NULL}
<1>1. Good(heap') /\ Nodes(heap) \subseteq Nodes(heap')
    BY DEF Constrains, StepsTo, Extends
<1>2. Noted(heap)' /\ Types(heap, constraint)'
    <2>1. Noted(heap')
        BY <1>1 DEF TyperOK, Noted
    <2>2. Types(heap', constraint')
        BY DEF Constrains
    <2>3. Noted(heap)'
        BY <2>1 DEF Noted
    <2>4. Idents' = Idents
        BY DEF Idents
    <2>5. Types(heap, constraint)'
        BY <2>2, <2>4 DEF Types
    <2> QED  BY <2>3, <2>5
<1>3. /\ typed \in [TermAt -> Nodes(heap') \cup {NULL}]
      /\ declType \in [DOMAIN program.decls -> Nodes(heap') \cup {NULL}]
      /\ currentReturnType \in Nodes(heap') \cup {NULL}
    BY <1>1 DEF TyperOK
<1>4. Calls(heap) \subseteq Calls(heap')
    BY <1>1 DEF Calls
<1>5. stack \in Seq(Calls(heap'))
    <2> PICK A, B : A = Calls(heap) /\ B = Calls(heap')
        OBVIOUS
    <2>1. stack \in Seq(A) /\ A \subseteq B
        BY <1>4 DEF TyperOK
    <2>2. stack \in Seq(B)
        BY <2>1
    <2> QED  BY <2>2
<1> QED  BY <1>1, <1>2, <1>3, <1>4, <1>5

\* A frame that fits, when types are added and other terms are typed.
LEMMA FitKeeps ==
    ASSUME program \in Programs, TyperOK, StepsTo(heap, heap'), NEW f \in Calls(heap),
           FrameFits(f, heap, typed), FrameOK(f, program.terms, typed),
           NEW types, \A t \in TermAt : typed[t] # NULL => types[t] = typed[t]
    PROVE  FrameFits(f, heap', types)
<1>1. \A n \in Nodes(heap) : heap'.type[n] = heap.type[n]
    BY DEF StepsTo, Extends
<1>2. f.fun # NULL => heap'.type[f.fun].parts # <<>>
    BY <1>1 DEF FrameFits, Calls
<1>3. ASSUME f.term # NULL, f.term \in TermAt, Kind(f.term) = "application", f.at > 0
      PROVE  Len(heap'.type[types[Parts(f.term)[1]]].parts) = Len(Parts(f.term))
    <2>1. 1 \in 1 .. f.at
        BY <1>3 DEF Calls
    <2>2. Parts(f.term)[1] \in TermAt /\ typed[Parts(f.term)[1]] # NULL
        BY <1>3, <2>1 DEF FrameOK, Parts, TermAt
    <2>3. types[Parts(f.term)[1]] = typed[Parts(f.term)[1]] /\ typed[Parts(f.term)[1]] \in Nodes(heap)
        BY <2>2 DEF TyperOK
    <2> QED  BY <1>1, <1>3, <2>3 DEF FrameFits
<1> QED  BY <1>2, <1>3 DEF FrameFits

LEMMA DeclsKeep ==
    ASSUME program \in Programs, DeclsFit, Constrains, program' = program, decl' = decl, declType' = declType
    PROVE  DeclsFit'
<1> SUFFICES ASSUME NEW d \in DOMAIN program.decls, d < decl
             PROVE  declType[d] # NULL /\ constraint'[program.decls[d].name] # NULL
    BY DEF DeclsFit
<1>1. declType[d] # NULL /\ constraint[program.decls[d].name] # NULL
    BY DEF DeclsFit
<1>2. program.decls[d].name \in Idents
    BY DeclNameFacts
<1> QED  BY <1>1, <1>2 DEF Constrains, Keeps

LEMMA StackFacts ==
    ASSUME TyperOK, stack # <<>>
    PROVE  /\ Len(stack) \in Nat \ {0} /\ 1 \in 1 .. Len(stack) /\ stack[1] = Head(stack)
           /\ \A i \in 1 .. Len(stack) : stack[i] \in Calls(heap)
           /\ Head(stack) \in Calls(heap)
<1> PICK C : C = Calls(heap)
    OBVIOUS
<1>1. stack \in Seq(C)
    BY DEF TyperOK
<1> QED  BY <1>1

\* One frame is set, the types and the typed terms being what they are.
LEMMA TopSetFits ==
    ASSUME program \in Programs, TyperOK, Walk, StackFits, StepsTo(heap, heap'),
           program' = program, typed' = typed, stack # <<>>,
           NEW f \in Calls(heap'), stack' = [stack EXCEPT ![1] = f], FrameFits(f, heap', typed)
    PROVE  stack' \in Seq(Calls(heap')) /\ StackFits'
<1> PICK B : B = Calls(heap')
    OBVIOUS
<1>1. Calls(heap) \subseteq B
    BY DEF StepsTo, Extends, Calls
<1> PICK A : A = Calls(heap)
    OBVIOUS
<1>2. stack \in Seq(A) /\ A \subseteq B
    BY <1>1 DEF TyperOK
<1>3. stack \in Seq(B) /\ f \in B
    BY <1>2
<1>4. /\ stack' \in Seq(B) /\ Len(stack') = Len(stack) /\ Len(stack) \in Nat \ {0}
      /\ stack'[1] = f /\ \A i \in 2 .. Len(stack) : stack'[i] = stack[i]
    BY <1>3, SetIn, SetFacts
<1>5. ASSUME NEW i \in 1 .. Len(stack') PROVE FrameFits(stack'[i], heap', typed)
    <2>1. CASE i = 1
        BY <1>4, <2>1
    <2>2. CASE i # 1
        <3>1. i \in 1 .. Len(stack) /\ stack'[i] = stack[i]
            BY <1>4, <2>2
        <3>2. FrameFits(stack[i], heap, typed) /\ FrameOK(stack[i], program.terms, typed)
              /\ stack[i] \in Calls(heap)
            BY <3>1, StackFacts DEF StackFits, Walk, StackOK
        <3> QED  BY <3>1, <3>2, FitKeeps
    <2> QED  BY <2>1, <2>2
<1>6. StackFits'
    BY <1>5, Zenon DEF StackFits, FrameFits, TermAt, Kind, Parts
<1> QED  BY <1>4, <1>6

LEMMA TakesKeeps ==
    ASSUME program \in Programs, TyperOK, Walk, TakesPart
    PROVE  TyperOK'
<1>1. status = "typing" /\ stack # <<>> /\ StackFits /\ DeclsFit
    BY DEF TakesPart, InTerm, TyperOK
<1>2. Head(stack) \in Calls(heap) /\ stack[1] = Head(stack) /\ FrameFits(Head(stack), heap, typed)
    BY <1>1, StackFacts DEF StackFits
<1> PICK c, d : c = Head(stack) /\ d = [c EXCEPT !.at = @ + 1]
    OBVIOUS
<1>3. d = [term |-> c.term, at |-> c.at + 1, fun |-> c.fun, prev |-> c.prev]
      /\ d \in Calls(heap)
    BY <1>2 DEF Calls
<1>4. Constrains /\ StepsTo(heap, heap') /\ program' = program
    BY DEF TakesPart, Constrains
<1>5. d \in Calls(heap')
    BY <1>3, <1>4, GrownKeeps
<1>6. stack' = [stack EXCEPT ![1] = d]
    BY <1>2 DEF TakesPart
<1>7. FrameFits(d, heap, typed)
    <2>1. d.fun # NULL => heap.type[d.fun].parts # <<>>
        BY <1>2, <1>3, Zenon DEF FrameFits
    <2>2. ASSUME d.term # NULL, d.term \in TermAt, Kind(d.term) = "application"
          PROVE  Len(heap.type[typed[Parts(d.term)[1]]].parts) = Len(Parts(d.term))
        <3>1. CASE c.at = 0
            BY <1>3, <2>2, <3>1 DEF TakesPart, TopTerm, TopAt, NextPart
        <3>2. CASE c.at # 0
            BY SMTT(30), <1>2, <1>3, <2>2, <3>2 DEF FrameFits, Calls
        <3> QED  BY <3>1, <3>2, Zenon
    <2> QED  BY <2>1, <2>2 DEF FrameFits
<1>8. FrameFits(d, heap', typed)
    <2>1. \A n \in Nodes(heap) : heap'.type[n] = heap.type[n]
        BY <1>4 DEF StepsTo, Extends
    <2>2. d.fun # NULL => heap'.type[d.fun].parts # <<>>
        BY <1>3, <1>7, <2>1 DEF FrameFits, Calls
    <2>3. ASSUME d.term # NULL, d.term \in TermAt, Kind(d.term) = "application"
          PROVE  typed[Parts(d.term)[1]] \in Nodes(heap)
        <3>1. InTerm /\ d.term = TopTerm
            BY <1>3 DEF TakesPart, TopTerm
        <3>2. /\ TopAt \in 0 .. Len(Parts(TopTerm)) /\ Len(Parts(TopTerm)) \in Nat
              /\ DOMAIN Parts(TopTerm) = 1 .. Len(Parts(TopTerm))
              /\ \A i \in 1 .. TopAt : Parts(TopTerm)[i] \in Done
              /\ TopAt < Len(Parts(TopTerm)) /\ NextPart # NULL /\ typed[NextPart] # NULL
              /\ \A i \in DOMAIN Parts(TopTerm) :
                    Parts(TopTerm)[i] # NULL => Parts(TopTerm)[i] \in TermAt
            BY <3>1, InTermFacts, TermFacts DEF TakesPart, PartTyped
        <3>3. CASE TopAt = 0
            <4>1. NextPart = Parts(TopTerm)[1] /\ NextPart \in TermAt
                BY <3>2, <3>3 DEF NextPart
            <4> QED  BY <3>1, <3>2, <4>1 DEF TyperOK
        <3>4. CASE TopAt # 0
            <4>1. Parts(TopTerm)[1] \in Done
                BY <3>2, <3>4
            <4> QED  BY <3>1, <4>1 DEF TyperOK, Done
        <3> QED  BY <3>3, <3>4
    <2> QED  BY <1>7, <2>1, <2>2, <2>3 DEF FrameFits
<1>9. stack' \in Seq(Calls(heap')) /\ StackFits'
    BY <1>1, <1>4, <1>5, <1>6, <1>8, TopSetFits DEF TakesPart
<1>10. DeclsFit'
    BY <1>1, <1>4, DeclsKeep DEF TakesPart
<1>11. /\ Good(heap') /\ Noted(heap)' /\ Types(heap, constraint)'
       /\ typed \in [TermAt -> Nodes(heap') \cup {NULL}]
       /\ declType \in [DOMAIN program.decls -> Nodes(heap') \cup {NULL}]
       /\ currentReturnType \in Nodes(heap') \cup {NULL}
    BY <1>4, GrownKeeps
<1>12. Calls(heap)' = Calls(heap')
    BY <1>4 DEF Calls, TermAt
<1>13. /\ decl \in 1 .. Len(program.decls) + 1 /\ ignored' \in BOOLEAN
    BY <1>4 DEF TyperOK, Constrains
<1>14. UNCHANGED <<program, typed, declType, decl, currentReturnType, status>>
    BY DEF TakesPart
<1> QED  BY <1>9, <1>10, <1>11, <1>12, <1>13, <1>14 DEF TyperOK, TermAt

LEMMA ReturnsKeeps ==
    ASSUME program \in Programs, TyperOK, Walk, ReturnsType
    PROVE  TyperOK'
<1>1. InTerm /\ status = "typing" /\ stack # <<>> /\ StackFits /\ DeclsFit
    BY DEF ReturnsType, InTerm, TyperOK
<1>2. Constrains /\ StepsTo(heap, heap') /\ program' = program
    BY DEF ReturnsType, Constrains
<1>3. /\ Good(heap') /\ Noted(heap)' /\ Types(heap, constraint)'
      /\ typed \in [TermAt -> Nodes(heap') \cup {NULL}]
      /\ declType \in [DOMAIN program.decls -> Nodes(heap') \cup {NULL}]
      /\ stack \in Seq(Calls(heap'))
    BY <1>2, GrownKeeps
<1>4. PICK n \in Nodes(heap') : typed' = [typed EXCEPT ![TopTerm] = n]
    BY DEF ReturnsType
<1>5. TopTerm \in TermAt /\ typed[TopTerm] = NULL
    BY <1>1, InTermFacts
<1>6. /\ typed' \in [TermAt -> Nodes(heap') \cup {NULL}]
      /\ \A t \in TermAt : typed[t] # NULL => typed'[t] = typed[t]
    BY <1>3, <1>4, <1>5
<1> PICK A, B : A = Calls(heap) /\ B = Calls(heap')
    OBVIOUS
<1>7. stack \in Seq(A) /\ stack \in Seq(B)
    BY <1>3 DEF TyperOK
<1>8. /\ stack' \in Seq(B) /\ Len(stack') = Len(stack) - 1 /\ Len(stack) \in Nat \ {0}
      /\ \A i \in 1 .. Len(stack) - 1 : stack'[i] = stack[i + 1]
    BY <1>1, <1>7, PopFacts DEF ReturnsType
<1>9. ASSUME NEW i \in 1 .. Len(stack') PROVE FrameFits(stack'[i], heap', typed')
    <2>1. i + 1 \in 1 .. Len(stack) /\ stack'[i] = stack[i + 1]
        BY <1>8
    <2>2. FrameFits(stack[i + 1], heap, typed) /\ FrameOK(stack[i + 1], program.terms, typed)
          /\ stack[i + 1] \in Calls(heap)
        BY <1>1, <2>1, StackFacts DEF StackFits, Walk, StackOK
    <2> PICK types : types = typed'
        OBVIOUS
    <2>3. \A t \in TermAt : typed[t] # NULL => types[t] = typed[t]
        BY <1>6
    <2>4. FrameFits(stack[i + 1], heap', types)
        BY <1>2, <2>2, <2>3, FitKeeps
    <2> QED  BY <2>1, <2>4
<1>10. StackFits'
    BY <1>2, <1>9, Zenon DEF StackFits, FrameFits, TermAt, Kind, Parts
<1>11. DeclsFit'
    BY <1>1, <1>2, DeclsKeep DEF ReturnsType
<1>12. Calls(heap)' = Calls(heap')
    BY <1>2 DEF Calls, TermAt
<1>13. decl \in 1 .. Len(program.decls) + 1 /\ ignored' \in BOOLEAN
       /\ currentReturnType' \in Nodes(heap') \cup {NULL}
    BY <1>2 DEF TyperOK, Constrains, ReturnsType
<1>14. UNCHANGED <<program, declType, decl, status>>
    BY DEF ReturnsType
<1> QED  BY <1>3, <1>6, <1>8, <1>10, <1>11, <1>12, <1>13, <1>14 DEF TyperOK, TermAt

LEMMA CallsKeeps ==
    ASSUME program \in Programs, TyperOK, Walk, status = "typing", CallsTerm
    PROVE  TyperOK'
<1>1. UNCHANGED <<program, heap, typed, declType, decl, status, constraint, currentReturnType, ignored>>
    BY DEF CallsTerm
<1>2. PICK t \in TermAt \cup {NULL} : stack' = <<T!Frame(t)>> \o stack
    BY DEF CallsTerm
<1> PICK f : f = T!Frame(t)
    OBVIOUS
<1>3. f = [term |-> t, at |-> 0, fun |-> NULL, prev |-> NULL] /\ f \in Calls(heap)
    BY DEF T!Frame, Calls
<1> PICK A : A = Calls(heap)
    OBVIOUS
<1>4. stack \in Seq(A) /\ f \in A
    BY <1>3 DEF TyperOK
<1>5. /\ stack' \in Seq(A) /\ Len(stack') = Len(stack) + 1 /\ Len(stack) \in Nat
      /\ stack'[1] = f /\ \A i \in 2 .. Len(stack) + 1 : stack'[i] = stack[i - 1]
    BY <1>2, <1>4, PushFacts
<1>6. FrameFits(f, heap, typed)
    BY <1>3 DEF FrameFits
<1>7. StackFits /\ DeclsFit
    BY DEF TyperOK
<1>8. ASSUME NEW i \in 1 .. Len(stack') PROVE FrameFits(stack'[i], heap, typed)
    <2>1. CASE i = 1
        BY <1>5, <1>6, <2>1
    <2>2. CASE i # 1
        BY <1>5, <1>7, <2>2 DEF StackFits
    <2> QED  BY <2>1, <2>2
<1>9. StackFits'
    BY <1>1, <1>8, Zenon DEF StackFits, FrameFits, TermAt, Kind, Parts
<1>10. DeclsFit'
    BY <1>1, <1>7 DEF DeclsFit
<1>11. Calls(heap)' = Calls(heap)
    BY <1>1 DEF Calls, TermAt, Nodes
<1>12. /\ Good(heap)' /\ Noted(heap)' /\ Types(heap, constraint)'
    BY <1>1 DEF TyperOK, Noted, Types, Idents
<1> QED  BY <1>1, <1>5, <1>9, <1>10, <1>11, <1>12 DEF TyperOK, TermAt

LEMMA EntersKeeps ==
    ASSUME program \in Programs, TyperOK, Walk, EntersFunction
    PROVE  TyperOK'
<1>1. status = "typing" /\ stack # <<>> /\ StackFits /\ DeclsFit
    BY DEF EntersFunction, InTerm, TyperOK
<1>2. Head(stack) \in Calls(heap) /\ stack[1] = Head(stack) /\ FrameFits(Head(stack), heap, typed)
      /\ FrameOK(stack[1], program.terms, typed)
    BY <1>1, StackFacts DEF StackFits, Walk, StackOK
<1>3. Constrains /\ StepsTo(heap, heap') /\ program' = program
    BY DEF EntersFunction, Constrains
<1>4. PICK fun \in Nodes(heap') :
        /\ heap'.type[fun].parts # <<>>
        /\ stack' = [stack EXCEPT ![1].fun = fun, ![1].prev = currentReturnType]
    BY DEF EntersFunction
<1>5. /\ Good(heap') /\ Noted(heap)' /\ Types(heap, constraint)'
      /\ typed \in [TermAt -> Nodes(heap') \cup {NULL}]
      /\ declType \in [DOMAIN program.decls -> Nodes(heap') \cup {NULL}]
      /\ currentReturnType \in Nodes(heap') \cup {NULL}
    BY <1>3, GrownKeeps
<1> PICK c, e, d : /\ c = Head(stack)
                   /\ e = [c EXCEPT !.fun = fun]
                   /\ d = [e EXCEPT !.prev = currentReturnType]
    OBVIOUS
<1>6. e = [term |-> c.term, at |-> c.at, fun |-> fun, prev |-> c.prev]
    BY <1>2 DEF Calls
<1>7. d = [term |-> c.term, at |-> c.at, fun |-> fun, prev |-> currentReturnType]
    BY <1>6
<1>8. d \in Calls(heap')
    BY <1>2, <1>5, <1>7 DEF Calls
<1>9. stack' = [stack EXCEPT ![1] = d]
    <2>1. [c EXCEPT !.fun = fun, !.prev = currentReturnType] = d
        OBVIOUS
    <2> PICK s1 : s1 = [stack EXCEPT ![1] = e]
        OBVIOUS
    <2> PICK A : A = Calls(heap) \cup {e}
        OBVIOUS
    <2>2. stack \in Seq(A) /\ e \in A
        <3> PICK C : C = Calls(heap)
            OBVIOUS
        <3>1. stack \in Seq(C) /\ C \subseteq A
            BY DEF TyperOK
        <3> QED  BY <3>1
    <2>3. s1[1] = e
        BY <1>1, <2>2
    <2>4. stack' = [s1 EXCEPT ![1].prev = currentReturnType]
        BY <1>2, <1>4
    <2>5. stack' = [s1 EXCEPT ![1] = d]
        BY <2>3, <2>4
    <2> QED  BY <1>1, <2>2, <2>5
<1>10. FrameFits(c, heap', typed)
    BY <1>2, <1>3, FitKeeps, Zenon
<1>11. FrameFits(d, heap', typed)
    BY <1>4, <1>7, <1>10 DEF FrameFits
<1>12. stack' \in Seq(Calls(heap')) /\ StackFits'
    BY <1>1, <1>3, <1>8, <1>9, <1>11, TopSetFits DEF EntersFunction
<1>13. DeclsFit'
    BY <1>1, <1>3, DeclsKeep DEF EntersFunction
<1>14. Calls(heap)' = Calls(heap')
    BY <1>3 DEF Calls, TermAt
<1>15. decl \in 1 .. Len(program.decls) + 1 /\ ignored' \in BOOLEAN
       /\ currentReturnType' \in Nodes(heap') \cup {NULL}
    BY <1>3 DEF TyperOK, Constrains, EntersFunction
<1>16. UNCHANGED <<program, typed, declType, decl, status>>
    BY DEF EntersFunction
<1> QED  BY <1>5, <1>12, <1>13, <1>14, <1>15, <1>16 DEF TyperOK, TermAt

LEMMA DeclaresKeeps ==
    ASSUME program \in Programs, TyperOK, Walk, status = "typing", DeclaresType
    PROVE  TyperOK'
<1>1. StackFits /\ DeclsFit
    BY DEF TyperOK
<1>2. Constrains /\ StepsTo(heap, heap') /\ program' = program /\ ignored' = ignored
    BY DEF DeclaresType, Constrains
<1>3. /\ Good(heap') /\ Noted(heap)' /\ Types(heap, constraint)'
      /\ typed \in [TermAt -> Nodes(heap') \cup {NULL}]
      /\ declType \in [DOMAIN program.decls -> Nodes(heap') \cup {NULL}]
      /\ stack \in Seq(Calls(heap'))
      /\ currentReturnType \in Nodes(heap') \cup {NULL}
    BY <1>2, GrownKeeps
<1>4. PICK n \in Nodes(heap') : declType' = [declType EXCEPT ![decl] = n]
    BY DEF DeclaresType
<1>5. /\ declType' \in [DOMAIN program.decls -> Nodes(heap') \cup {NULL}]
      /\ declType'[decl] = n
      /\ \A d \in DOMAIN program.decls : d # decl => declType'[d] = declType[d]
    BY <1>3, <1>4 DEF DeclaresType
<1>6. ASSUME NEW i \in 1 .. Len(stack) PROVE FrameFits(stack[i], heap', typed)
    <2>1. FrameFits(stack[i], heap, typed) /\ FrameOK(stack[i], program.terms, typed)
          /\ stack[i] \in Calls(heap)
        <3>1. stack # <<>>
            <4> PICK C : C = Calls(heap)
                OBVIOUS
            <4>1. stack \in Seq(C)
                BY DEF TyperOK
            <4> QED  BY <4>1
        <3> QED  BY <1>1, <3>1, StackFacts DEF StackFits, Walk, StackOK
    <2> QED  BY <1>2, <2>1, FitKeeps
<1>7. StackFits'
    BY <1>2, <1>6, Zenon DEF StackFits, FrameFits, TermAt, Kind, Parts, DeclaresType
<1>8. ASSUME NEW d \in DOMAIN program.decls, d < decl + 1
      PROVE  declType'[d] # NULL /\ constraint'[program.decls[d].name] # NULL
    <2>1. CASE d = decl
        <3>1. n # NULL
            BY <1>3, NodesFacts
        <3> QED  BY <1>5, <2>1, <3>1 DEF DeclaresType
    <2>2. CASE d # decl
        <3>1. d < decl
            BY <1>8, <2>2, ProgramFacts DEF DeclaresType
        <3>2. declType[d] # NULL /\ constraint[program.decls[d].name] # NULL
            BY <1>1, <3>1 DEF DeclsFit
        <3>3. program.decls[d].name \in Idents
            BY DeclNameFacts
        <3> QED  BY <1>2, <1>5, <2>2, <3>2, <3>3 DEF Constrains, Keeps
    <2> QED  BY <2>1, <2>2
<1>9. DeclsFit'
    BY <1>2, <1>8 DEF DeclsFit, DeclaresType
<1>10. Calls(heap)' = Calls(heap')
    BY <1>2 DEF Calls, TermAt
<1>11. decl' \in 1 .. Len(program.decls) + 1 /\ ignored' \in BOOLEAN
    BY <1>2, ProgramFacts DEF TyperOK, DeclaresType
<1>12. UNCHANGED <<program, stack, typed, currentReturnType, status>>
    BY DEF DeclaresType
<1> QED  BY <1>3, <1>5, <1>7, <1>9, <1>10, <1>11, <1>12 DEF TyperOK, TermAt

\* Where only the status changes, and the type checker stops.
LEMMA RestKeeps ==
    ASSUME TyperOK, status' # "typing",
           UNCHANGED <<program, heap, typed, declType, decl, stack>>,
           UNCHANGED <<constraint, currentReturnType, ignored>>
    PROVE  TyperOK'
<1>1. UNCHANGED <<program, heap, typed, declType, decl, stack, constraint, currentReturnType, ignored>>
    OBVIOUS
<1>2. Calls(heap)' = Calls(heap)
    BY <1>1 DEF Calls, TermAt, Nodes
<1>3. Good(heap)' /\ Noted(heap)' /\ Types(heap, constraint)'
    BY <1>1 DEF TyperOK, Noted, Types, Idents
<1> QED  BY <1>1, <1>2, <1>3 DEF TyperOK, TermAt

LEMMA AcceptsKeeps ==
    ASSUME program \in Programs, TyperOK, Walk, T!ResolveDecls
    PROVE  TyperOK'
<1>1. /\ status = "typing" /\ decl > Len(program.decls) /\ status' = "typed"
      /\ UNCHANGED <<program, heap, stack, decl, currentReturnType, ignored>>
    BY DEF T!ResolveDecls
<1> PICK exps, names : /\ exps = {program.decls[d].exp : d \in DOMAIN program.decls}
                       /\ names = {program.decls[d].name : d \in DOMAIN program.decls}
    OBVIOUS
<1>2. PICK copies \in SUBSET T!Overwritten :
        /\ typed' = [t \in DOMAIN typed |->
                        IF t \in exps \cup copies THEN heap.is[typed[t]] ELSE typed[t]]
        /\ constraint' = [name \in DOMAIN constraint |->
                        IF name \in names THEN heap.is[constraint[name]] ELSE constraint[name]]
    BY DEF T!ResolveDecls
<1>3. declType' = [d \in DOMAIN declType |-> heap.is[declType[d]]]
    BY DEF T!ResolveDecls
<1>4. \A d \in DOMAIN program.decls : d < decl
    BY <1>1, ProgramFacts DEF TyperOK
<1>5. heap.is \in [Nodes(heap) -> Nodes(heap)]
    BY DEF TyperOK, Good, HeapOK
<1>6. ASSUME NEW t \in TermAt, t \in exps \cup copies PROVE typed[t] \in Nodes(heap)
    <2>1. CASE t \in copies
        <3>1. typed[t] # NULL
            BY <2>1 DEF T!Overwritten
        <3> QED  BY <3>1 DEF TyperOK
    <2>2. CASE t \in exps
        <3>1. PICK d \in DOMAIN program.decls : t = program.decls[d].exp
            BY <2>2
        <3>2. t # NULL
            BY ProgramFacts, BackendAssumption
        <3>3. t \in Done
            BY <1>4, <3>1, <3>2 DEF Walk
        <3> QED  BY <3>3 DEF Done, TyperOK
    <2> QED  BY <1>6, <2>1, <2>2
<1>7. ASSUME NEW t \in TermAt PROVE typed'[t] \in Nodes(heap) \cup {NULL}
    BY <1>2, <1>5, <1>6 DEF TyperOK
<1>8. typed' \in [TermAt -> Nodes(heap) \cup {NULL}]
    BY <1>2, <1>7 DEF TyperOK
<1>9. ASSUME NEW name \in Idents PROVE constraint'[name] \in Nodes(heap) \cup {NULL}
    <2>1. CASE name \in names
        <3>1. PICK d \in DOMAIN program.decls : name = program.decls[d].name
            BY <2>1
        <3>2. constraint[name] # NULL
            BY <1>1, <1>4, <3>1 DEF TyperOK, DeclsFit
        <3> QED  BY <1>2, <1>5, <2>1, <3>2 DEF TyperOK, Types
    <2>2. CASE name \notin names
        BY <1>2, <2>2 DEF TyperOK, Types
    <2> QED  BY <2>1, <2>2
<1>10. constraint' \in [Idents -> Nodes(heap) \cup {NULL}]
    BY <1>2, <1>9 DEF TyperOK, Types
<1>11. ASSUME NEW d \in DOMAIN program.decls PROVE declType'[d] \in Nodes(heap)
    <2>1. declType[d] # NULL
        BY <1>1, <1>4 DEF TyperOK, DeclsFit
    <2> QED  BY <1>3, <1>5, <2>1 DEF TyperOK
<1>12. declType' \in [DOMAIN program.decls -> Nodes(heap) \cup {NULL}]
    BY <1>3, <1>11 DEF TyperOK
<1>13. Calls(heap)' = Calls(heap) /\ Idents' = Idents /\ Good(heap)' /\ Noted(heap)'
    BY <1>1 DEF Calls, TermAt, Nodes, TyperOK, Noted, Idents
<1>14. Types(heap, constraint)'
    BY <1>1, <1>10, <1>13 DEF Types
<1> QED  BY <1>1, <1>8, <1>12, <1>13, <1>14 DEF TyperOK, TermAt

-----------------------------------------------------------------------------
(* Equal types: what EqualUnder says, and that it says the same of types    *)
(* that have come to stand for others.                                      *)

\* The types that a and b stand for have equal parts, by the pairs of Q.
PartsEqual(h, Q, a, b) ==
    LET l == h.type[h.is[a]]
        r == h.type[h.is[b]]
    IN  /\ l.kind # "var" /\ l.kind = r.kind /\ Len(l.parts) = Len(r.parts)
        /\ \A i \in DOMAIN l.parts :
            l.parts[i].name = r.parts[i].name /\ <<l.parts[i].type, r.parts[i].type>> \in Q

EqualBy(h, Q, a, b) == h.is[a] = h.is[b] \/ PartsEqual(h, Q, a, b)

Justified(h, Q) == \A a, b \in Nodes(h) : <<a, b>> \in Q => EqualBy(h, Q, a, b)

EqualAt(h, Q) == \A a, b \in Nodes(h) : <<a, b>> \in Q <=> EqualBy(h, Q, a, b)

LEMMA EqualMonotone ==
    ASSUME NEW h, NEW P, NEW Q, P \subseteq Q, NEW a, NEW b, EqualBy(h, P, a, b)
    PROVE  EqualBy(h, Q, a, b)
BY Zenon DEF EqualBy, PartsEqual

LEMMA EqualExists ==
    ASSUME NEW h
    PROVE  \E Q \in SUBSET (Nodes(h) \X Nodes(h)) : EqualAt(h, Q)
<1> DEFINE N == Nodes(h)
<1> DEFINE Q == {p \in N \X N : \E W \in SUBSET (N \X N) : p \in W /\ Justified(h, W)}
<1>1. Q \in SUBSET (N \X N)
    OBVIOUS
<1>2. ASSUME NEW W \in SUBSET (N \X N), Justified(h, W) PROVE W \subseteq Q
    BY <1>2
<1>3. ASSUME NEW a \in N, NEW b \in N, <<a, b>> \in Q PROVE EqualBy(h, Q, a, b)
    <2>1. PICK W \in SUBSET (N \X N) : <<a, b>> \in W /\ Justified(h, W)
        BY <1>3
    <2>2. W \subseteq Q
        BY <1>2, <2>1
    <2> HIDE DEF Q
    <2>3. EqualBy(h, W, a, b)
        BY <2>1 DEF Justified
    <2> QED  BY <2>2, <2>3, EqualMonotone
<1>4. ASSUME NEW a \in N, NEW b \in N, EqualBy(h, Q, a, b) PROVE <<a, b>> \in Q
    <2> DEFINE W == Q \cup {<<a, b>>}
    <2>1. W \in SUBSET (N \X N) /\ Q \subseteq W /\ <<a, b>> \in W
        BY <1>1
    <2>2. ASSUME NEW c \in N, NEW d \in N, <<c, d>> \in W PROVE EqualBy(h, W, c, d)
        <3>1. EqualBy(h, Q, c, d)
            <4>1. CASE <<c, d>> \in Q
                <5> HIDE DEF Q
                <5> QED  BY <1>3, <4>1
            <4>2. CASE <<c, d>> \notin Q
                <5>1. c = a /\ d = b
                    <6> HIDE DEF Q
                    <6> QED  BY <2>2, <4>2
                <5> HIDE DEF Q, W
                <5> QED  BY <1>4, <5>1
            <4> QED  BY <4>1, <4>2
        <3> HIDE DEF Q, W
        <3> QED  BY <2>1, <3>1, EqualMonotone
    <2>3. Justified(h, W)
        <3> HIDE DEF W
        <3> QED  BY <2>2 DEF Justified
    <2> HIDE DEF Q, W
    <2> QED  BY <1>2, <2>1, <2>3
<1> HIDE DEF Q
<1>5. EqualAt(h, Q)
    BY <1>3, <1>4 DEF EqualAt
<1> QED  BY <1>1, <1>5

\* The same, by what EqualUnder says of the parts.
Matches(h, a, b) ==
    LET l == h.type[h.is[a]]
        r == h.type[h.is[b]]
    IN  /\ l.kind # "var" /\ l.kind = r.kind /\ Len(l.parts) = Len(r.parts)
        /\ \A i \in DOMAIN l.parts :
            /\ l.parts[i].name = r.parts[i].name
            /\ EqualUnder(h, l.parts[i].type, r.parts[i].type)

LEMMA EqualUnfolds ==
    ASSUME NEW h, HeapOK(h), NEW a \in Nodes(h), NEW b \in Nodes(h)
    PROVE  EqualUnder(h, a, b) <=> h.is[a] = h.is[b] \/ Matches(h, a, b)
<1> DEFINE Like(f) == f = [p \in (DOMAIN h.type) \X (DOMAIN h.type) |->
            \/ h.is[p[1]] = h.is[p[2]]
            \/ LET l == h.type[h.is[p[1]]]
                   r == h.type[h.is[p[2]]]
               IN  /\ l.kind # "var" /\ l.kind = r.kind /\ Len(l.parts) = Len(r.parts)
                   /\ \A i \in DOMAIN l.parts :
                        /\ l.parts[i].name = r.parts[i].name
                        /\ f[<<l.parts[i].type, r.parts[i].type>>]]
<1> DEFINE equal == CHOOSE f : Like(f)
<1> DEFINE Rule(f, p) ==
        \/ h.is[p[1]] = h.is[p[2]]
        \/ LET l == h.type[h.is[p[1]]]
               r == h.type[h.is[p[2]]]
           IN  /\ l.kind # "var" /\ l.kind = r.kind /\ Len(l.parts) = Len(r.parts)
               /\ \A i \in DOMAIN l.parts :
                    /\ l.parts[i].name = r.parts[i].name
                    /\ f[<<l.parts[i].type, r.parts[i].type>>]
<1>1. ASSUME NEW m \in Nodes(h), NEW n \in Nodes(h), NEW i \in DOMAIN h.type[h.is[m]].parts,
             Len(h.type[h.is[m]].parts) = Len(h.type[h.is[n]].parts)
      PROVE  /\ h.type[h.is[m]].parts[i].type \in Nodes(h)
             /\ h.type[h.is[n]].parts[i].type \in Nodes(h)
    <2>1. h.is[m] \in Nodes(h) /\ h.is[n] \in Nodes(h) /\ Typed(h.type)
        BY DEF HeapOK
    <2> QED  BY <1>1, <2>1, TypedFacts DEF Nodes
<1>2. \E f : Like(f)
    <2>1. PICK Q \in SUBSET (Nodes(h) \X Nodes(h)) : EqualAt(h, Q)
        BY EqualExists
    <2> DEFINE f == [p \in (DOMAIN h.type) \X (DOMAIN h.type) |-> p \in Q]
    <2>2. ASSUME NEW p \in (DOMAIN h.type) \X (DOMAIN h.type)
          PROVE  (p \in Q) = Rule(f, p)
        <3>1. PICK m \in Nodes(h), n \in Nodes(h) : p = <<m, n>>
            BY DEF Nodes
        <3>2. p[1] = m /\ p[2] = n
            BY <3>1
        <3>3. p \in Q <=> EqualBy(h, Q, m, n)
            BY <2>1, <3>1 DEF EqualAt
        <3>5. ASSUME NEW i \in DOMAIN h.type[h.is[m]].parts,
                     Len(h.type[h.is[m]].parts) = Len(h.type[h.is[n]].parts)
              PROVE  f[<<h.type[h.is[m]].parts[i].type, h.type[h.is[n]].parts[i].type>>]
                        <=> <<h.type[h.is[m]].parts[i].type, h.type[h.is[n]].parts[i].type>> \in Q
            <4>1. h.type[h.is[m]].parts[i].type \in Nodes(h) /\ h.type[h.is[n]].parts[i].type \in Nodes(h)
                BY <1>1, <3>5, Zenon
            <4> QED  BY <4>1 DEF Nodes
        <3> HIDE DEF f
        <3>6. Rule(f, p) <=> EqualBy(h, Q, m, n)
            BY <3>2, <3>5 DEF EqualBy, PartsEqual
        <3> DEFINE rule == Rule(f, p)
                   at == p \in Q
        <3>7. at \in BOOLEAN /\ rule \in BOOLEAN
            OBVIOUS
        <3>8. at <=> rule
            BY <3>3, <3>6, Zenon
        <3>9. at = rule
            <4> HIDE DEF at, rule
            <4> QED  BY <3>7, <3>8
        <3> QED  BY <3>9, Zenon
    <2>3. f = [p \in (DOMAIN h.type) \X (DOMAIN h.type) |-> Rule(f, p)]
        <3> HIDE DEF Rule
        <3> QED  BY <2>2
    <2>4. Like(f)
        <3> HIDE DEF f
        <3> QED  BY <2>3, Zenon
    <2> HIDE DEF f, Like
    <2> QED  BY <2>4
<1>3. Like(equal)
    <2> HIDE DEF Like
    <2> QED  BY <1>2
<1>4. \A m, n : EqualUnder(h, m, n) = equal[<<m, n>>]
    BY DEF EqualUnder
<1>8. \A m, n : EqualUnder(h, m, n) <=> equal[<<m, n>>]
    <2> HIDE DEF equal
    <2> QED  BY <1>4
<1> HIDE DEF equal
<1>5. equal[<<a, b>>] = Rule(equal, <<a, b>>)
    BY <1>3, Zenon DEF Nodes
<1> HIDE DEF Like
<1>7. Rule(equal, <<a, b>>) <=> h.is[a] = h.is[b] \/ Matches(h, a, b)
    <2> PICK l, r : l = h.type[h.is[a]] /\ r = h.type[h.is[b]]
        OBVIOUS
    <2>1. Matches(h, a, b) <=>
            /\ l.kind # "var" /\ l.kind = r.kind /\ Len(l.parts) = Len(r.parts)
            /\ \A i \in DOMAIN l.parts :
                /\ l.parts[i].name = r.parts[i].name
                /\ equal[<<l.parts[i].type, r.parts[i].type>>]
        <3>1. \A i \in DOMAIN l.parts :
                EqualUnder(h, l.parts[i].type, r.parts[i].type)
                    <=> equal[<<l.parts[i].type, r.parts[i].type>>]
            BY <1>8
        <3> QED  BY <3>1 DEF Matches
    <2>2. <<a, b>>[1] = a /\ <<a, b>>[2] = b
        OBVIOUS
    <2> QED  BY <2>1, <2>2
<1> QED  BY <1>5, <1>7, <1>8, Zenon

LEMMA EqualSymmetric ==
    ASSUME NEW h, Good(h), NEW a \in Nodes(h), NEW b \in Nodes(h), EqualUnder(h, a, b)
    PROVE  EqualUnder(h, b, a)
<1> DEFINE Unequal(x, y) == EqualUnder(h, x, y) /\ ~EqualUnder(h, y, x)
<1> DEFINE S == {n \in StandAlone(h) : \E x, y \in Nodes(h) : h.is[x] = n /\ Unequal(x, y)}
<1>0. HeapOK(h) /\ Founded(h)
    BY DEF Good
<1> SUFFICES ASSUME S # {} PROVE FALSE
    <2>1. h.is[a] \in StandAlone(h)
        BY <1>0 DEF HeapOK, StandAlone
    <2> QED  BY <2>1
<1>1. PICK n \in S : Succ(h, n) \cap S = {}
    <2>1. S \in SUBSET StandAlone(h)
        OBVIOUS
    <2> HIDE DEF S
    <2> QED  BY <1>0, <2>1 DEF Founded
<1>2. PICK x \in Nodes(h), y \in Nodes(h) : h.is[x] = n /\ Unequal(x, y)
    BY <1>1
<1>3. Matches(h, x, y) /\ h.is[y] # h.is[x] /\ ~Matches(h, y, x)
    BY <1>0, <1>2, EqualUnfolds
<1> PICK l, r : l = h.type[h.is[x]] /\ r = h.type[h.is[y]]
    OBVIOUS
<1>4. /\ l.kind # "var" /\ l.kind = r.kind /\ Len(l.parts) = Len(r.parts)
      /\ \A i \in DOMAIN l.parts :
            l.parts[i].name = r.parts[i].name /\ EqualUnder(h, l.parts[i].type, r.parts[i].type)
    BY <1>3, Zenon DEF Matches
<1>5. /\ h.is[x] \in Nodes(h) /\ h.is[y] \in Nodes(h)
      /\ DOMAIN l.parts = 1 .. Len(l.parts) /\ DOMAIN r.parts = 1 .. Len(r.parts)
      /\ \A i \in DOMAIN l.parts : l.parts[i].type \in Nodes(h)
      /\ \A i \in DOMAIN r.parts : r.parts[i].type \in Nodes(h)
    BY <1>0, TypedFacts DEF HeapOK, Nodes
<1>6. ASSUME NEW i \in DOMAIN r.parts
      PROVE  r.parts[i].name = l.parts[i].name /\ EqualUnder(h, r.parts[i].type, l.parts[i].type)
    <2> PICK c, d : c = l.parts[i].type /\ d = r.parts[i].type
        OBVIOUS
    <2>1. i \in DOMAIN l.parts /\ c \in Nodes(h) /\ d \in Nodes(h) /\ EqualUnder(h, c, d)
        BY <1>4, <1>5, Zenon
    <2>2. h.is[c] \in Succ(h, n)
        BY <1>2, <2>1, Zenon DEF Succ, PartsAt
    <2>3. h.is[c] \in StandAlone(h)
        BY <1>0, <2>1, Zenon DEF HeapOK, StandAlone
    <2>4. h.is[c] \notin S
        BY <1>1, <2>2
    <2>5. EqualUnder(h, d, c)
        BY <2>1, <2>3, <2>4, Zenon
    <2> QED  BY <1>4, <2>1, <2>5, Zenon
<1>7. Matches(h, y, x)
    <2>1. r.kind # "var" /\ r.kind = l.kind /\ Len(r.parts) = Len(l.parts)
        BY <1>4
    <2> HIDE DEF S
    <2> QED  BY <1>6, <2>1, Zenon DEF Matches
<1> QED  BY <1>3, <1>7

\* What is equal depends on what the types stand for.
LEMMA EqualOfSame ==
    ASSUME NEW h, HeapOK(h), NEW a \in Nodes(h), NEW b \in Nodes(h), EqualUnder(h, a, b),
           NEW c \in Nodes(h), NEW d \in Nodes(h), h.is[c] = h.is[a], h.is[d] = h.is[b]
    PROVE  EqualUnder(h, c, d)
<1>1. h.is[a] = h.is[b] \/ Matches(h, a, b)
    BY EqualUnfolds
<1>2. h.is[c] = h.is[d] \/ Matches(h, c, d)
    BY <1>1, Zenon DEF Matches
<1> QED  BY <1>2, EqualUnfolds

LEMMA EqualIsSameKind ==
    ASSUME NEW h, HeapOK(h), NEW a \in Nodes(h), NEW b \in Nodes(h), EqualUnder(h, a, b)
    PROVE  h.type[h.is[a]].kind = h.type[h.is[b]].kind
<1>1. h.is[a] = h.is[b] \/ Matches(h, a, b)
    BY EqualUnfolds
<1> QED  BY <1>1, Zenon DEF Matches

\* Types of h after some constraining: what has come to stand for the same
\* type keeps doing so.
Later(h, g) ==
    /\ StepsTo(h, g)
    /\ \A m, n \in Nodes(h) : h.is[m] = h.is[n] => g.is[m] = g.is[n]

LEMMA LaterTwice ==
    ASSUME NEW f, NEW g, NEW h, Later(f, g), Later(g, h)
    PROVE  Later(f, h)
<1>1. StepsTo(f, h)
    BY StepsTwice DEF Later
<1>2. Nodes(f) \subseteq Nodes(g)
    BY DEF Later, StepsTo, Extends
<1> QED  BY <1>1, <1>2 DEF Later

LEMMA LaterItself ==
    ASSUME NEW h, Good(h)
    PROVE  Later(h, h)
BY StepsToItself DEF Later

\* What a type stands for that is no variable, it stands for ever after.
LEMMA LaterStands ==
    ASSUME NEW h, Good(h), NEW g, Later(h, g), NEW n \in Nodes(h), h.type[h.is[n]].kind # "var"
    PROVE  g.is[n] = h.is[n] /\ g.type[g.is[n]] = h.type[h.is[n]]
<1>1. h.is[n] \in Nodes(h) /\ h.is[h.is[n]] = h.is[n]
    BY DEF Good, HeapOK
<1>2. g.is[h.is[n]] = g.is[n]
    BY <1>1 DEF Later
<1>3. h.is[n] \in Nodes(g) /\ g.type[h.is[n]] = h.type[h.is[n]] /\ HeapOK(g)
    BY <1>1 DEF Later, StepsTo, Extends, Good
<1>4. g.is[h.is[n]] = h.is[n]
    BY <1>3 DEF HeapOK
<1> QED  BY <1>2, <1>3, <1>4

\* And what was equal remains so.
LEMMA EqualLater ==
    ASSUME NEW h, Good(h), NEW g, Later(h, g),
           NEW a \in Nodes(h), NEW b \in Nodes(h), EqualUnder(h, a, b)
    PROVE  EqualUnder(g, a, b)
<1> DEFINE Unequal(x, y) == EqualUnder(h, x, y) /\ ~EqualUnder(g, x, y)
<1> DEFINE S == {n \in StandAlone(h) : \E x, y \in Nodes(h) : h.is[x] = n /\ Unequal(x, y)}
<1>0. HeapOK(h) /\ Founded(h) /\ HeapOK(g) /\ Nodes(h) \subseteq Nodes(g)
    BY DEF Good, Later, StepsTo, Extends
<1> SUFFICES ASSUME S # {} PROVE FALSE
    <2>1. h.is[a] \in StandAlone(h)
        BY <1>0 DEF HeapOK, StandAlone
    <2> QED  BY <2>1
<1>1. PICK n \in S : Succ(h, n) \cap S = {}
    <2>1. S \in SUBSET StandAlone(h)
        OBVIOUS
    <2> HIDE DEF S
    <2> QED  BY <1>0, <2>1 DEF Founded
<1>2. PICK x \in Nodes(h), y \in Nodes(h) : h.is[x] = n /\ Unequal(x, y)
    BY <1>1
<1>3. x \in Nodes(g) /\ y \in Nodes(g) /\ g.is[x] # g.is[y] /\ ~Matches(g, x, y)
    BY <1>0, <1>2, EqualUnfolds
<1>4. h.is[x] # h.is[y]
    BY <1>3 DEF Later
<1>5. Matches(h, x, y)
    BY <1>0, <1>2, <1>4, EqualUnfolds
<1> PICK l, r : l = h.type[h.is[x]] /\ r = h.type[h.is[y]]
    OBVIOUS
<1>6. /\ l.kind # "var" /\ l.kind = r.kind /\ Len(l.parts) = Len(r.parts)
      /\ \A i \in DOMAIN l.parts :
            l.parts[i].name = r.parts[i].name /\ EqualUnder(h, l.parts[i].type, r.parts[i].type)
    BY <1>5, Zenon DEF Matches
<1>7. g.type[g.is[x]] = l /\ g.type[g.is[y]] = r
    BY <1>6, LaterStands
<1>8. /\ h.is[x] \in Nodes(h) /\ h.is[y] \in Nodes(h)
      /\ DOMAIN l.parts = 1 .. Len(l.parts) /\ DOMAIN r.parts = 1 .. Len(r.parts)
      /\ \A i \in DOMAIN l.parts : l.parts[i].type \in Nodes(h)
      /\ \A i \in DOMAIN r.parts : r.parts[i].type \in Nodes(h)
    BY <1>0, TypedFacts DEF HeapOK, Nodes
<1>9. ASSUME NEW i \in DOMAIN l.parts
      PROVE  l.parts[i].name = r.parts[i].name /\ EqualUnder(g, l.parts[i].type, r.parts[i].type)
    <2> PICK c, d : c = l.parts[i].type /\ d = r.parts[i].type
        OBVIOUS
    <2>1. c \in Nodes(h) /\ d \in Nodes(h) /\ EqualUnder(h, c, d)
        BY <1>6, <1>8, Zenon
    <2>2. h.is[c] \in Succ(h, n)
        BY <1>2, <2>1, Zenon DEF Succ, PartsAt
    <2>3. h.is[c] \in StandAlone(h)
        BY <1>0, <2>1, Zenon DEF HeapOK, StandAlone
    <2>4. h.is[c] \notin S
        BY <1>1, <2>2
    <2>5. EqualUnder(g, c, d)
        BY <2>1, <2>3, <2>4, Zenon
    <2> QED  BY <1>6, <2>1, <2>5, Zenon
<1>10. Matches(g, x, y)
    <2> HIDE DEF S
    <2> QED  BY <1>6, <1>7, <1>9, Zenon DEF Matches
<1> QED  BY <1>3, <1>10

-----------------------------------------------------------------------------
(* What constrainTypes makes equal. *)

AllEqual(g, todo) ==
    \A i \in 1 .. Len(todo) : todo[i].agree /\ EqualUnder(g, todo[i].left, todo[i].right)

LEMMA ConcatFacts ==
    ASSUME NEW S, NEW a \in Seq(S), NEW b \in Seq(S)
    PROVE  /\ Len(a \o b) = Len(a) + Len(b) /\ Len(a) \in Nat /\ Len(b) \in Nat
           /\ \A i \in 1 .. Len(a) : (a \o b)[i] = a[i]
           /\ \A i \in 1 .. Len(b) : (a \o b)[Len(a) + i] = b[i]
OBVIOUS

LEMMA InsertionLater ==
    ASSUME NEW h, Good(h), NEW v \in FreeVars(h), NEW n \in StandAlone(h), v # n,
           ~T!occursIn(h, v, n)
    PROVE  LET g == T!insertSubstitution(h, v, n)
           IN  Later(h, g) /\ \A m \in Nodes(h) : g.is[m] = IF h.is[m] = v THEN n ELSE h.is[m]
<1> PICK g : g = T!insertSubstitution(h, v, n)
    OBVIOUS
<1>1. g.type = h.type /\ \A m \in Nodes(h) : g.is[m] = IF h.is[m] = v THEN n ELSE h.is[m]
    BY InsertionIs DEF Good
<1>2. Good(g)
    BY InsertionGood
<1>3. StepsTo(h, g)
    BY <1>1, <1>2, SameTypesStep
<1>4. Later(h, g)
    BY <1>1, <1>3 DEF Later
<1> QED  BY <1>1, <1>4

\* What a pair does to the types; unless it fails, it agrees and is equal when
\* the pairs that it leaves are.
LEMMA PairStep ==
    ASSUME NEW h, Typed(h.type), NEW s \in T!Running(h), Goes(s), Good(s.heap)
    PROVE  LET u == T!ConstrainPair(s)
           IN  /\ Later(s.heap, u.heap)
               /\ u.ok => s.ok
               /\ u.ok => \A g : Later(u.heap, g) /\ AllEqual(g, u.todo) => AllEqual(g, s.todo)
<1> PICK u : u = T!ConstrainPair(s)
    OBVIOUS
<1> PICK P : P = PairsOf(h)
    OBVIOUS
<1> PICK f : f = s.heap
    OBVIOUS
<1> PICK p : p = Head(s.todo)
    OBVIOUS
<1>1. /\ s = [heap |-> f, ok |-> s.ok, todo |-> s.todo] /\ s.todo \in Seq(P)
      /\ f.type = h.type /\ Nodes(f) = Nodes(h) /\ s.ok
    BY RunningFacts DEF Goes
<1>2. /\ p \in P /\ Tail(s.todo) \in Seq(P) /\ s.todo # <<>> /\ s.todo[1] = p
      /\ Len(s.todo) \in Nat \ {0} /\ Len(Tail(s.todo)) = Len(s.todo) - 1
      /\ \A i \in 1 .. Len(s.todo) - 1 : Tail(s.todo)[i] = s.todo[i + 1]
    BY <1>1 DEF Goes
<1>3. p.left \in Nodes(f) /\ p.right \in Nodes(f)
    BY <1>1, <1>2 DEF PairsOf
<1>4. LeftOf(s) = f.is[p.left] /\ RightOf(s) = f.is[p.right]
    BY DEF LeftOf, RightOf
<1>5. SameTypes(h, f)
    BY <1>1 DEF SameTypes
<1>6. LeftOf(s) \in StandAlone(f) /\ RightOf(s) \in StandAlone(f)
    BY <1>1, <1>3, <1>4, <1>5, StandsIn
\* The other pairs are those that were left.
<1>7. ASSUME NEW g, AllEqual(g, Tail(s.todo)), p.agree, EqualUnder(g, p.left, p.right)
      PROVE  AllEqual(g, s.todo)
    <2>1. ASSUME NEW i \in 1 .. Len(s.todo)
          PROVE  s.todo[i].agree /\ EqualUnder(g, s.todo[i].left, s.todo[i].right)
        <3>1. CASE i = 1
            BY <1>2, <1>7, <3>1
        <3>2. CASE i # 1
            <4>1. i - 1 \in 1 .. Len(s.todo) - 1 /\ s.todo[i] = Tail(s.todo)[i - 1]
                BY <1>2, <3>2
            <4>2. Len(Tail(s.todo)) = Len(s.todo) - 1
                BY <1>2
            <4> QED  BY <1>7, <4>1, <4>2 DEF AllEqual
        <3> QED  BY <3>1, <3>2
    <2> QED  BY <2>1 DEF AllEqual
\* Types that have come to stand for the same are equal ever after.
<1>8. ASSUME NEW e, Nodes(f) \subseteq Nodes(e), e.is[p.left] = e.is[p.right],
             NEW g, Later(e, g)
      PROVE  EqualUnder(g, p.left, p.right)
    <2>1. p.left \in Nodes(e) /\ p.right \in Nodes(e)
        BY <1>3, <1>8
    <2>2. p.left \in Nodes(g) /\ p.right \in Nodes(g) /\ HeapOK(g)
        BY <1>8, <2>1 DEF Later, StepsTo, Extends, Good
    <2>3. g.is[p.left] = g.is[p.right]
        BY <1>8, <2>1 DEF Later
    <2> QED  BY <2>2, <2>3, EqualUnfolds
<1> SUFFICES /\ Later(f, u.heap)
             /\ u.ok => \A g : Later(u.heap, g) /\ AllEqual(g, u.todo) => AllEqual(g, s.todo)
    BY <1>1
<1>9. CASE Fails(s, u)
    <2>1. u.heap = f /\ u.ok = FALSE
        BY <1>1, <1>9 DEF Fails
    <2> QED  BY <2>1, LaterItself
<1>10. CASE Head(s.todo).agree /\ Drops(s, u)
    <2>1. u.heap = f /\ u.todo = Tail(s.todo) /\ p.agree /\ f.is[p.left] = f.is[p.right]
        BY <1>1, <1>4, <1>10 DEF Drops
    <2>2. Later(f, u.heap)
        BY <2>1, LaterItself
    <2> QED  BY <1>7, <1>8, <2>1, <2>2
<1>11. ASSUME NEW v \in StandAlone(f), NEW n \in StandAlone(f), p.agree, BindsTo(s, u, v, n)
       PROVE  /\ Later(f, u.heap)
              /\ u.ok => \A g : Later(u.heap, g) /\ AllEqual(g, u.todo) => AllEqual(g, s.todo)
    <2>1. u.heap = T!insertSubstitution(f, v, n) /\ u.todo = Tail(s.todo)
        BY <1>1, <1>11 DEF BindsTo
    <2>2. v \in FreeVars(f) /\ v # n /\ ~T!occursIn(f, v, n) /\ {v, n} = {f.is[p.left], f.is[p.right]}
        BY <1>4, <1>11 DEF BindsTo, FreeVars
    <2>3. Later(f, u.heap) /\ \A m \in Nodes(f) : u.heap.is[m] = IF f.is[m] = v THEN n ELSE f.is[m]
        BY <2>1, <2>2, InsertionLater
    <2>4. u.heap.is[p.left] = u.heap.is[p.right]
        BY <1>3, <2>2, <2>3
    <2>5. Nodes(f) \subseteq Nodes(u.heap)
        BY <2>3 DEF Later, StepsTo, Extends
    <2> QED  BY <1>7, <1>8, <1>11, <2>1, <2>3, <2>4, <2>5
<1>12. CASE Head(s.todo).agree /\ Binds(s, u)
    BY <1>6, <1>11, <1>12 DEF Binds
<1>13. CASE Head(s.todo).agree /\ Descends(s, u)
    <2> PICK l, r : l = f.type[LeftOf(s)] /\ r = f.type[RightOf(s)]
        OBVIOUS
    <2> PICK pairs : pairs = T!PartPairs(l, r)
        OBVIOUS
    <2>1. /\ l.kind # "var" /\ l.kind = r.kind /\ Len(l.parts) = Len(r.parts)
          /\ u.todo = pairs \o Tail(s.todo) /\ u.heap = f /\ p.agree
        BY <1>1, <1>13 DEF Descends
    <2>2. LeftOf(s) \in Nodes(h) /\ RightOf(s) \in Nodes(h)
        BY <1>1, <1>6 DEF StandAlone
    <2>3. PartsPaired(h, LeftOf(s), RightOf(s), pairs)
        BY <1>1, <2>1, <2>2, PartPairsIs
    <2>4. /\ pairs \in Seq(P) /\ Len(pairs) = Len(l.parts)
          /\ \A i \in DOMAIN l.parts :
                /\ pairs[i].left = l.parts[i].type
                /\ pairs[i].right = r.parts[i].type
                /\ pairs[i].agree <=> l.parts[i].name = r.parts[i].name
        BY <1>1, <2>3 DEF PartsPaired
    <2>5. DOMAIN l.parts = 1 .. Len(l.parts)
        BY <1>1, <2>2, TypedFacts, Zenon DEF Nodes
    <2>6. ASSUME NEW g, Later(u.heap, g), AllEqual(g, u.todo)
          PROVE  AllEqual(g, s.todo)
        <3>1. /\ Len(u.todo) = Len(pairs) + Len(Tail(s.todo))
              /\ \A i \in 1 .. Len(pairs) : i \in 1 .. Len(u.todo) /\ u.todo[i] = pairs[i]
              /\ \A i \in 1 .. Len(Tail(s.todo)) :
                    Len(pairs) + i \in 1 .. Len(u.todo) /\ u.todo[Len(pairs) + i] = Tail(s.todo)[i]
            <4>1. /\ Len(pairs \o Tail(s.todo)) = Len(pairs) + Len(Tail(s.todo))
                  /\ Len(pairs) \in Nat /\ Len(Tail(s.todo)) \in Nat
                  /\ \A i \in 1 .. Len(pairs) : (pairs \o Tail(s.todo))[i] = pairs[i]
                  /\ \A i \in 1 .. Len(Tail(s.todo)) :
                        (pairs \o Tail(s.todo))[Len(pairs) + i] = Tail(s.todo)[i]
                <5> PICK rest : rest = Tail(s.todo)
                    OBVIOUS
                <5>1. rest \in Seq(P) /\ pairs \in Seq(P)
                    BY <1>2, <2>4
                <5>2. /\ Len(pairs \o rest) = Len(pairs) + Len(rest)
                      /\ Len(pairs) \in Nat /\ Len(rest) \in Nat
                      /\ \A i \in 1 .. Len(pairs) : (pairs \o rest)[i] = pairs[i]
                      /\ \A i \in 1 .. Len(rest) : (pairs \o rest)[Len(pairs) + i] = rest[i]
                    BY ONLY <5>1, ConcatFacts
                <5> QED  BY <5>2
            <4> QED  BY ONLY <2>1, <4>1
        <3>2. AllEqual(g, Tail(s.todo))
            BY <2>6, <3>1 DEF AllEqual
        <3>3. ASSUME NEW i \in DOMAIN l.parts
              PROVE  l.parts[i].name = r.parts[i].name
                        /\ EqualUnder(g, l.parts[i].type, r.parts[i].type)
            <4>1. pairs[i].agree /\ EqualUnder(g, pairs[i].left, pairs[i].right)
                <5>1. i \in 1 .. Len(pairs)
                    BY <2>4, <2>5
                <5>2. i \in 1 .. Len(u.todo) /\ u.todo[i] = pairs[i]
                    BY <3>1, <5>1
                <5> QED  BY <2>6, <5>2 DEF AllEqual
            <4> QED  BY <2>4, <4>1, Zenon
        <3>4. g.type[g.is[p.left]] = l /\ g.type[g.is[p.right]] = r
            <4>1. Good(f) /\ Later(f, g)
                BY <2>1, <2>6
            <4>2. f.type[f.is[p.left]] = l /\ f.type[f.is[p.right]] = r
                BY <1>4, Zenon
            <4>3. f.type[f.is[p.left]].kind # "var" /\ f.type[f.is[p.right]].kind # "var"
                BY <2>1, <4>2, Zenon
            <4>4. g.type[g.is[p.left]] = f.type[f.is[p.left]]
                BY ONLY <1>3, <4>1, <4>3, LaterStands
            <4>5. g.type[g.is[p.right]] = f.type[f.is[p.right]]
                BY ONLY <1>3, <4>1, <4>3, LaterStands
            <4> QED  BY <4>2, <4>4, <4>5, Zenon
        <3>5. Matches(g, p.left, p.right)
            BY <2>1, <3>3, <3>4, Zenon DEF Matches
        <3>6. p.left \in Nodes(g) /\ p.right \in Nodes(g) /\ HeapOK(g)
            BY <1>3, <2>1, <2>6 DEF Later, StepsTo, Extends, Good
        <3> QED  BY <1>7, <2>1, <3>2, <3>5, <3>6, EqualUnfolds
    <2>7. Later(f, u.heap)
        BY <2>1, LaterItself
    <2> QED  BY <2>6, <2>7
<1> QED  BY <1>9, <1>10, <1>12, <1>13, ConstrainPairIs

LEMMA RunEqual ==
    ASSUME NEW h, Typed(h.type), NEW s0, NEW t0, RunsTo(h, s0, t0), Good(s0.heap)
    PROVE  Later(s0.heap, t0.heap) /\ (t0.ok => AllEqual(t0.heap, s0.todo))
<1> DEFINE R == T!Running(h)
           Leads(s, t) == Later(s.heap, t.heap) /\ (t.ok => s.ok /\ AllEqual(t.heap, s.todo))
           W == {p \in R \X R : Good(p[1].heap) => Leads(p[1], p[2])}
<1>1. W \in SUBSET (R \X R)
    OBVIOUS
<1>2. ASSUME NEW s \in R, ~Goes(s) PROVE <<s, s>> \in W
    <2>1. ASSUME Good(s.heap) PROVE Leads(s, s)
        <3>1. Later(s.heap, s.heap)
            BY <2>1, LaterItself
        <3>2. s.ok => s.todo = <<>>
            BY <1>2 DEF Goes
        <3>3. s.ok => AllEqual(s.heap, s.todo)
            BY <3>2 DEF AllEqual
        <3> QED  BY <3>1, <3>3
    <2> QED  BY <2>1
<1>3. ASSUME NEW s \in R, NEW t \in R, Goes(s), <<T!ConstrainPair(s), t>> \in W
      PROVE  <<s, t>> \in W
    <2> PICK u : u = T!ConstrainPair(s)
        OBVIOUS
    <2>1. ASSUME Good(s.heap) PROVE Leads(s, t)
        <3>1. Good(u.heap)
            BY <1>3, <2>1, StepGood
        <3>2. Leads(u, t)
            BY <1>3, <3>1
        <3>3. /\ Later(s.heap, u.heap) /\ (u.ok => s.ok)
              /\ u.ok => \A g : Later(u.heap, g) /\ AllEqual(g, u.todo) => AllEqual(g, s.todo)
            BY <1>3, <2>1, PairStep
        <3>4. Later(s.heap, t.heap)
            BY <3>2, <3>3, LaterTwice
        <3> QED  BY <3>2, <3>3, <3>4
    <2> QED  BY <2>1
<1>4. <<s0, t0>> \in W
    <2> HIDE DEF W
    <2> QED  BY <1>1, <1>2, <1>3, RunInduction
<1> QED  BY <1>4

\* Types that constrainTypes says can be equal are equal when it returns.
LEMMA ConstrainTypesEqual ==
    ASSUME NEW h, Good(h), NEW a \in Nodes(h), NEW b \in Nodes(h)
    PROVE  LET answer == T!constrainTypes(h, a, b)
           IN  Later(h, answer.heap) /\ (answer.ok => EqualUnder(answer.heap, a, b))
<1> PICK t : t = T!constrainTypes(h, a, b)
    OBVIOUS
<1> PICK s : s = With(h, <<T!Pair(a, b, TRUE)>>)
    OBVIOUS
<1>1. RunsTo(h, s, t) /\ Typed(h.type) /\ s.heap = h
    BY ConstrainTypesRuns DEF Good, HeapOK, With
<1>2. Later(s.heap, t.heap) /\ (t.ok => AllEqual(t.heap, s.todo))
    BY <1>1, RunEqual
<1>3. s.todo = <<[left |-> a, right |-> b, agree |-> TRUE]>>
    BY DEF With, T!Pair
<1>4. 1 \in 1 .. Len(s.todo) /\ s.todo[1].left = a /\ s.todo[1].right = b
    <2> PICK p : p = [left |-> a, right |-> b, agree |-> TRUE]
        OBVIOUS
    <2>1. s.todo = <<p>> /\ p.left = a /\ p.right = b
        BY <1>3
    <2>2. 1 \in 1 .. Len(s.todo) /\ s.todo[1] = p
        BY ONLY <2>1
    <2> QED  BY <2>1, <2>2
<1> QED  BY <1>1, <1>2, <1>4 DEF AllEqual

-----------------------------------------------------------------------------
(* What the calls of the type checker make equal. *)

\* Types of h that are equal.
Equals(h, a, b) == a \in Nodes(h) /\ b \in Nodes(h) /\ EqualUnder(h, a, b)

\* What a type stands for.
As(h, n) == h.type[h.is[n]]

LEMMA EqualsItself ==
    ASSUME NEW h, Good(h), NEW a \in Nodes(h), NEW b \in Nodes(h), h.is[a] = h.is[b]
    PROVE  Equals(h, a, b)
BY EqualUnfolds DEF Equals, Good

LEMMA EqualsSymmetric ==
    ASSUME NEW h, Good(h), NEW a, NEW b, Equals(h, a, b)
    PROVE  Equals(h, b, a)
BY EqualSymmetric DEF Equals

LEMMA EqualsLater ==
    ASSUME NEW h, Good(h), NEW g, Later(h, g), NEW a, NEW b, Equals(h, a, b)
    PROVE  Equals(g, a, b)
<1>1. Nodes(h) \subseteq Nodes(g)
    BY DEF Later, StepsTo, Extends
<1> QED  BY <1>1, EqualLater DEF Equals

LEMMA EqualsOfSame ==
    ASSUME NEW h, Good(h), NEW a, NEW b, Equals(h, a, b),
           NEW c \in Nodes(h), NEW d \in Nodes(h), h.is[c] = h.is[a], h.is[d] = h.is[b]
    PROVE  Equals(h, c, d)
BY EqualOfSame DEF Equals, Good

\* Simple types have no parts.
LEMMA SimpleEquals ==
    ASSUME NEW h, Good(h), NEW a \in Nodes(h), NEW b \in Nodes(h),
           As(h, a).kind = As(h, b).kind, As(h, a).kind \in Numeric \cup {"bool"}
    PROVE  Equals(h, a, b)
<1> PICK l, r : l = As(h, a) /\ r = As(h, b)
    OBVIOUS
<1> PICK S : S = Type
    OBVIOUS
<1>1. h.is[a] \in Nodes(h) /\ h.is[b] \in Nodes(h) /\ h.type \in Seq(S)
    BY DEF Good, HeapOK, Typed
<1>2. l \in Type /\ r \in Type
    BY <1>1 DEF As, Nodes
<1>3. l.parts = <<>> /\ r.parts = <<>> /\ l.kind = r.kind
    BY <1>2 DEF Type
<1>4. l.kind # "var"
    BY DEF Numeric, Integral
<1>5. Matches(h, a, b)
    BY <1>3, <1>4 DEF Matches, As
<1> QED  BY <1>5, EqualUnfolds DEF Equals, Good

LEMMA NewTypeLater ==
    ASSUME NEW h, Good(h), NEW type \in Type,
           \A i \in DOMAIN type.parts : type.parts[i].type \in Nodes(h)
    PROVE  LET g == T!newType(h, type)
           IN  /\ Later(h, g)
               /\ T!Fresh(h) \in Nodes(g) /\ g.type[T!Fresh(h)] = type /\ g.is[T!Fresh(h)] = T!Fresh(h)
<1> PICK g, x : g = T!newType(h, type) /\ x = T!Fresh(h)
    OBVIOUS
<1>1. /\ StepsTo(h, g) /\ x \in Nodes(g) /\ g.type[x] = type
      /\ x \in StandAlone(g) /\ \A n \in Nodes(h) : g.is[n] = h.is[n]
    BY NewTypeGood
<1> QED  BY <1>1 DEF Later, StandAlone

LEMMA ConstrainTypeToLater ==
    ASSUME NEW h, Good(h), NEW n \in Nodes(h), NEW target \in Type, target.parts = <<>>
    PROVE  LET answer == T!constrainTypeTo(h, n, target)
           IN  /\ Later(h, answer.heap)
               /\ answer.ok => T!SameKind(As(answer.heap, n), target)
<1> PICK answer : answer = T!constrainTypeTo(h, n, target)
    OBVIOUS
<1>1. CASE T!Resolved(h, n).kind = "var"
    <2> PICK g, x, v : g = T!newType(h, target) /\ x = T!Fresh(h) /\ v = h.is[n]
        OBVIOUS
    <2>1. /\ StepsTo(h, g) /\ x \in Nodes(g) /\ g.type[x] = target
          /\ x \in StandAlone(g) /\ StandAlone(h) \subseteq StandAlone(g) /\ x \notin Nodes(h)
          /\ \A m \in Nodes(h) : g.is[m] = h.is[m]
        BY NewTypeGood
    <2>2. v \in StandAlone(h) /\ h.type[v].kind = "var"
        BY <1>1 DEF T!Resolved, Good, HeapOK, StandAlone
    <2>3. v \in FreeVars(g) /\ v # x
        BY <2>1, <2>2 DEF FreeVars, StandAlone, StepsTo, Extends
    <2>4. ~T!occursIn(g, v, x)
        <3>1. PICK O \in SUBSET Nodes(g) : OccursAt(g, v, O) /\ (T!occursIn(g, v, x) <=> x \in O)
            BY <2>1, OccursIs DEF StepsTo, Good
        <3>2. g.is[x] = x /\ PartsAt(g, x) = <<>>
            BY <2>1 DEF StandAlone, PartsAt
        <3> QED  BY <2>1, <2>3, <3>1, <3>2 DEF OccursAt
    <2> PICK f : f = T!insertSubstitution(g, v, x)
        OBVIOUS
    <2>5. Later(g, f) /\ \A m \in Nodes(g) : f.is[m] = IF g.is[m] = v THEN x ELSE g.is[m]
        BY <2>1, <2>3, <2>4, InsertionLater DEF StepsTo
    <2>6. f.type = g.type
        BY <2>1, InsertionIs DEF StepsTo, Good
    <2>7. Later(h, g)
        BY <2>1 DEF Later
    <2>8. answer.heap = f /\ answer.ok = TRUE
        BY <1>1 DEF T!constrainTypeTo
    <2>9. n \in Nodes(g) /\ g.is[n] = v
        BY <2>1 DEF StepsTo, Extends
    <2>10. As(f, n) = target
        BY <2>1, <2>5, <2>6, <2>9 DEF As
    <2> QED  BY <2>5, <2>7, <2>8, <2>10, LaterTwice DEF T!SameKind
<1>2. CASE T!Resolved(h, n).kind # "var"
    BY <1>2, LaterItself DEF T!constrainTypeTo, T!Resolved, As
<1> QED  BY <1>1, <1>2

\* An identifier that has a type keeps it.
Holds(c, d) == \A name \in Idents : c[name] # NULL => d[name] = c[name]

LEMMA HoldsTwice ==
    ASSUME NEW b, NEW c, NEW d, Holds(b, c), Holds(c, d)
    PROVE  Holds(b, d)
BY DEF Holds

LEMMA InsertConstraintEqual ==
    ASSUME NEW h, Good(h), NEW c, Types(h, c), NEW name \in Idents, NEW n \in Nodes(h)
    PROVE  LET answer == T!insertConstraint(h, c, name, n)
           IN  /\ Later(h, answer.heap) /\ Holds(c, answer.constraint)
               /\ answer.ok => Equals(answer.heap, n, answer.constraint[name])
<1> PICK answer : answer = T!insertConstraint(h, c, name, n)
    OBVIOUS
<1>1. CASE c[name] = NULL
    <2> PICK d : d = [c EXCEPT ![name] = n]
        OBVIOUS
    <2>1. answer.heap = h /\ answer.constraint = d
        BY <1>1 DEF T!insertConstraint
    <2>2. Holds(c, d) /\ d[name] = n
        BY <1>1 DEF Types, Holds
    <2>3. Later(h, h) /\ Equals(h, n, n)
        BY LaterItself, EqualsItself
    <2> QED  BY <2>1, <2>2, <2>3
<1>2. CASE c[name] # NULL
    <2> PICK g : g = T!constrainTypes(h, c[name], n)
        OBVIOUS
    <2>1. answer.heap = g.heap /\ answer.ok = g.ok /\ answer.constraint = c
        BY <1>2 DEF T!insertConstraint
    <2>2. c[name] \in Nodes(h)
        BY <1>2 DEF Types
    <2>3. Later(h, g.heap) /\ (g.ok => EqualUnder(g.heap, c[name], n))
        BY <2>2, ConstrainTypesEqual
    <2>4. Good(g.heap) /\ Nodes(h) \subseteq Nodes(g.heap)
        BY <2>3 DEF Later, StepsTo, Extends
    <2>5. g.ok => Equals(g.heap, n, c[name])
        BY <2>2, <2>3, <2>4, EqualsSymmetric DEF Equals
    <2> QED  BY <2>1, <2>3, <2>5 DEF Holds
<1> QED  BY <1>1, <1>2

=============================================================================
