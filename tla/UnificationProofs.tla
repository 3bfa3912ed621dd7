------------------------- MODULE UnificationProofs --------------------------
(***************************************************************************)
(* Proofs about Unification, for every heap of types the calls begin with  *)
(* and any number of calls.                                                *)
(***************************************************************************)
EXTENDS Unification, SequenceTheorems, WellFoundedInduction, TLAPS

\* The types of heap and subst.
HeapOK == heap \in [Node -> Type] /\ subst \in [Var -> Node \cup {NULL}]

\* The target types have nothing in them that could be constrained.
TargetsAreLeaves == \A n \in Target : heap[n].kind # "var" /\ heap[n].parts = <<>>

IInv ==
    /\ TypeOK
    /\ VarsAreVars(heap)
    /\ TargetsAreLeaves
    /\ Acyclic
    /\ result = "running" => asked # <<>>

Closed(S) == \A k \in S : Succ(k) \subseteq S

-----------------------------------------------------------------------------
(* What resolveType returns. *)

LEMMA SuccIsNode ==
    ASSUME HeapOK, NEW n \in Node
    PROVE  Succ(n) \subseteq Node
<1>1. CASE Bound(n)
    BY <1>1 DEF HeapOK, Succ, Bound, BoundVar
<1>2. CASE ~Bound(n)
    <2>1. heap[n].parts \in Seq(Part)
        BY DEF HeapOK, Type
    <2>2. \A i \in DOMAIN heap[n].parts : heap[n].parts[i] \in Part
        BY <2>1
    <2> QED  BY <1>2, <2>2 DEF Succ, Part
<1> QED  BY <1>1, <1>2

LEMMA ChainHolds ==
    ASSUME HeapOK, NEW v \in BoundVar
    PROVE  /\ v \in Chain(v)
           /\ Chain(v) \subseteq BoundVar
           /\ \A w \in Chain(v) : Bound(subst[w]) => heap[subst[w]].var \in Chain(v)
<1>1. v \in Chain(v) /\ Chain(v) \subseteq BoundVar
    BY DEF Chain
<1>2. ASSUME NEW w \in Chain(v), Bound(subst[w])
      PROVE  heap[subst[w]].var \in Chain(v)
    <2>1. heap[subst[w]].var \in BoundVar
        BY <1>2 DEF Bound
    <2> QED  BY <1>2, <2>1 DEF Chain
<1> QED  BY <1>1, <1>2

\* The chain is the least such set.
LEMMA ChainLeast ==
    ASSUME NEW v, NEW S \in SUBSET BoundVar, v \in S,
           \A w \in S : Bound(subst[w]) => heap[subst[w]].var \in S
    PROVE  Chain(v) \subseteq S
BY DEF Chain

LEMMA ChainEnds ==
    ASSUME HeapOK, Acyclic, NEW v \in BoundVar
    PROVE  \E w \in Chain(v) : ~Bound(subst[w])
<1> DEFINE S == {subst[w] : w \in Chain(v)}
<1>1. S \in (SUBSET Node) \ {{}}
    <2>1. \A w \in Chain(v) : subst[w] \in Node
        BY ChainHolds DEF HeapOK, BoundVar
    <2>2. subst[v] \in S
        BY ChainHolds
    <2> QED  BY <2>1, <2>2
<1>2. PICK n \in S : Succ(n) \cap S = {}
    BY <1>1 DEF Acyclic
<1>3. PICK w \in Chain(v) : n = subst[w]
    BY <1>2
<1>4. ~Bound(n)
    <2> SUFFICES ASSUME Bound(n) PROVE FALSE
        OBVIOUS
    <2>1. heap[n].var \in Chain(v)
        BY <1>3, ChainHolds
    <2>2. subst[heap[n].var] \in Succ(n) \cap S
        BY <2>1 DEF Succ
    <2> QED  BY <1>2, <2>2
<1> QED  BY <1>3, <1>4

\* It has one end.
LEMMA ChainEndIsOne ==
    ASSUME HeapOK, NEW v \in BoundVar,
           NEW w \in Chain(v), ~Bound(subst[w]),
           NEW u \in Chain(v), ~Bound(subst[u])
    PROVE  u = w
<1> DEFINE S == {x \in Chain(v) : w \in Chain(x)}
<1>1. ASSUME NEW x \in S, Bound(subst[x])
      PROVE  heap[subst[x]].var \in S
    <2> DEFINE y == heap[subst[x]].var
    <2>1. y \in Chain(v) /\ y \in BoundVar /\ x \in BoundVar
        BY <1>1, ChainHolds DEF Bound
    <2>2. x \notin Chain(y) => w \in Chain(y)
        <3> DEFINE R == {x} \cup Chain(y)
        <3>1. R \in SUBSET BoundVar
            BY <2>1, ChainHolds
        <3>2. \A z \in R : Bound(subst[z]) => heap[subst[z]].var \in R
            BY <2>1, ChainHolds
        <3>3. Chain(x) \subseteq R
            <4> HIDE DEF R
            <4>1. x \in R
                BY DEF R
            <4> QED  BY <3>1, <3>2, <4>1, ChainLeast
        <3> QED  BY <1>1, <3>3
    <2>3. x \in Chain(y) => w \in Chain(y)
        <3> SUFFICES ASSUME x \in Chain(y) PROVE w \in Chain(y)
            OBVIOUS
        <3>1. Chain(x) \subseteq Chain(y)
            BY <2>1, ChainHolds, ChainLeast
        <3> QED  BY <1>1, <3>1
    <2> QED  BY <2>1, <2>2, <2>3
<1>2. S \in SUBSET BoundVar
    BY ChainHolds
<1>3. v \in S
    BY ChainHolds
<1>4. Chain(v) \subseteq S
    <2> HIDE DEF S
    <2> QED  BY <1>1, <1>2, <1>3, ChainLeast
<1>5. w \in Chain(u)
    BY <1>4
<1>6. Chain(u) \subseteq {u}
    <2>1. u \in BoundVar
        BY ChainHolds
    <2> QED  BY <2>1, ChainLeast
<1> QED  BY <1>5, <1>6

LEMMA DenotedIsEnd ==
    ASSUME HeapOK, Acyclic, NEW v \in BoundVar
    PROVE  \E w \in Chain(v) : ~Bound(subst[w]) /\ Denoted(v) = subst[w]
BY ChainEnds DEF Denoted

\* What is returned is resolved, and as good as the variable it is for.
LEMMA ResolvedOK ==
    ASSUME HeapOK, Acyclic, NEW n \in Node
    PROVE  Resolved(n) \in Node /\ ~Bound(Resolved(n))
<1>1. CASE ~Bound(n)
    BY <1>1 DEF Resolved
<1>2. CASE Bound(n)
    <2>1. heap[n].var \in BoundVar
        BY <1>2 DEF Bound
    <2>2. PICK w \in Chain(heap[n].var) : ~Bound(subst[w]) /\ Denoted(heap[n].var) = subst[w]
        BY <2>1, DenotedIsEnd
    <2>3. w \in BoundVar
        BY <2>1, ChainHolds
    <2> QED  BY <1>2, <2>2, <2>3 DEF Resolved, HeapOK, BoundVar
<1> QED  BY <1>1, <1>2

LEMMA ResolvedStep ==
    ASSUME HeapOK, Acyclic, NEW n \in Node, Bound(n)
    PROVE  subst[heap[n].var] \in Node /\ Resolved(n) = Resolved(subst[heap[n].var])
<1> DEFINE v == heap[n].var
           k == subst[v]
<1>1. v \in BoundVar /\ k \in Node
    BY DEF Bound, BoundVar, HeapOK
<1>2. PICK w \in Chain(v) : ~Bound(subst[w]) /\ Denoted(v) = subst[w]
    BY <1>1, DenotedIsEnd
<1>3. CASE ~Bound(k)
    <2>1. v \in Chain(v)
        BY <1>1, ChainHolds
    <2>2. w = v
        BY <1>1, <1>2, <1>3, <2>1, ChainEndIsOne
    <2> QED  BY <1>1, <1>2, <1>3, <2>2 DEF Resolved
<1>4. CASE Bound(k)
    <2> DEFINE y == heap[k].var
    <2>1. y \in Chain(v) /\ y \in BoundVar
        BY <1>1, <1>4, ChainHolds DEF Bound
    <2>2. PICK u \in Chain(y) : ~Bound(subst[u]) /\ Denoted(y) = subst[u]
        BY <2>1, DenotedIsEnd
    <2>3. Chain(y) \subseteq Chain(v)
        <3>1. /\ Chain(v) \in SUBSET BoundVar
              /\ \A z \in Chain(v) : Bound(subst[z]) => heap[subst[z]].var \in Chain(v)
            BY <1>1, ChainHolds
        <3> QED  BY <2>1, <3>1, ChainLeast
    <2>4. u = w
        BY <1>1, <1>2, <2>2, <2>3, ChainEndIsOne
    <2>5. Resolved(n) = Denoted(v) /\ Resolved(k) = Denoted(y)
        BY <1>4 DEF Resolved
    <2> QED  BY <1>1, <1>2, <2>2, <2>4, <2>5
<1> QED  BY <1>1, <1>3, <1>4

\* Resolving does not leave the types that one comes to.
LEMMA ResolvedIn ==
    ASSUME HeapOK, Acyclic, NEW S \in SUBSET Node, Closed(S), NEW n \in S
    PROVE  Resolved(n) \in S
<1>1. CASE ~Bound(n)
    BY <1>1 DEF Resolved
<1>2. CASE Bound(n)
    <2> DEFINE v == heap[n].var
               R == {w \in BoundVar : subst[w] \in S}
    <2>1. v \in BoundVar
        BY <1>2 DEF Bound
    <2>2. v \in R
        BY <1>2, <2>1 DEF Closed, Succ
    <2>3. \A w \in R : Bound(subst[w]) => heap[subst[w]].var \in R
        BY DEF Closed, Succ, Bound
    <2>4. Chain(v) \subseteq R
        <3>1. R \in SUBSET BoundVar
            OBVIOUS
        <3> HIDE DEF R, v
        <3> QED  BY <2>2, <2>3, <3>1, ChainLeast
    <2>5. Denoted(v) \in S
        BY <2>1, <2>4, DenotedIsEnd
    <2> QED  BY <1>2, <2>5 DEF Resolved
<1> QED  BY <1>1, <1>2

LEMMA ReachHolds ==
    ASSUME HeapOK, NEW n \in Node
    PROVE  n \in Reach({n}) /\ Reach({n}) \in SUBSET Node /\ Closed(Reach({n}))
<1>1. n \in Reach({n}) /\ Reach({n}) \in SUBSET Node
    BY DEF Reach
<1>2. ASSUME NEW k \in Reach({n}), NEW m \in Succ(k)
      PROVE  m \in Reach({n})
    <2>1. m \in Node
        BY <1>1, SuccIsNode
    <2> QED  BY <2>1 DEF Reach
<1> QED  BY <1>1, <1>2 DEF Closed

-----------------------------------------------------------------------------
(* What resolveType leaves behind, and a new binding. *)

\* A step that keeps the types without cycles: parts become resolved ones, and
\* only types outside of U get parts from U.
LEMMA AcyclicStep ==
    ASSUME HeapOK, Acyclic,
           NEW U \in SUBSET Node, Closed(U),
           \A n \in Node :
                \/ n \notin U /\ Succ(n)' \subseteq U
                \/ \A m \in Succ(n)' : \E k \in Succ(n) : m = k \/ m = Resolved(k)
    PROVE  Acyclic'
<1> SUFFICES ASSUME NEW S \in (SUBSET Node) \ {{}},
                    \A n \in S : \E m \in S : m \in Succ(n)'
             PROVE  FALSE
    BY DEF Acyclic
<1> PICK S1 : S1 = IF S \cap U = {} THEN S ELSE S \cap U
    OBVIOUS
<1>1. S1 \subseteq S /\ S1 # {}
    OBVIOUS
<1>2. ASSUME NEW n \in S1
      PROVE  \E k \in Succ(n) : k \in S1 \/ Resolved(k) \in S1
    <2>1. PICK m \in S : m \in Succ(n)'
        BY <1>1
    <2>2. ~(n \notin U /\ Succ(n)' \subseteq U)
        BY <1>1, <2>1
    <2>3. PICK k \in Succ(n) : m = k \/ m = Resolved(k)
        BY <1>1, <2>1, <2>2
    <2>4. CASE S \cap U = {}
        BY <2>3, <2>4
    <2>5. CASE S \cap U # {}
        <3>1. k \in U
            BY <2>3, <2>5 DEF Closed
        <3>2. Resolved(k) \in U
            BY <3>1, ResolvedIn
        <3> QED  BY <2>3, <2>5, <3>1, <3>2
    <2> QED  BY <2>4, <2>5
<1> PICK T : T = S1 \cup {k \in Node : Bound(k) /\ Resolved(k) \in S1}
    OBVIOUS
<1>3. T \in (SUBSET Node) \ {{}}
    BY <1>1
<1>4. ASSUME NEW n \in S1
      PROVE  Succ(n) \cap T # {}
    <2>1. PICK k \in Succ(n) : k \in S1 \/ Resolved(k) \in S1
        BY <1>2
    <2>2. k \in Node
        BY <1>1, SuccIsNode
    <2>3. ~Bound(k) => Resolved(k) = k
        BY DEF Resolved
    <2>4. k \in T
        BY <2>1, <2>2, <2>3
    <2> QED  BY <2>1, <2>4
<1>5. ASSUME NEW n \in Node, Bound(n), Resolved(n) \in S1
      PROVE  Succ(n) \cap T # {}
    <2> PICK k : k = subst[heap[n].var]
        OBVIOUS
    <2>1. k \in Node /\ Resolved(k) = Resolved(n)
        BY <1>5, ResolvedStep
    <2>2. ~Bound(k) => Resolved(k) = k
        BY DEF Resolved
    <2>3. k \in T
        BY <1>5, <2>1, <2>2
    <2>4. k \in Succ(n)
        BY <1>5 DEF Succ
    <2> QED  BY <2>3, <2>4
<1>6. \A n \in T : Succ(n) \cap T # {}
    BY <1>4, <1>5
<1> QED  BY <1>3, <1>6 DEF Acyclic

\* The types are changed in their parts only, and each part to its resolved type.
LEMMA ResolvedPartsOK ==
    ASSUME HeapOK, Acyclic, NEW visited, heap' = ResolvedParts(visited)
    PROVE  /\ heap' \in [Node -> Type]
           /\ \A n \in Node :
                /\ heap'[n].kind = heap[n].kind
                /\ heap'[n].var = heap[n].var
                /\ DOMAIN heap'[n].parts = DOMAIN heap[n].parts
                /\ Len(heap'[n].parts) = Len(heap[n].parts)
                /\ \A i \in DOMAIN heap[n].parts :
                    LET k == heap[n].parts[i].type
                    IN  heap'[n].parts[i].type \in {k, Resolved(k)}
<1> SUFFICES ASSUME NEW n \in Node
             PROVE  /\ heap'[n] \in Type
                    /\ heap'[n].kind = heap[n].kind
                    /\ heap'[n].var = heap[n].var
                    /\ DOMAIN heap'[n].parts = DOMAIN heap[n].parts
                    /\ Len(heap'[n].parts) = Len(heap[n].parts)
                    /\ \A i \in DOMAIN heap[n].parts :
                        LET k == heap[n].parts[i].type
                        IN  heap'[n].parts[i].type \in {k, Resolved(k)}
    BY DEF ResolvedParts
<1>1. heap[n] \in Type /\ heap[n].parts \in Seq(Part)
    BY DEF HeapOK, Type
<1>2. \A i \in DOMAIN heap[n].parts : heap[n].parts[i] \in Part
    BY <1>1
<1>3. CASE n \notin visited
    BY <1>1, <1>3 DEF ResolvedParts
<1>4. CASE n \in visited
    <2> PICK parts : parts = [i \in DOMAIN heap[n].parts |->
                                [name |-> heap[n].parts[i].name,
                                 type |-> Resolved(heap[n].parts[i].type)]]
        OBVIOUS
    <2>1. heap'[n] = [heap[n] EXCEPT !.parts = parts]
        BY <1>4 DEF ResolvedParts
    <2>2. \A i \in DOMAIN heap[n].parts :
            parts[i] \in Part /\ parts[i].type = Resolved(heap[n].parts[i].type)
        BY <1>2, ResolvedOK DEF Part
    <2>3. DOMAIN heap[n].parts = 1 .. Len(heap[n].parts) /\ Len(heap[n].parts) \in Nat
        BY <1>1
    <2>4. parts \in Seq(Part) /\ Len(parts) = Len(heap[n].parts)
        <3>1. parts \in [1 .. Len(heap[n].parts) -> Part]
            BY <2>2, <2>3
        <3> QED  BY <2>3, <3>1
    <2>5. heap'[n] \in Type /\ heap'[n].parts = parts
        BY <1>1, <2>1, <2>4 DEF Type
    <2>6. heap'[n].kind = heap[n].kind /\ heap'[n].var = heap[n].var
        BY <1>1, <2>1 DEF Type
    <2> QED  BY <2>2, <2>3, <2>4, <2>5, <2>6
<1> QED  BY <1>3, <1>4

LEMMA VarsStayVars ==
    ASSUME HeapOK, VarsAreVars(heap), TargetsAreLeaves, Target \subseteq Node, Acyclic,
           NEW visited, heap' = ResolvedParts(visited)
    PROVE  VarsAreVars(heap') /\ TargetsAreLeaves'
<1>1. \A n \in Node : heap[n].parts = <<>> => heap'[n].parts = <<>>
    <2> SUFFICES ASSUME NEW n \in Node, heap[n].parts = <<>>
                 PROVE  heap'[n].parts = <<>>
        OBVIOUS
    <2>1. heap'[n].parts \in Seq(Part) /\ Len(heap'[n].parts) = 0
        BY ResolvedPartsOK DEF Type
    <2> QED  BY <2>1
<1>2. VarsAreVars(heap')
    BY <1>1, ResolvedPartsOK DEF VarsAreVars
<1>3. TargetsAreLeaves'
    BY <1>1, ResolvedPartsOK DEF TargetsAreLeaves
<1> QED  BY <1>2, <1>3

LEMMA ResolvedVarsOK ==
    ASSUME HeapOK, Acyclic, NULL \notin Node, NEW visited, NEW w \in Var
    PROVE  /\ ResolvedVars(visited)[w] \in Node \cup {NULL}
           /\ ResolvedVars(visited)[w] = NULL <=> w \notin BoundVar
           /\ ResolvedVars(visited)[w] \in {subst[w], Denoted(w)}
<1>1. w \in BoundVar => Denoted(w) \in Node
    <2> SUFFICES ASSUME w \in BoundVar PROVE Denoted(w) \in Node
        OBVIOUS
    <2>1. PICK u \in Chain(w) : Denoted(w) = subst[u]
        BY DenotedIsEnd
    <2>2. u \in BoundVar
        BY ChainHolds
    <2> QED  BY <2>1, <2>2 DEF BoundVar, HeapOK
<1> QED  BY <1>1 DEF ResolvedVars, HeapOK, BoundVar

\* A type whose variable is not the one that is being bound.
LEMMA SuccStep ==
    ASSUME HeapOK, Acyclic, NEW visited, heap' = ResolvedParts(visited),
           NEW n \in Node,
           heap[n].var \in Var =>
                /\ subst'[heap[n].var] = NULL <=> heap[n].var \notin BoundVar
                /\ subst'[heap[n].var] \in {subst[heap[n].var], Denoted(heap[n].var)}
    PROVE  \A m \in Succ(n)' : \E k \in Succ(n) : m = k \/ m = Resolved(k)
<1> PICK w : w = heap[n].var
    OBVIOUS
<1>1. heap'[n].var = w
    BY ResolvedPartsOK
<1>2. Bound(n)' <=> Bound(n)
    BY <1>1 DEF Bound, BoundVar
<1>3. CASE Bound(n)
    <2>1. Succ(n)' = {subst'[w]}
        BY <1>1, <1>2, <1>3 DEF Succ
    <2>2. Succ(n) = {subst[w]}
        BY <1>3 DEF Succ
    <2>3. Denoted(w) = Resolved(subst[w])
        BY <1>3, ResolvedStep DEF Resolved
    <2>4. w \in Var
        BY <1>3 DEF Bound, BoundVar
    <2> QED  BY <2>1, <2>2, <2>3, <2>4
<1>4. CASE ~Bound(n)
    <2> SUFFICES ASSUME NEW m \in Succ(n)'
                 PROVE  \E k \in Succ(n) : m = k \/ m = Resolved(k)
        OBVIOUS
    <2>1. PICK i \in DOMAIN heap'[n].parts : m = heap'[n].parts[i].type
        BY <1>2, <1>4 DEF Succ
    <2>2. i \in DOMAIN heap[n].parts
        BY <2>1, ResolvedPartsOK
    <2> PICK k : k = heap[n].parts[i].type
        OBVIOUS
    <2>3. m = k \/ m = Resolved(k)
        BY <2>1, <2>2, ResolvedPartsOK
    <2>4. k \in Succ(n)
        BY <1>4, <2>2 DEF Succ
    <2> QED  BY <2>3, <2>4
<1> QED  BY <1>3, <1>4

\* A call that binds nothing.
LEMMA ResolveKeeps ==
    ASSUME HeapOK, Acyclic, NULL \notin Node, NEW visited,
           heap' = ResolvedParts(visited), subst' = ResolvedVars(visited)
    PROVE  HeapOK' /\ Acyclic'
<1>1. HeapOK'
    <2>1. subst' \in [Var -> Node \cup {NULL}]
        <3>1. subst' = [v \in Var |-> subst'[v]]
            BY DEF ResolvedVars
        <3>2. \A v \in Var : subst'[v] \in Node \cup {NULL}
            BY ResolvedVarsOK
        <3> QED  BY <3>1, <3>2
    <2> QED  BY <2>1, ResolvedPartsOK DEF HeapOK
<1>2. \A n \in Node : \A m \in Succ(n)' : \E k \in Succ(n) : m = k \/ m = Resolved(k)
    BY ResolvedVarsOK, SuccStep
<1>3. Closed(Node)
    BY SuccIsNode DEF Closed
<1>4. Acyclic'
    BY <1>2, <1>3, AcyclicStep
<1> QED  BY <1>1, <1>4

\* A call that binds v to the type b, none of whose types U is a v.
LEMMA BindKeeps ==
    ASSUME HeapOK, Acyclic, NULL \notin Node, NEW visited,
           NEW v \in Var \ BoundVar,
           NEW U \in SUBSET Node, Closed(U), NEW b \in U,
           \A n \in U : heap[n].var # v,
           heap' = ResolvedParts(visited),
           subst' = [ResolvedVars(visited) EXCEPT ![v] = b]
    PROVE  HeapOK' /\ Acyclic'
<1>1. \A w \in Var : subst'[w] = IF w = v THEN b ELSE ResolvedVars(visited)[w]
    BY DEF ResolvedVars
<1>2. HeapOK'
    <2>1. subst' \in [Var -> Node \cup {NULL}]
        <3>1. subst' = [w \in Var |-> subst'[w]]
            BY DEF ResolvedVars
        <3>2. \A w \in Var : subst'[w] \in Node \cup {NULL}
            BY <1>1, ResolvedVarsOK
        <3> QED  BY <3>1, <3>2
    <2> QED  BY <2>1, ResolvedPartsOK DEF HeapOK
<1>3. ASSUME NEW n \in Node, heap[n].var # v
      PROVE  \A m \in Succ(n)' : \E k \in Succ(n) : m = k \/ m = Resolved(k)
    BY <1>1, <1>3, ResolvedVarsOK, SuccStep
<1>4. ASSUME NEW n \in Node, heap[n].var = v
      PROVE  n \notin U /\ Succ(n)' \subseteq U
    <2>1. heap'[n].var = v
        BY <1>4, ResolvedPartsOK
    <2>2. subst'[v] = b /\ b # NULL
        BY <1>1
    <2>3. Succ(n)' = {b}
        BY <2>1, <2>2 DEF Succ, Bound, BoundVar
    <2> QED  BY <1>4, <2>3
<1>5. Acyclic'
    BY <1>3, <1>4, AcyclicStep
<1> QED  BY <1>2, <1>5

-----------------------------------------------------------------------------
(* The invariant. *)

LEMMA InitInv ==
    ASSUME Init
    PROVE  IInv
<1> USE UnificationAssumption
<1>1. heap \in [Node -> Type] /\ WellBuilt(heap)
    BY DEF Init
<1>2. TypeOK
    BY <1>1 DEF Init, TypeOK
<1>3. VarsAreVars(heap) /\ TargetsAreLeaves
    BY <1>1 DEF WellBuilt, TargetsAreLeaves, Init
<1>4. \A n \in Node : Succ(n) = {heap[n].parts[i].type : i \in DOMAIN heap[n].parts}
    <2> SUFFICES ASSUME NEW n \in Node PROVE ~Bound(n)
        BY DEF Succ
    <2>1. BoundVar = {}
        BY DEF Init, BoundVar
    <2> QED  BY <2>1 DEF Bound
<1>5. Acyclic
    <2> SUFFICES ASSUME NEW S \in (SUBSET Node) \ {{}}
                 PROVE  \E n \in S : Succ(n) \cap S = {}
        BY DEF Acyclic
    <2>1. PICK n \in S : \A i \in DOMAIN heap[n].parts : heap[n].parts[i].type \notin S
        BY <1>1 DEF WellBuilt
    <2>2. Succ(n) \cap S = {}
        BY <1>4, <2>1
    <2> QED  BY <2>2
<1>6. result # "running"
    BY DEF Init
<1> QED  BY <1>2, <1>3, <1>5, <1>6 DEF IInv

\* The pair whose turn it is.
LEMMA HeadOK ==
    ASSUME IInv, Running
    PROVE  /\ Head(todo).left \in Node /\ Head(todo).right \in Node
           /\ Left \in Node /\ ~Bound(Left)
           /\ Right \in Node /\ ~Bound(Right)
           /\ Tail(todo) \in Seq([left : Node, right : Node, agree : BOOLEAN])
<1>1. HeapOK /\ Acyclic
    BY DEF IInv, TypeOK, HeapOK
<1>2. todo \in Seq([left : Node, right : Node, agree : BOOLEAN]) /\ todo # <<>>
    BY DEF IInv, TypeOK, Running
<1>3. /\ Head(todo) \in [left : Node, right : Node, agree : BOOLEAN]
      /\ Tail(todo) \in Seq([left : Node, right : Node, agree : BOOLEAN])
    <2> PICK S : S = [left : Node, right : Node, agree : BOOLEAN]
        OBVIOUS
    <2>1. todo \in Seq(S) /\ todo # <<>>
        BY <1>2
    <2>2. Head(todo) \in S /\ Tail(todo) \in Seq(S)
        BY <2>1, HeadTailProperties
    <2> QED  BY <2>2
<1>4. Head(todo).left \in Node /\ Head(todo).right \in Node
    BY <1>3
<1> QED  BY <1>1, <1>3, <1>4, ResolvedOK DEF Left, Right

LEMMA ResolveInv ==
    ASSUME IInv, Running, Resolve
    PROVE  HeapOK' /\ VarsAreVars(heap') /\ TargetsAreLeaves' /\ Acyclic'
<1>1. HeapOK /\ Acyclic /\ NULL \notin Node /\ Target \subseteq Node
    BY UnificationAssumption DEF IInv, TypeOK, HeapOK
<1> PICK visited : visited = Reach({Head(todo).left, Head(todo).right})
    OBVIOUS
<1>2. heap' = ResolvedParts(visited) /\ subst' = ResolvedVars(visited)
    BY DEF Resolve
<1> QED  BY <1>1, <1>2, ResolveKeeps, VarsStayVars DEF IInv

LEMMA BindInv ==
    ASSUME IInv, Running, NEW n \in Node, IsVar(n), ~Bound(n),
           NEW b \in Node, ~occursIn(heap[n].var, b), ResolveAndBind(heap[n].var, b)
    PROVE  HeapOK' /\ VarsAreVars(heap') /\ TargetsAreLeaves' /\ Acyclic'
<1>1. HeapOK /\ Acyclic /\ NULL \notin Node /\ Target \subseteq Node
    BY UnificationAssumption DEF IInv, TypeOK, HeapOK
<1> PICK visited : visited = Reach({Head(todo).left, Head(todo).right})
    OBVIOUS
<1> PICK v : v = heap[n].var
    OBVIOUS
<1>2. heap' = ResolvedParts(visited) /\ subst' = [ResolvedVars(visited) EXCEPT ![v] = b]
    BY DEF ResolveAndBind
<1>3. v \in Var \ BoundVar
    <2>1. v # NULL
        BY DEF IInv, VarsAreVars, IsVar
    <2>2. v \in Var
        BY <1>1, <2>1 DEF HeapOK, Type
    <2> QED  BY <2>2 DEF Bound
<1> PICK U : U = Reach({b})
    OBVIOUS
<1>4. U \in SUBSET Node /\ Closed(U) /\ b \in U
    BY <1>1, ReachHolds
<1>5. \A m \in U : heap[m].var # v
    BY DEF occursIn
<1>6. HeapOK' /\ Acyclic'
    BY <1>1, <1>2, <1>3, <1>4, <1>5, BindKeeps
<1>7. VarsAreVars(heap') /\ TargetsAreLeaves'
    BY <1>1, <1>2, VarsStayVars DEF IInv
<1> QED  BY <1>6, <1>7

\* constrainTypeTo binds to a type in which nothing can occur.
LEMMA ConstrainToInv ==
    ASSUME IInv, NEW a \in Node, NEW target \in Target, ConstrainTo(a, target)
    PROVE  HeapOK' /\ VarsAreVars(heap') /\ TargetsAreLeaves' /\ Acyclic'
<1>1. HeapOK /\ Acyclic /\ NULL \notin Node /\ Target \subseteq Node
    BY UnificationAssumption DEF IInv, TypeOK, HeapOK
<1> PICK visited, n : visited = Reach({a}) /\ n = Resolved(a)
    OBVIOUS
<1>2. n \in Node /\ ~Bound(n)
    BY <1>1, ResolvedOK
<1>3. heap' = ResolvedParts(visited)
    BY DEF ConstrainTo
<1>4. VarsAreVars(heap') /\ TargetsAreLeaves'
    BY <1>1, <1>3, VarsStayVars DEF IInv
<1>5. CASE IsVar(n)
    <2> PICK v : v = heap[n].var
        OBVIOUS
    <2>1. subst' = [ResolvedVars(visited) EXCEPT ![v] = target]
        BY <1>5 DEF ConstrainTo
    <2>2. v \in Var \ BoundVar
        <3>1. v # NULL
            BY <1>2, <1>5 DEF IInv, VarsAreVars, IsVar
        <3>2. v \in Var
            BY <1>1, <1>2, <3>1 DEF HeapOK, Type
        <3> QED  BY <1>2, <3>2 DEF Bound
    <2>3. target \in Node /\ heap[target].kind # "var" /\ heap[target].parts = <<>>
        BY <1>1 DEF IInv, TargetsAreLeaves
    <2>4. heap[target].var = NULL /\ NULL \notin Var
        BY <2>3, UnificationAssumption DEF IInv, VarsAreVars
    <2>5. Closed({target})
        BY <2>3, <2>4 DEF Closed, Succ, Bound, BoundVar
    <2>6. \A m \in {target} : heap[m].var # v
        BY <2>2, <2>4
    <2>7. {target} \in SUBSET Node /\ target \in {target}
        BY <2>3
    <2>8. HeapOK' /\ Acyclic'
        <3> PICK U : U = {target}
            OBVIOUS
        <3> QED  BY <1>1, <1>3, <2>1, <2>2, <2>5, <2>6, <2>7, BindKeeps
    <2> QED  BY <1>4, <2>8
<1>6. CASE ~IsVar(n)
    <2>1. subst' = ResolvedVars(visited)
        BY <1>6 DEF ConstrainTo
    <2> QED  BY <1>1, <1>3, <1>4, <2>1, ResolveKeeps
<1> QED  BY <1>5, <1>6

LEMMA PartPairsOK ==
    ASSUME NEW a \in Type, NEW b \in Type, Alike(a, b)
    PROVE  PartPairs(a, b) \in Seq([left : Node, right : Node, agree : BOOLEAN])
<1>1. a.parts \in Seq(Part) /\ b.parts \in Seq(Part) /\ Len(a.parts) = Len(b.parts)
    BY DEF Type, Alike
<1>2. \A i \in DOMAIN a.parts : a.parts[i].type \in Node /\ b.parts[i].type \in Node
    <2>1. \A i \in DOMAIN a.parts : a.parts[i] \in Part /\ b.parts[i] \in Part
        BY <1>1
    <2> QED  BY <2>1 DEF Part
<1>3. PartPairs(a, b) \in [1 .. Len(a.parts) -> [left : Node, right : Node, agree : BOOLEAN]]
    <2>1. DOMAIN a.parts = 1 .. Len(a.parts)
        BY <1>1
    <2>2. ASSUME NEW i \in DOMAIN a.parts
          PROVE  Pair(a.parts[i].type, b.parts[i].type, a.parts[i].name = b.parts[i].name)
                    \in [left : Node, right : Node, agree : BOOLEAN]
        <3>1. (a.parts[i].name = b.parts[i].name) \in BOOLEAN
            OBVIOUS
        <3> QED  BY <1>2, <3>1 DEF Pair
    <2> PICK S : S = [left : Node, right : Node, agree : BOOLEAN]
        OBVIOUS
    <2>3. PartPairs(a, b) \in [DOMAIN a.parts -> S]
        <3> HIDE DEF Pair
        <3> QED  BY <2>2 DEF PartPairs
    <2> QED  BY <2>1, <2>3
<1>4. Len(a.parts) \in Nat
    BY <1>1
<1> PICK S : S = [left : Node, right : Node, agree : BOOLEAN]
    OBVIOUS
<1>5. PartPairs(a, b) \in [1 .. Len(a.parts) -> S]
    BY <1>3
<1>6. PartPairs(a, b) \in Seq(S)
    <2> PICK n : n = Len(a.parts)
        OBVIOUS
    <2> PICK e : e = [i \in 1 .. n |-> PartPairs(a, b)[i]]
        OBVIOUS
    <2>1. n \in Nat /\ \A i \in 1 .. n : e[i] \in S
        BY <1>4, <1>5
    <2>2. e \in [1 .. n -> S]
        BY <2>1
    <2>3. e \in Seq(S)
        BY ONLY <2>1, <2>2
    <2>4. PartPairs(a, b) = e
        BY <1>5
    <2> QED  BY <2>3, <2>4
<1> QED  BY <1>6

LEMMA SameTypes ==
    ASSUME IInv, UNCHANGED <<heap, subst>>
    PROVE  HeapOK' /\ VarsAreVars(heap') /\ TargetsAreLeaves' /\ Acyclic'
<1>1. \A n \in Node : Succ(n)' = Succ(n)
    BY DEF Succ, Bound, BoundVar
<1>2. Acyclic'
    BY <1>1 DEF IInv, Acyclic
<1> QED  BY <1>2 DEF IInv, TypeOK, HeapOK, VarsAreVars, TargetsAreLeaves

LEMMA StepKeeps ==
    ASSUME IInv, Step
    PROVE  IInv'
<1> DEFINE PairSeq == Seq([left : Node, right : Node, agree : BOOLEAN])
           Types == HeapOK' /\ VarsAreVars(heap') /\ TargetsAreLeaves' /\ Acyclic'
           Rest == /\ todo' \in PairSeq
                   /\ result' \in {"none", "running", "true", "false"}
                   /\ asked' \in Seq(Node \X Node)
                   /\ granted' \subseteq Node \X Node
                   /\ result' = "running" => asked' # <<>>
<1>1. SUFFICES Types /\ Rest
    BY DEF IInv, TypeOK, HeapOK
<1>2. CASE SkipSame
    <2>1. Types
        BY <1>2, ResolveInv DEF SkipSame
    <2>2. Rest
        BY <1>2, HeadOK DEF SkipSame, Advance, IInv, TypeOK
    <2> QED  BY <2>1, <2>2
<1>3. CASE BindLeft
    <2>1. Types
        BY <1>3, HeadOK, BindInv DEF BindLeft
    <2>2. Rest
        BY <1>3, HeadOK DEF BindLeft, Advance, IInv, TypeOK
    <2> QED  BY <2>1, <2>2
<1>4. CASE BindRight
    <2>1. Types
        BY <1>4, HeadOK, BindInv DEF BindRight
    <2>2. Rest
        BY <1>4, HeadOK DEF BindRight, Advance, IInv, TypeOK
    <2> QED  BY <2>1, <2>2
<1>5. CASE Occurs
    <2>1. Types
        BY <1>5, ResolveInv DEF Occurs
    <2>2. Rest
        BY <1>5 DEF Occurs, Refuse, IInv, TypeOK
    <2> QED  BY <2>1, <2>2
<1>6. CASE Descend
    <2>1. Types
        BY <1>6, ResolveInv DEF Descend
    <2>2. Rest
        <3>1. heap'[Left] \in Type /\ heap'[Right] \in Type
            BY <1>6, <2>1, HeadOK DEF HeapOK, Descend
        <3>2. Alike(heap'[Left], heap'[Right])
            <4>1. HeapOK /\ Acyclic
                BY DEF IInv, TypeOK, HeapOK
            <4>2. heap' = ResolvedParts(Reach({Head(todo).left, Head(todo).right}))
                BY <1>6 DEF Descend, Resolve
            <4>3. \A n \in Node : /\ heap'[n].kind = heap[n].kind
                                  /\ Len(heap'[n].parts) = Len(heap[n].parts)
                BY <4>1, <4>2, ResolvedPartsOK
            <4>4. Left \in Node /\ Right \in Node
                BY <1>6, HeadOK DEF Descend
            <4> QED  BY <1>6, <4>3, <4>4 DEF Descend, Alike
        <3>3. PartPairs(heap'[Left], heap'[Right]) \in PairSeq
            BY <3>1, <3>2, PartPairsOK
        <3>4. Tail(todo) \in PairSeq
            BY <1>6, HeadOK DEF Descend
        <3>5. todo' \in PairSeq
            BY <1>6, <3>3, <3>4 DEF Descend
        <3> QED  BY <1>6, <3>5 DEF Descend, IInv, TypeOK
    <2> QED  BY <2>1, <2>2
<1>7. CASE Clash
    <2>1. Types
        BY <1>7, ResolveInv DEF Clash
    <2>2. Rest
        BY <1>7 DEF Clash, Refuse, IInv, TypeOK
    <2> QED  BY <2>1, <2>2
<1>8. CASE NamesDiffer
    <2>1. Types
        BY <1>8, SameTypes DEF NamesDiffer
    <2>2. Rest
        BY <1>8 DEF NamesDiffer, Refuse, IInv, TypeOK
    <2> QED  BY <2>1, <2>2
<1>9. CASE Grant
    <2>1. Types
        BY <1>9, SameTypes DEF Grant
    <2>2. asked[Len(asked)] \in Node \X Node
        <3>1. asked \in Seq(Node \X Node) /\ asked # <<>>
            BY <1>9 DEF Grant, IInv, TypeOK
        <3> QED  BY <3>1
    <2>3. Rest
        BY <1>9, <2>2 DEF Grant, IInv, TypeOK
    <2> QED  BY <2>1, <2>3
<1> QED  BY <1>2, <1>3, <1>4, <1>5, <1>6, <1>7, <1>8, <1>9 DEF Step

LEMMA NextKeeps ==
    ASSUME IInv, [Next]_vars
    PROVE  IInv'
<1> DEFINE PairSeq == Seq([left : Node, right : Node, agree : BOOLEAN])
           Types == HeapOK' /\ VarsAreVars(heap') /\ TargetsAreLeaves' /\ Acyclic'
           Rest == /\ todo' \in PairSeq
                   /\ result' \in {"none", "running", "true", "false"}
                   /\ asked' \in Seq(Node \X Node)
                   /\ granted' \subseteq Node \X Node
                   /\ result' = "running" => asked' # <<>>
<1>1. ASSUME Types, Rest PROVE IInv'
    BY <1>1 DEF IInv, TypeOK, HeapOK
<1>2. ASSUME NEW a \in Node, NEW b \in Node, Constrain(a, b)
      PROVE  IInv'
    <2>1. Types
        BY <1>2, SameTypes DEF Constrain
    <2>2. asked' \in Seq(Node \X Node) /\ asked' # <<>>
        <3>1. asked \in Seq(Node \X Node) /\ <<a, b>> \in Node \X Node
            BY DEF IInv, TypeOK
        <3> QED  BY <1>2, <3>1 DEF Constrain
    <2>3. todo' \in PairSeq
        BY <1>2 DEF Constrain, Pair
    <2>4. Rest
        BY <1>2, <2>2, <2>3 DEF Constrain, IInv, TypeOK
    <2> QED  BY <1>1, <2>1, <2>4
<1>3. ASSUME NEW a \in Node, NEW target \in Target, ConstrainTo(a, target)
      PROVE  IInv'
    <2>1. Types
        BY <1>3, ConstrainToInv
    <2>2. <<a, target>> \in Node \X Node
        BY UnificationAssumption
    <2>3. asked' \in Seq(Node \X Node) /\ asked' # <<>>
        <3>1. asked \in Seq(Node \X Node)
            BY DEF IInv, TypeOK
        <3> QED  BY <1>3, <2>2, <3>1 DEF ConstrainTo
    <2>4. Rest
        BY <1>3, <2>2, <2>3 DEF ConstrainTo, IInv, TypeOK
    <2> QED  BY <1>1, <2>1, <2>4
<1>4. CASE Step
    BY <1>4, StepKeeps
<1>5. CASE UNCHANGED vars
    <2>1. Types
        BY <1>5, SameTypes DEF vars
    <2>2. Rest
        BY <1>5 DEF vars, IInv, TypeOK
    <2> QED  BY <1>1, <2>1, <2>2
<1> QED  BY <1>2, <1>3, <1>4, <1>5 DEF Next

THEOREM Invariant == Spec => []IInv
<1>1. Init => IInv
    BY InitInv
<1>2. IInv /\ [Next]_vars => IInv'
    BY NextKeeps
<1> QED  BY <1>1, <1>2, PTL DEF Spec

\* The types, the substitution and the work of a running call keep their types.
THEOREM TypeCorrect == Spec => []TypeOK
<1>1. IInv => TypeOK
    BY DEF IInv
<1> QED  BY <1>1, Invariant, PTL

\* The occurs check of constrainTypes keeps every type free of itself, whatever
\* is constrained and however many calls answer false.
THEOREM TypesStayAcyclic == Spec => []Acyclic
<1>1. IInv => Acyclic
    BY DEF IInv
<1> QED  BY <1>1, Invariant, PTL

-----------------------------------------------------------------------------
(* What was done follows from what was asked. *)

\* The types are still those of the beginning, but for their parts.
SameShape ==
    /\ built \in [Node -> Type]
    /\ \A n \in Node :
        /\ heap[n].kind = built[n].kind
        /\ heap[n].var = built[n].var
        /\ Len(heap[n].parts) = Len(built[n].parts)

\* An equality agrees with the bindings, with what the parts were replaced by,
\* and with what is still to be done.
Agrees(eq) ==
    /\ \A n \in Node : Bound(n) => eq[subst[heap[n].var]] = eq[n]
    /\ \A n \in Node : \A i \in DOMAIN heap[n].parts :
        eq[heap[n].parts[i].type] = eq[built[n].parts[i].type]

AgreesToDo(eq) == \A i \in DOMAIN todo : eq[todo[i].left] = eq[todo[i].right]

FollowInv ==
    /\ IInv
    /\ SameShape
    /\ \A eq \in Satisfying(Calls) : Agrees(eq) /\ AgreesToDo(eq)

LEMMA ResolvedAgrees ==
    ASSUME HeapOK, Acyclic, NEW eq, Agrees(eq), NEW n \in Node
    PROVE  eq[Resolved(n)] = eq[n]
<1>1. CASE ~Bound(n)
    BY <1>1 DEF Resolved
<1>2. CASE Bound(n)
    <2> PICK v : v = heap[n].var
        OBVIOUS
    <2> PICK R : R = {w \in BoundVar : eq[subst[w]] = eq[n]}
        OBVIOUS
    <2>1. v \in BoundVar /\ v \in R
        BY <1>2 DEF Bound, Agrees
    <2>2. \A w \in R : Bound(subst[w]) => heap[subst[w]].var \in R
        <3> SUFFICES ASSUME NEW w \in R, Bound(subst[w])
                     PROVE  heap[subst[w]].var \in R
            OBVIOUS
        <3>1. subst[w] \in Node /\ eq[subst[w]] = eq[n]
            BY DEF HeapOK, BoundVar
        <3>2. eq[subst[heap[subst[w]].var]] = eq[subst[w]]
            BY <3>1 DEF Agrees
        <3> QED  BY <3>1, <3>2 DEF Bound
    <2>3. Chain(v) \subseteq R
        BY <2>1, <2>2, ChainLeast
    <2>4. PICK w \in Chain(v) : Denoted(v) = subst[w]
        BY <2>1, DenotedIsEnd
    <2>5. eq[Denoted(v)] = eq[n]
        BY <2>3, <2>4
    <2> QED  BY <1>2, <2>5 DEF Resolved
<1> QED  BY <1>1, <1>2

LEMMA ShapeKept ==
    ASSUME HeapOK, Acyclic, SameShape, NEW visited, heap' = ResolvedParts(visited),
           built' = built
    PROVE  SameShape'
BY ResolvedPartsOK DEF SameShape

LEMMA PartsAgree ==
    ASSUME HeapOK, Acyclic, NEW eq, Agrees(eq),
           NEW visited, heap' = ResolvedParts(visited)
    PROVE  \A n \in Node : \A i \in DOMAIN heap'[n].parts :
                eq[heap'[n].parts[i].type] = eq[built[n].parts[i].type]
<1> SUFFICES ASSUME NEW n \in Node, NEW i \in DOMAIN heap'[n].parts
             PROVE  eq[heap'[n].parts[i].type] = eq[built[n].parts[i].type]
    OBVIOUS
<1> PICK k : k = heap[n].parts[i].type
    OBVIOUS
<1>1. i \in DOMAIN heap[n].parts
    BY ResolvedPartsOK
<1>2. k \in Node
    <2>1. heap[n].parts \in Seq(Part)
        BY DEF HeapOK, Type
    <2>2. heap[n].parts[i] \in Part
        BY <1>1, <2>1
    <2> QED  BY <2>2 DEF Part
<1>3. eq[Resolved(k)] = eq[k]
    BY <1>2, ResolvedAgrees
<1>4. heap'[n].parts[i].type = k \/ heap'[n].parts[i].type = Resolved(k)
    BY <1>1, ResolvedPartsOK
<1>5. eq[k] = eq[built[n].parts[i].type]
    BY <1>1 DEF Agrees
<1> QED  BY <1>3, <1>4, <1>5

\* A call that binds nothing.
LEMMA ResolveAgrees ==
    ASSUME HeapOK, Acyclic, NULL \notin Node, NEW eq, Agrees(eq), built' = built,
           NEW visited, heap' = ResolvedParts(visited), subst' = ResolvedVars(visited)
    PROVE  Agrees(eq)'
<1>1. ASSUME NEW n \in Node, Bound(n)'
      PROVE  eq[subst'[heap'[n].var]] = eq[n]
    <2> PICK w : w = heap[n].var
        OBVIOUS
    <2>1. heap'[n].var = w
        BY ResolvedPartsOK
    <2>2. w \in Var /\ subst'[w] # NULL
        BY <1>1, <2>1 DEF Bound, BoundVar
    <2>3. w \in BoundVar /\ subst'[w] \in {subst[w], Denoted(w)}
        BY <2>2, ResolvedVarsOK
    <2>4. Bound(n) /\ Resolved(n) = Denoted(w)
        BY <2>3 DEF Bound, Resolved
    <2>5. eq[Denoted(w)] = eq[n] /\ eq[subst[w]] = eq[n]
        BY <2>4, ResolvedAgrees DEF Agrees
    <2> QED  BY <2>1, <2>3, <2>5
<1>2. ASSUME NEW n \in Node, NEW i \in DOMAIN heap'[n].parts
      PROVE  eq[heap'[n].parts[i].type] = eq[built'[n].parts[i].type]
    BY PartsAgree
<1> QED  BY <1>1, <1>2 DEF Agrees

\* A call that binds v to a type b equal to it.
LEMMA BindAgrees ==
    ASSUME HeapOK, Acyclic, NULL \notin Node, NEW eq, Agrees(eq), built' = built,
           NEW v \in Var \ BoundVar, NEW b \in Node,
           \A n \in Node : heap[n].var = v => eq[b] = eq[n],
           NEW visited, heap' = ResolvedParts(visited),
           subst' = [ResolvedVars(visited) EXCEPT ![v] = b]
    PROVE  Agrees(eq)'
<1>1. \A w \in Var : subst'[w] = IF w = v THEN b ELSE ResolvedVars(visited)[w]
    BY DEF ResolvedVars
<1>2. BoundVar' \subseteq Var
    BY DEF BoundVar
<1>3. ASSUME NEW n \in Node, Bound(n)'
      PROVE  eq[subst'[heap'[n].var]] = eq[n]
    <2> PICK w : w = heap[n].var
        OBVIOUS
    <2>1. heap'[n].var = w
        BY ResolvedPartsOK
    <2>2. w \in Var /\ subst'[w] # NULL
        BY <1>3, <2>1 DEF Bound, BoundVar
    <2>3. CASE w = v
        BY <1>1, <2>1, <2>2, <2>3
    <2>4. CASE w # v
        <3>1. w \in BoundVar /\ subst'[w] \in {subst[w], Denoted(w)}
            BY <1>1, <2>2, <2>4, ResolvedVarsOK
        <3>2. Bound(n) /\ Resolved(n) = Denoted(w)
            BY <3>1 DEF Bound, Resolved
        <3>3. eq[Denoted(w)] = eq[n] /\ eq[subst[w]] = eq[n]
            BY <3>2, ResolvedAgrees DEF Agrees
        <3> QED  BY <2>1, <3>1, <3>3
    <2> QED  BY <2>3, <2>4
<1>4. ASSUME NEW n \in Node, NEW i \in DOMAIN heap'[n].parts
      PROVE  eq[heap'[n].parts[i].type] = eq[built'[n].parts[i].type]
    BY PartsAgree
<1> QED  BY <1>3, <1>4 DEF Agrees

\* A variable is one type, and the parts of equal types are equal.
LEMMA EqualNodes ==
    ASSUME IInv, SameShape, NEW equations, NEW eq \in Satisfying(equations),
           NEW a \in Node, NEW b \in Node
    PROVE  /\ heap[a].var \in Var /\ heap[a].var = heap[b].var => eq[a] = eq[b]
           /\ eq[a] = eq[b] /\ Alike(built[a], built[b]) =>
                \A i \in DOMAIN built[a].parts :
                    eq[built[a].parts[i].type] = eq[built[b].parts[i].type]
<1>1. a \in Nat /\ b \in Nat
    BY UnificationAssumption
<1>2. ASSUME heap[a].var \in Var, heap[a].var = heap[b].var
      PROVE  eq[a] = eq[b]
    <2>1. heap[a].var # NULL /\ heap[b].var # NULL
        BY <1>2, UnificationAssumption
    <2>2. heap[a].kind = "var" /\ heap[b].kind = "var"
        BY <2>1 DEF IInv, VarsAreVars
    <2>3. built[a].kind = "var" /\ built[b].kind = "var" /\ built[a].var = built[b].var
        BY <1>2, <2>2 DEF SameShape
    <2> QED  BY <1>1, <2>3 DEF Satisfying
<1>3. ASSUME eq[a] = eq[b], Alike(built[a], built[b]), NEW i \in DOMAIN built[a].parts
      PROVE  eq[built[a].parts[i].type] = eq[built[b].parts[i].type]
    <2>1. built[a].parts \in Seq(Part) /\ built[b].parts \in Seq(Part)
        BY DEF SameShape, Type
    <2>2. DOMAIN built[b].parts = DOMAIN built[a].parts /\ Alike(built[b], built[a])
        BY <1>3, <2>1 DEF Alike
    <2>3. CASE a < b
        BY <1>3, <2>3 DEF Satisfying
    <2>4. CASE b < a
        BY <1>3, <2>2, <2>4 DEF Satisfying
    <2> QED  BY <1>1, <2>3, <2>4
<1> QED  BY <1>2, <1>3

\* The pair whose turn it is is equal, and so is what it is resolved to.
LEMMA HeadAgrees ==
    ASSUME FollowInv, Running, NEW eq \in Satisfying(Calls)
    PROVE  eq[Left] = eq[Right]
<1>1. HeapOK /\ Acyclic /\ Agrees(eq)
    BY DEF FollowInv, IInv, TypeOK, HeapOK
<1>2. Head(todo).left \in Node /\ Head(todo).right \in Node
    BY HeadOK DEF FollowInv
<1>3. eq[Head(todo).left] = eq[Head(todo).right]
    <2>1. todo \in Seq([left : Node, right : Node, agree : BOOLEAN]) /\ todo # <<>>
        BY DEF FollowInv, IInv, TypeOK, Running
    <2>2. 1 \in DOMAIN todo /\ Head(todo) = todo[1]
        BY <2>1
    <2> QED  BY <2>2 DEF FollowInv, AgreesToDo
<1> QED  BY <1>1, <1>2, <1>3, ResolvedAgrees DEF Left, Right

LEMMA ResolveFollows ==
    ASSUME FollowInv, Running, Resolve, built' = built, NEW eq \in Satisfying(Calls)
    PROVE  SameShape' /\ Agrees(eq)'
<1>1. HeapOK /\ Acyclic /\ NULL \notin Node /\ Agrees(eq) /\ SameShape
    BY UnificationAssumption DEF FollowInv, IInv, TypeOK, HeapOK
<1> PICK visited : visited = Reach({Head(todo).left, Head(todo).right})
    OBVIOUS
<1>2. heap' = ResolvedParts(visited) /\ subst' = ResolvedVars(visited)
    BY DEF Resolve
<1> QED  BY <1>1, <1>2, ShapeKept, ResolveAgrees

LEMMA BindFollows ==
    ASSUME FollowInv, Running, NEW n \in Node, IsVar(n), ~Bound(n), NEW b \in Node,
           ResolveAndBind(heap[n].var, b), built' = built,
           NEW eq \in Satisfying(Calls), eq[n] = eq[b]
    PROVE  SameShape' /\ Agrees(eq)'
<1>1. HeapOK /\ Acyclic /\ NULL \notin Node /\ Agrees(eq) /\ SameShape /\ IInv
    BY UnificationAssumption DEF FollowInv, IInv, TypeOK, HeapOK
<1> PICK visited : visited = Reach({Head(todo).left, Head(todo).right})
    OBVIOUS
<1> PICK v : v = heap[n].var
    OBVIOUS
<1>2. heap' = ResolvedParts(visited) /\ subst' = [ResolvedVars(visited) EXCEPT ![v] = b]
    BY DEF ResolveAndBind
<1>3. v \in Var \ BoundVar
    <2>1. v # NULL
        BY <1>1 DEF IInv, VarsAreVars, IsVar
    <2>2. v \in Var
        BY <1>1, <2>1 DEF HeapOK, Type
    <2> QED  BY <2>2 DEF Bound
<1>4. \A m \in Node : heap[m].var = v => eq[b] = eq[m]
    BY <1>1, <1>3, EqualNodes
<1> QED  BY <1>1, <1>2, <1>3, <1>4, ShapeKept, BindAgrees

LEMMA DescendFollows ==
    ASSUME FollowInv, Descend, NEW eq \in Satisfying(Calls)
    PROVE  AgreesToDo(eq)'
<1>1. HeapOK /\ Acyclic /\ Agrees(eq) /\ SameShape /\ IInv /\ AgreesToDo(eq)
    BY DEF FollowInv, IInv, TypeOK, HeapOK
<1> PICK visited : visited = Reach({Head(todo).left, Head(todo).right})
    OBVIOUS
<1>2. heap' = ResolvedParts(visited)
    BY DEF Descend, Resolve
<1> PICK a, b : a = Left /\ b = Right
    OBVIOUS
<1>3. a \in Node /\ b \in Node /\ eq[a] = eq[b]
    BY <1>1, HeadOK, HeadAgrees DEF Descend
<1>4. Alike(built[a], built[b])
    BY <1>1, <1>3 DEF Descend, Alike, SameShape
<1> PICK pairs : pairs = PartPairs(heap'[a], heap'[b])
    OBVIOUS
<1>5. pairs \in Seq([left : Node, right : Node, agree : BOOLEAN])
    <2>1. HeapOK'
        BY <1>1, ResolveInv DEF Descend
    <2>2. heap'[a] \in Type /\ heap'[b] \in Type
        BY <1>3, <2>1 DEF HeapOK
    <2>3. Alike(heap'[a], heap'[b])
        BY <1>1, <1>2, <1>3, <1>4, ResolvedPartsOK DEF Alike, SameShape
    <2> QED  BY <2>2, <2>3, PartPairsOK
<1>9. \A n \in Node : \A i \in DOMAIN heap'[n].parts :
        eq[heap'[n].parts[i].type] = eq[built[n].parts[i].type]
    BY <1>1, <1>2, PartsAgree
<1>6. \A i \in DOMAIN pairs : eq[pairs[i].left] = eq[pairs[i].right]
    <2> SUFFICES ASSUME NEW i \in DOMAIN pairs
                 PROVE  eq[pairs[i].left] = eq[pairs[i].right]
        OBVIOUS
    <2>1. i \in DOMAIN heap'[a].parts
        BY DEF PartPairs
    <2>2. i \in DOMAIN heap'[b].parts /\ i \in DOMAIN built[a].parts
        <3>1. /\ heap[a].parts \in Seq(Part) /\ heap[b].parts \in Seq(Part)
              /\ built[a].parts \in Seq(Part)
            BY <1>1, <1>3 DEF HeapOK, SameShape, Type
        <3>2. /\ Len(heap[a].parts) = Len(heap[b].parts)
              /\ Len(heap[a].parts) = Len(built[a].parts)
            BY <1>1, <1>3 DEF Descend, Alike, SameShape
        <3>3. /\ DOMAIN heap[a].parts = DOMAIN heap[b].parts
              /\ DOMAIN heap[a].parts = DOMAIN built[a].parts
            BY <3>1, <3>2, LenProperties
        <3> QED  BY <1>1, <1>2, <1>3, <2>1, <3>3, ResolvedPartsOK
    <2>3. pairs[i].left = heap'[a].parts[i].type /\ pairs[i].right = heap'[b].parts[i].type
        BY <2>1 DEF PartPairs, Pair
    <2>4. eq[heap'[a].parts[i].type] = eq[built[a].parts[i].type]
        BY <1>3, <1>9, <2>1
    <2>5. eq[heap'[b].parts[i].type] = eq[built[b].parts[i].type]
        BY <1>3, <1>9, <2>2
    <2>6. eq[built[a].parts[i].type] = eq[built[b].parts[i].type]
        BY <1>1, <1>3, <1>4, <2>2, EqualNodes
    <2> QED  BY <2>3, <2>4, <2>5, <2>6
<1>7. todo \in Seq([left : Node, right : Node, agree : BOOLEAN]) /\ todo # <<>>
    BY <1>1 DEF IInv, TypeOK, Descend, Running
<1>8. todo' = pairs \o Tail(todo)
    BY DEF Descend
<1> QED
    <2> PICK S : S = [left : Node, right : Node, agree : BOOLEAN]
        OBVIOUS
    <2>1. todo \in Seq(S) /\ todo # <<>> /\ pairs \in Seq(S)
        BY <1>5, <1>7
    <2>2. /\ Tail(todo) \in Seq(S)
          /\ \A i \in 1 .. Len(Tail(todo)) : Tail(todo)[i] = todo[i + 1] /\ i + 1 \in DOMAIN todo
        BY <2>1, HeadTailProperties
    <2> PICK rest : rest = Tail(todo)
        OBVIOUS
    <2>3. \A i \in DOMAIN rest : eq[rest[i].left] = eq[rest[i].right]
        BY <1>1, <2>2 DEF AgreesToDo
    <2> PICK both : both = pairs \o rest
        OBVIOUS
    <2>4. \A i \in DOMAIN both :
            \/ i \in DOMAIN pairs /\ both[i] = pairs[i]
            \/ i - Len(pairs) \in DOMAIN rest /\ both[i] = rest[i - Len(pairs)]
        <3>1. rest \in Seq(S)
            BY <2>2
        <3> PICK n, m : n = Len(pairs) /\ m = Len(rest)
            OBVIOUS
        <3>2. n \in Nat /\ m \in Nat /\ DOMAIN pairs = 1 .. n /\ DOMAIN rest = 1 .. m
            BY <2>1, <3>1, LenProperties
        <3>3. /\ both \in Seq(S) /\ Len(both) = n + m
              /\ \A i \in 1 .. n + m : both[i] = IF i <= n THEN pairs[i] ELSE rest[i - n]
            BY <2>1, <3>1, ConcatProperties
        <3>4. DOMAIN both = 1 .. n + m
            BY <3>3, LenProperties
        <3>5. ASSUME NEW i \in 1 .. n + m
              PROVE  \/ i \in 1 .. n /\ both[i] = pairs[i]
                     \/ i - n \in 1 .. m /\ both[i] = rest[i - n]
            BY <3>2, <3>3
        <3>6. ASSUME NEW i \in DOMAIN both
              PROVE  \/ i \in DOMAIN pairs /\ both[i] = pairs[i]
                     \/ i - Len(pairs) \in DOMAIN rest /\ both[i] = rest[i - Len(pairs)]
            <4>1. i \in 1 .. n + m
                BY <3>4
            <4>2. n = Len(pairs) /\ DOMAIN pairs = 1 .. n /\ DOMAIN rest = 1 .. m
                BY <3>2
            <4> QED  BY <3>5, <4>1, <4>2
        <3> QED  BY <3>6
    <2>5. ASSUME NEW i \in DOMAIN both
          PROVE  eq[both[i].left] = eq[both[i].right]
        <3>1. CASE i \in DOMAIN pairs /\ both[i] = pairs[i]
            BY <1>6, <3>1
        <3>2. CASE i - Len(pairs) \in DOMAIN rest /\ both[i] = rest[i - Len(pairs)]
            BY <2>3, <3>2
        <3> QED  BY <2>4, <3>1, <3>2
    <2>6. todo' = both
        BY <1>8
    <2> QED  BY <2>5, <2>6 DEF AgreesToDo

\* A pair is taken off the list, or all of them.
LEMMA TailFollows ==
    ASSUME FollowInv, Running, todo' = Tail(todo), NEW eq \in Satisfying(Calls)
    PROVE  AgreesToDo(eq)'
<1> PICK S : S = [left : Node, right : Node, agree : BOOLEAN]
    OBVIOUS
<1>1. todo \in Seq(S) /\ todo # <<>>
    BY DEF FollowInv, IInv, TypeOK, Running
<1>2. /\ Tail(todo) \in Seq(S)
      /\ \A i \in 1 .. Len(Tail(todo)) : Tail(todo)[i] = todo[i + 1] /\ i + 1 \in DOMAIN todo
    BY <1>1, HeadTailProperties
<1> PICK rest : rest = Tail(todo)
    OBVIOUS
<1>3. \A i \in DOMAIN rest : eq[rest[i].left] = eq[rest[i].right]
    BY <1>2 DEF FollowInv, AgreesToDo
<1> QED  BY <1>3 DEF AgreesToDo

LEMMA SameCalls ==
    ASSUME UNCHANGED <<asked, built>>
    PROVE  Satisfying(Calls)' = Satisfying(Calls)
BY DEF Satisfying, Calls

LEMMA StepFollows ==
    ASSUME FollowInv, Step
    PROVE  FollowInv'
<1>1. IInv'
    BY StepKeeps DEF FollowInv
<1>2. asked' = asked /\ built' = built
    BY DEF Step, SkipSame, BindLeft, BindRight, Occurs, Descend, Clash, NamesDiffer, Grant,
           Advance, Refuse
<1>3. Satisfying(Calls)' = Satisfying(Calls)
    BY <1>2, SameCalls
<1>4. ASSUME SameShape',
             \A eq \in Satisfying(Calls) : Agrees(eq)' /\ AgreesToDo(eq)'
      PROVE  FollowInv'
    BY <1>1, <1>3, <1>4 DEF FollowInv
<1>5. SameShape' /\ \A eq \in Satisfying(Calls) : Agrees(eq)'
    <2>1. CASE Resolve /\ Running
        <3>1. SameShape'
            <4>1. HeapOK /\ Acyclic /\ SameShape
                BY DEF FollowInv, IInv, TypeOK, HeapOK
            <4>2. heap' = ResolvedParts(Reach({Head(todo).left, Head(todo).right}))
                BY <2>1 DEF Resolve
            <4> QED  BY <1>2, <4>1, <4>2, ShapeKept
        <3>2. \A eq \in Satisfying(Calls) : Agrees(eq)'
            BY <1>2, <2>1, ResolveFollows
        <3> QED  BY <3>1, <3>2
    <2>2. ASSUME Running, NEW n \in Node, IsVar(n), ~Bound(n), NEW b \in Node,
                 ResolveAndBind(heap[n].var, b),
                 \A eq \in Satisfying(Calls) : eq[n] = eq[b]
          PROVE  SameShape' /\ \A eq \in Satisfying(Calls) : Agrees(eq)'
        <3>1. SameShape'
            <4>1. HeapOK /\ Acyclic /\ SameShape
                BY DEF FollowInv, IInv, TypeOK, HeapOK
            <4>2. heap' = ResolvedParts(Reach({Head(todo).left, Head(todo).right}))
                BY <2>2 DEF ResolveAndBind
            <4> QED  BY <1>2, <4>1, <4>2, ShapeKept
        <3>2. \A eq \in Satisfying(Calls) : Agrees(eq)'
            BY <1>2, <2>2, BindFollows
        <3> QED  BY <3>1, <3>2
    <2>3. CASE BindLeft
        <3>1. Running /\ IsVar(Left) /\ ResolveAndBind(heap[Left].var, Right)
            BY <2>3 DEF BindLeft
        <3>2. Left \in Node /\ ~Bound(Left) /\ Right \in Node
            BY <3>1, HeadOK DEF FollowInv
        <3>3. \A eq \in Satisfying(Calls) : eq[Left] = eq[Right]
            BY <3>1, HeadAgrees
        <3> QED  BY <2>2, <3>1, <3>2, <3>3
    <2>4. CASE BindRight
        <3>1. Running /\ IsVar(Right) /\ ResolveAndBind(heap[Right].var, Left)
            BY <2>4 DEF BindRight
        <3>2. Left \in Node /\ ~Bound(Right) /\ Right \in Node
            BY <3>1, HeadOK DEF FollowInv
        <3>3. \A eq \in Satisfying(Calls) : eq[Right] = eq[Left]
            BY <3>1, HeadAgrees
        <3> QED  BY <2>2, <3>1, <3>2, <3>3
    <2>5. CASE NamesDiffer \/ Grant
        <3>1. heap' = heap /\ subst' = subst
            BY <2>5 DEF NamesDiffer, Grant
        <3> QED  BY <1>2, <3>1 DEF FollowInv, SameShape, Agrees, Bound, BoundVar
    <2>6. CASE SkipSame \/ Occurs \/ Descend \/ Clash
        BY <2>1, <2>6 DEF SkipSame, Occurs, Descend, Clash
    <2> QED  BY <2>3, <2>4, <2>5, <2>6 DEF Step
<1>6. ASSUME NEW eq \in Satisfying(Calls)
      PROVE  AgreesToDo(eq)'
    <2>1. CASE SkipSame \/ BindLeft \/ BindRight
        BY <2>1, TailFollows DEF SkipSame, BindLeft, BindRight, Advance
    <2>2. CASE Occurs \/ Clash \/ NamesDiffer
        BY <2>2 DEF Occurs, Clash, NamesDiffer, Refuse, AgreesToDo
    <2>3. CASE Descend
        BY <2>3, DescendFollows
    <2>4. CASE Grant
        BY <2>4 DEF Grant, FollowInv, AgreesToDo
    <2> QED  BY <2>1, <2>2, <2>3, <2>4 DEF Step
<1> QED  BY <1>4, <1>5, <1>6

\* One more call leaves fewer equalities.
LEMMA MoreCalls ==
    ASSUME IInv, NEW a \in Node, NEW b \in Node, asked' = Append(asked, <<a, b>>),
           built' = built
    PROVE  \A eq \in Satisfying(Calls)' : eq \in Satisfying(Calls) /\ eq[a] = eq[b]
<1> PICK p : p = <<a, b>>
    OBVIOUS
<1>1. asked \in Seq(Node \X Node) /\ p \in Node \X Node
    BY DEF IInv, TypeOK
<1>2. /\ Len(asked') = Len(asked) + 1 /\ Len(asked) \in Nat
      /\ \A i \in 1 .. Len(asked) : asked'[i] = asked[i]
      /\ asked'[Len(asked) + 1] = p
    BY <1>1
<1>3. Calls \subseteq Calls' /\ p \in Calls'
    BY <1>2 DEF Calls
<1> QED  BY <1>3 DEF Satisfying

LEMMA NextFollows ==
    ASSUME FollowInv, [Next]_vars
    PROVE  FollowInv'
<1>1. IInv'
    BY NextKeeps DEF FollowInv
<1>2. ASSUME NEW a \in Node, NEW b \in Node, Constrain(a, b)
      PROVE  FollowInv'
    <2>1. \A eq \in Satisfying(Calls)' : eq \in Satisfying(Calls) /\ eq[a] = eq[b]
        BY <1>2, MoreCalls DEF Constrain, FollowInv
    <2>2. SameShape'
        BY <1>2 DEF Constrain, FollowInv, SameShape
    <2>3. \A eq \in Satisfying(Calls) : Agrees(eq)'
        BY <1>2 DEF Constrain, FollowInv, Agrees, Bound, BoundVar
    <2>4. ASSUME NEW eq, eq[a] = eq[b]
          PROVE  AgreesToDo(eq)'
        BY <1>2, <2>4 DEF Constrain, AgreesToDo, Pair
    <2> QED  BY <1>1, <2>1, <2>2, <2>3, <2>4 DEF FollowInv
<1>3. ASSUME NEW a \in Node, NEW target \in Target, ConstrainTo(a, target)
      PROVE  FollowInv'
    <2>1. /\ HeapOK /\ Acyclic /\ NULL \notin Node /\ SameShape /\ IInv
          /\ Target \subseteq Node /\ target \in Node
        BY UnificationAssumption DEF FollowInv, IInv, TypeOK, HeapOK
    <2>2. \A eq \in Satisfying(Calls)' : eq \in Satisfying(Calls) /\ eq[a] = eq[target]
        BY <1>3, <2>1, MoreCalls DEF ConstrainTo
    <2> PICK visited, n : visited = Reach({a}) /\ n = Resolved(a)
        OBVIOUS
    <2>3. n \in Node /\ ~Bound(n)
        BY <2>1, ResolvedOK
    <2>4. heap' = ResolvedParts(visited) /\ built' = built /\ todo' = todo
        BY <1>3 DEF ConstrainTo
    <2>5. SameShape'
        BY <2>1, <2>4, ShapeKept
    <2>6. ASSUME NEW eq \in Satisfying(Calls)'
          PROVE  Agrees(eq)' /\ AgreesToDo(eq)'
        <3>1. Agrees(eq) /\ AgreesToDo(eq) /\ eq[a] = eq[target] /\ eq \in Satisfying(Calls)
            BY <2>2 DEF FollowInv
        <3>2. eq[n] = eq[target]
            BY <2>1, <3>1, ResolvedAgrees
        <3>3. CASE IsVar(n)
            <4> PICK v : v = heap[n].var
                OBVIOUS
            <4>1. subst' = [ResolvedVars(visited) EXCEPT ![v] = target]
                BY <1>3, <3>3 DEF ConstrainTo
            <4>2. v \in Var \ BoundVar
                <5>1. v # NULL
                    BY <2>1, <2>3, <3>3 DEF IInv, VarsAreVars, IsVar
                <5>2. v \in Var
                    BY <2>1, <2>3, <5>1 DEF HeapOK, Type
                <5> QED  BY <2>3, <5>2 DEF Bound
            <4>3. \A m \in Node : heap[m].var = v => eq[target] = eq[m]
                BY <2>1, <2>3, <3>1, <3>2, <4>2, EqualNodes
            <4>4. Agrees(eq)'
                BY <2>1, <2>4, <3>1, <4>1, <4>2, <4>3, BindAgrees
            <4> QED  BY <2>4, <3>1, <4>4 DEF AgreesToDo
        <3>4. CASE ~IsVar(n)
            <4>1. subst' = ResolvedVars(visited)
                BY <1>3, <3>4 DEF ConstrainTo
            <4>2. Agrees(eq)'
                BY <2>1, <2>4, <3>1, <4>1, ResolveAgrees
            <4> QED  BY <2>4, <3>1, <4>2 DEF AgreesToDo
        <3> QED  BY <3>3, <3>4
    <2> QED  BY <1>1, <2>5, <2>6 DEF FollowInv
<1>4. CASE Step
    BY <1>4, StepFollows
<1>5. CASE UNCHANGED vars
    <2>1. Satisfying(Calls)' = Satisfying(Calls)
        BY <1>5, SameCalls DEF vars
    <2> QED  BY <1>1, <1>5, <2>1 DEF vars, FollowInv, SameShape, Agrees, AgreesToDo,
                                     Bound, BoundVar
<1> QED  BY <1>2, <1>3, <1>4, <1>5 DEF Next

LEMMA InitFollows ==
    ASSUME Init
    PROVE  FollowInv
<1>1. IInv
    BY InitInv
<1>2. SameShape
    BY <1>1 DEF Init, SameShape, IInv, TypeOK
<1>3. ASSUME NEW eq PROVE Agrees(eq) /\ AgreesToDo(eq)
    <2>1. BoundVar = {}
        BY DEF Init, BoundVar
    <2> QED  BY <2>1 DEF Init, Agrees, AgreesToDo, Bound
<1> QED  BY <1>1, <1>2, <1>3 DEF FollowInv

\* A variable stands only for a type to which it is equal whenever what was
\* asked holds: constrainTypes makes nothing equal that need not be.
THEOREM BindingsFollow == Spec => []OnlyWhatFollows
<1>1. Init => FollowInv
    BY InitFollows
<1>2. FollowInv /\ [Next]_vars => FollowInv'
    BY NextFollows
<1>3. FollowInv => OnlyWhatFollows
    <2> SUFFICES ASSUME FollowInv, NEW eq \in Satisfying(Calls), NEW n \in Node
                 PROVE  eq[Resolved(n)] = eq[n]
        BY DEF OnlyWhatFollows
    <2>1. HeapOK /\ Acyclic /\ Agrees(eq)
        BY DEF FollowInv, IInv, TypeOK, HeapOK
    <2> QED  BY <2>1, ResolvedAgrees
<1> QED  BY <1>1, <1>2, <1>3, PTL DEF Spec

-----------------------------------------------------------------------------
(* What was granted stays equal, and a call is granted exactly when all     *)
(* calls together have a solution.                                         *)
(*                                                                         *)
(* The targets of constrainTypeTo are taken to be boolType: it compares    *)
(* only the kinds of types, so it grants any struct for unitType.          *)

\* A target is of a kind whose types have no parts, and are equal therefore.
BoolTargets ==
    \A h \in Heaps, n \in Target :
        /\ h[n].kind \notin {"struct", "union"}
        /\ \A m \in Node : h[m].kind = h[n].kind => h[m].parts = <<>>

\* For an equality of types, a variable is what it stands for.
Follows(eq) == \A n \in Node : Bound(n) => eq[subst[heap[n].var]] = eq[n]

\* The equalities of the types as they were built that go up: types with equal
\* parts are equal.
Congruence == {eq \in Equality : \A a, b \in Node : SameIn(eq, built[a], built[b]) => eq[a] = eq[b]}

\* The parts are those of the beginning, or what those stand for.
PartsKept ==
    /\ \A n \in Node : \A i \in DOMAIN heap[n].parts :
        heap[n].parts[i].name = built[n].parts[i].name
    /\ \A eq \in Equality : Follows(eq) =>
        \A n \in Node : \A i \in DOMAIN heap[n].parts :
            eq[heap[n].parts[i].type] = eq[built[n].parts[i].type]

Holds(eq, todos) == \A i \in DOMAIN todos : todos[i].agree /\ eq[todos[i].left] = eq[todos[i].right]

Last == asked[Len(asked)]

\* Granted types are equal, and those of the running call are once the pairs to
\* do are.
GrantedIn(eq) ==
    /\ \A p \in granted : eq[p[1]] = eq[p[2]]
    /\ result = "running" /\ Holds(eq, todo) => eq[Last[1]] = eq[Last[2]]

GrantInv ==
    /\ FollowInv
    /\ PartsKept
    /\ built \in Heaps
    /\ result # "running" => todo = <<>>
    /\ \A eq \in Congruence : Follows(eq) => GrantedIn(eq)

AnswerInv ==
    /\ GrantInv
    /\ result \in {"true", "false"} => asked # <<>>
    /\ result = "true" => Last \in granted
    /\ result = "false" => ~Solvable(Calls)
    /\ \A i \in DOMAIN todo : todo[i].agree \/ ~Solvable(Calls)

-----------------------------------------------------------------------------
(* Equalities and bindings. *)

LEMMA TypesOK ==
    ASSUME IInv
    PROVE  HeapOK /\ Acyclic /\ VarsAreVars(heap) /\ NULL \notin Node /\ NULL \notin Var
BY UnificationAssumption DEF IInv, TypeOK, HeapOK

\* It is enough that a variable is equal to what it stands for or to what that is
\* resolved to.
LEMMA ResolvedEqual ==
    ASSUME HeapOK, Acyclic, NEW eq,
           \A n \in Node : Bound(n) =>
                eq[subst[heap[n].var]] = eq[n] \/ eq[Resolved(n)] = eq[n],
           NEW n \in Node
    PROVE  eq[Resolved(n)] = eq[n]
<1> SUFFICES ASSUME eq[Resolved(n)] # eq[n] PROVE FALSE
    OBVIOUS
<1> PICK S : S = {m \in Node : eq[Resolved(m)] # eq[m]}
    OBVIOUS
<1>1. S \in (SUBSET Node) \ {{}}
    OBVIOUS
<1>2. PICK m \in S : Succ(m) \cap S = {}
    BY <1>1 DEF Acyclic
<1>3. Bound(m) /\ m \in Node
    BY DEF Resolved
<1> PICK k : k = subst[heap[m].var]
    OBVIOUS
<1>4. k \in Node /\ Resolved(m) = Resolved(k) /\ k \in Succ(m)
    BY <1>3, ResolvedStep DEF Succ
<1>5. eq[Resolved(k)] = eq[k]
    BY <1>2, <1>4
<1>6. eq[Resolved(m)] # eq[m]
    OBVIOUS
<1>7. eq[k] = eq[m] \/ eq[Resolved(m)] = eq[m]
    BY <1>3
<1> QED  BY <1>4, <1>5, <1>6, <1>7

LEMMA FollowsResolved ==
    ASSUME HeapOK, Acyclic, NEW eq, Follows(eq), NEW n \in Node
    PROVE  eq[Resolved(n)] = eq[n]
BY ResolvedEqual DEF Follows

\* What every call does to the types: parts become resolved ones, and a variable
\* that is bound stands for the same as before, or for what that is resolved to.
Rewritten ==
    /\ \A n \in Node :
        /\ heap'[n].kind = heap[n].kind
        /\ heap'[n].var = heap[n].var
        /\ DOMAIN heap'[n].parts = DOMAIN heap[n].parts
        /\ \A i \in DOMAIN heap[n].parts :
            /\ heap'[n].parts[i].name = heap[n].parts[i].name
            /\ \/ heap'[n].parts[i].type = heap[n].parts[i].type
               \/ heap'[n].parts[i].type = Resolved(heap[n].parts[i].type)
    /\ \A w \in BoundVar : subst'[w] # NULL /\ subst'[w] \in {subst[w], Denoted(w)}

\* An equality that knows the new bindings knows the old ones.
LEMMA FollowsBefore ==
    ASSUME HeapOK, Acyclic, Rewritten, NEW eq, Follows(eq)'
    PROVE  Follows(eq)
<1>1. ASSUME NEW n \in Node, Bound(n)
      PROVE  eq[subst[heap[n].var]] = eq[n] \/ eq[Resolved(n)] = eq[n]
    <2> PICK w : w = heap[n].var
        OBVIOUS
    <2>1. w \in BoundVar /\ w \in Var /\ heap'[n].var = w
        BY <1>1 DEF Bound, BoundVar, Rewritten
    <2>2. subst'[w] # NULL /\ subst'[w] \in {subst[w], Denoted(w)}
        BY <2>1 DEF Rewritten
    <2>3. Bound(n)'
        BY <2>1, <2>2 DEF Bound, BoundVar
    <2>4. eq[subst'[w]] = eq[n]
        BY <2>1, <2>3 DEF Follows
    <2>5. Resolved(n) = Denoted(w)
        BY <1>1 DEF Resolved
    <2> QED  BY <2>2, <2>4, <2>5
<1>2. \A n \in Node : eq[Resolved(n)] = eq[n]
    BY <1>1, ResolvedEqual
<1>3. ASSUME NEW n \in Node, Bound(n)
      PROVE  eq[subst[heap[n].var]] = eq[n]
    <2> PICK k : k = subst[heap[n].var]
        OBVIOUS
    <2>1. k \in Node /\ Resolved(n) = Resolved(k)
        BY <1>3, ResolvedStep
    <2>2. eq[Resolved(k)] = eq[k] /\ eq[Resolved(n)] = eq[n]
        BY <1>2, <2>1
    <2> QED  BY <2>1, <2>2
<1> QED  BY <1>3 DEF Follows

LEMMA PartIsNode ==
    ASSUME NEW types, types \in [Node -> Type], NEW n \in Node, NEW i \in DOMAIN types[n].parts
    PROVE  types[n].parts[i].type \in Node
<1>1. types[n].parts \in Seq(Part)
    BY DEF Type
<1>2. types[n].parts[i] \in Part
    BY <1>1
<1> QED  BY <1>2 DEF Part

LEMMA PartsStayKept ==
    ASSUME HeapOK, Acyclic, PartsKept, Rewritten, built' = built
    PROVE  PartsKept'
<1>1. ASSUME NEW n \in Node, NEW i \in DOMAIN heap'[n].parts
      PROVE  heap'[n].parts[i].name = built[n].parts[i].name
    BY DEF Rewritten, PartsKept
<1>2. ASSUME NEW eq \in Equality, Follows(eq)', NEW n \in Node, NEW i \in DOMAIN heap'[n].parts
      PROVE  eq[heap'[n].parts[i].type] = eq[built[n].parts[i].type]
    <2>1. Follows(eq)
        BY <1>2, FollowsBefore
    <2> PICK k : k = heap[n].parts[i].type
        OBVIOUS
    <2>2. i \in DOMAIN heap[n].parts /\ heap'[n].parts[i].type \in {k, Resolved(k)}
        BY DEF Rewritten
    <2>3. k \in Node
        BY <2>2, PartIsNode DEF HeapOK
    <2>4. eq[Resolved(k)] = eq[k] /\ eq[k] = eq[built[n].parts[i].type]
        BY <2>1, <2>2, <2>3, FollowsResolved DEF PartsKept
    <2> QED  BY <2>2, <2>4
<1> QED  BY <1>1, <1>2 DEF PartsKept

\* Every step rewrites the types in this way.
LEMMA ResolvedRewrites ==
    ASSUME HeapOK, Acyclic, NULL \notin Node, NEW visited, heap' = ResolvedParts(visited),
           \A w \in BoundVar : subst'[w] = ResolvedVars(visited)[w]
    PROVE  Rewritten
<1>1. ASSUME NEW n \in Node, NEW i \in DOMAIN heap[n].parts
      PROVE  heap'[n].parts[i].name = heap[n].parts[i].name
    <2>1. heap[n] \in Type
        BY DEF HeapOK
    <2>2. CASE n \in visited
        <3>1. heap'[n] = [heap[n] EXCEPT !.parts =
                    [j \in DOMAIN @ |-> [name |-> @[j].name, type |-> Resolved(@[j].type)]]]
            BY <2>2 DEF ResolvedParts
        <3> QED  BY <2>1, <3>1 DEF Type
    <2>3. CASE n \notin visited
        BY <2>3 DEF ResolvedParts
    <2> QED  BY <2>2, <2>3
<1>2. ASSUME NEW w \in BoundVar
      PROVE  subst'[w] # NULL /\ subst'[w] \in {subst[w], Denoted(w)}
    <2>1. w \in Var
        BY DEF BoundVar
    <2> QED  BY <2>1, ResolvedVarsOK
<1> QED  BY <1>1, <1>2, ResolvedPartsOK DEF Rewritten

LEMMA NothingRewritten ==
    ASSUME UNCHANGED <<heap, subst>>
    PROVE  Rewritten
BY DEF Rewritten, BoundVar

\* Of a variable that is not bound, and is no other type.
LEMMA FreeVar ==
    ASSUME IInv, NEW n \in Node, IsVar(n), ~Bound(n)
    PROVE  heap[n].var \in Var \ BoundVar
<1>1. heap[n].var # NULL /\ heap[n] \in Type
    BY DEF IInv, VarsAreVars, IsVar, TypeOK
<1> QED  BY <1>1 DEF Bound, Type

LEMMA BindRewrites ==
    ASSUME IInv, NEW visited, NEW n \in Node, IsVar(n), ~Bound(n), NEW b \in Node,
           heap' = ResolvedParts(visited),
           subst' = [ResolvedVars(visited) EXCEPT ![heap[n].var] = b]
    PROVE  /\ Rewritten
           /\ \A eq : Follows(eq)' => eq[b] = eq[n]
<1> PICK v : v = heap[n].var
    OBVIOUS
<1>1. v \in Var \ BoundVar /\ subst' = [ResolvedVars(visited) EXCEPT ![v] = b]
    BY FreeVar
<1>2. \A w \in Var : subst'[w] = IF w = v THEN b ELSE ResolvedVars(visited)[w]
    BY <1>1 DEF ResolvedVars
<1>3. \A w \in BoundVar : subst'[w] = ResolvedVars(visited)[w]
    BY <1>1, <1>2 DEF BoundVar
<1>4. Rewritten
    BY <1>3, TypesOK, ResolvedRewrites
<1>5. heap'[n].var = v /\ subst'[v] = b /\ b # NULL
    BY <1>1, <1>2, <1>4, TypesOK DEF Rewritten
<1>6. Bound(n)'
    BY <1>1, <1>5 DEF Bound, BoundVar
<1> QED  BY <1>4, <1>5, <1>6 DEF Follows

LEMMA StepRewrites ==
    ASSUME IInv, Step
    PROVE  Rewritten /\ built' = built /\ asked' = asked
<1>1. built' = built /\ asked' = asked
    BY DEF Step, SkipSame, BindLeft, BindRight, Occurs, Descend, Clash, NamesDiffer, Grant,
           Advance, Refuse
<1> SUFFICES Rewritten
    BY <1>1
<1>2. ASSUME Running, Resolve
      PROVE  Rewritten
    <2> PICK visited : visited = Reach({Head(todo).left, Head(todo).right})
        OBVIOUS
    <2>1. heap' = ResolvedParts(visited) /\ \A w \in BoundVar : subst'[w] = ResolvedVars(visited)[w]
        BY <1>2 DEF Resolve
    <2> QED  BY <2>1, TypesOK, ResolvedRewrites
<1>3. ASSUME NEW n \in Node, IsVar(n), ~Bound(n), NEW b \in Node, ResolveAndBind(heap[n].var, b)
      PROVE  Rewritten
    BY <1>3, BindRewrites DEF ResolveAndBind
<1>4. CASE SkipSame \/ Occurs \/ Descend \/ Clash
    BY <1>2, <1>4 DEF SkipSame, Occurs, Descend, Clash
<1>5. CASE BindLeft
    BY <1>3, <1>5, HeadOK DEF BindLeft
<1>6. CASE BindRight
    BY <1>3, <1>6, HeadOK DEF BindRight
<1>7. CASE NamesDiffer \/ Grant
    BY <1>7, NothingRewritten DEF NamesDiffer, Grant
<1> QED  BY <1>4, <1>5, <1>6, <1>7 DEF Step

LEMMA ConstrainToRewrites ==
    ASSUME IInv, NEW a \in Node, NEW target \in Target, ConstrainTo(a, target)
    PROVE  Rewritten
<1> PICK visited, n : visited = Reach({a}) /\ n = Resolved(a)
    OBVIOUS
<1>1. n \in Node /\ ~Bound(n) /\ target \in Node
    BY TypesOK, ResolvedOK, UnificationAssumption
<1>2. CASE IsVar(n)
    <2>1. /\ heap' = ResolvedParts(visited)
          /\ subst' = [ResolvedVars(visited) EXCEPT ![heap[n].var] = target]
        BY <1>2 DEF ConstrainTo
    <2> QED  BY <1>1, <1>2, <2>1, BindRewrites
<1>3. CASE ~IsVar(n)
    <2>1. /\ heap' = ResolvedParts(visited)
          /\ \A w \in BoundVar : subst'[w] = ResolvedVars(visited)[w]
        BY <1>3 DEF ConstrainTo
    <2> QED  BY <2>1, TypesOK, ResolvedRewrites
<1> QED  BY <1>2, <1>3


-----------------------------------------------------------------------------
(* What is granted is equal under the bindings. *)

PairSet == [left : Node, right : Node, agree : BOOLEAN]

LEMMA ConcatHolds ==
    ASSUME NEW S, NEW p \in Seq(S), NEW q \in Seq(S), NEW eq, Holds(eq, p \o q)
    PROVE  Holds(eq, p) /\ Holds(eq, q)
<1> PICK n, m : n = Len(p) /\ m = Len(q)
    OBVIOUS
<1>1. n \in Nat /\ m \in Nat /\ DOMAIN p = 1 .. n /\ DOMAIN q = 1 .. m
    BY LenProperties
<1> PICK both : both = p \o q
    OBVIOUS
<1>2. /\ both \in Seq(S) /\ Len(both) = n + m
      /\ \A i \in 1 .. n + m : both[i] = IF i <= n THEN p[i] ELSE q[i - n]
    BY ConcatProperties
<1>3. DOMAIN both = 1 .. n + m
    BY <1>2, LenProperties
<1>4. \A i \in 1 .. n + m : both[i].agree /\ eq[both[i].left] = eq[both[i].right]
    BY <1>3 DEF Holds
<1>5. \A i \in 1 .. n : i \in 1 .. n + m /\ both[i] = p[i]
    BY <1>1, <1>2
<1>6. ASSUME NEW i \in 1 .. m
      PROVE  q[i].agree /\ eq[q[i].left] = eq[q[i].right]
    <2> PICK j \in 1 .. n + m : j = n + i /\ j > n /\ j - n = i
        BY <1>1
    <2>1. both[j] = q[i]
        BY <1>1, <1>2
    <2> QED  BY <1>4, <2>1
<1> QED  BY <1>1, <1>4, <1>5, <1>6 DEF Holds

LEMMA HeadThenTail ==
    ASSUME IInv, Running, NEW eq, eq[Head(todo).left] = eq[Head(todo).right],
           Holds(eq, Tail(todo))
    PROVE  Holds(eq, todo)
<1> PICK S : S = PairSet
    OBVIOUS
<1>1. todo \in Seq(S) /\ todo # <<>>
    BY DEF IInv, TypeOK, Running, PairSet
<1>2. /\ Tail(todo) \in Seq(S) /\ Head(todo) = todo[1]
      /\ DOMAIN todo = 1 .. Len(todo) /\ Len(todo) \in Nat
      /\ DOMAIN Tail(todo) = 1 .. Len(todo) - 1
      /\ \A i \in 1 .. Len(todo) - 1 : Tail(todo)[i] = todo[i + 1]
    BY <1>1
<1> SUFFICES ASSUME NEW i \in DOMAIN todo
             PROVE  todo[i].agree /\ eq[todo[i].left] = eq[todo[i].right]
    BY DEF Holds
<1>3. CASE i = 1
    BY <1>2, <1>3 DEF Running
<1>4. CASE i # 1
    <2> PICK j \in 1 .. Len(todo) - 1 : j + 1 = i
        BY <1>2, <1>4
    <2>1. Tail(todo)[j] = todo[i] /\ j \in DOMAIN Tail(todo)
        BY <1>2
    <2> QED  BY <2>1 DEF Holds
<1> QED  BY <1>3, <1>4

LEMMA HeadHolds ==
    ASSUME IInv, Running, NEW eq, Follows(eq), eq[Left] = eq[Right]
    PROVE  eq[Head(todo).left] = eq[Head(todo).right]
BY HeadOK, TypesOK, FollowsResolved DEF Left, Right

\* The shapes of the types as they were built.
LEMMA BuiltShape ==
    ASSUME FollowInv, NEW n \in Node
    PROVE  /\ built[n] \in Type /\ heap[n] \in Type
           /\ DOMAIN built[n].parts = DOMAIN heap[n].parts
           /\ DOMAIN heap[n].parts = 1 .. Len(heap[n].parts)
           /\ Len(built[n].parts) = Len(heap[n].parts)
           /\ built[n].kind = heap[n].kind /\ built[n].var = heap[n].var
           /\ built[n].kind = "var" <=> built[n].var # NULL
           /\ built[n].kind = "var" => DOMAIN built[n].parts = {} /\ Len(built[n].parts) = 0
<1>1. built[n] \in Type /\ heap[n] \in Type
    BY DEF FollowInv, SameShape, IInv, TypeOK
<1>2. built[n].parts \in Seq(Part) /\ heap[n].parts \in Seq(Part)
    BY <1>1 DEF Type
<1>3. Len(built[n].parts) = Len(heap[n].parts)
    BY DEF FollowInv, SameShape
<1>4. /\ DOMAIN heap[n].parts = 1 .. Len(heap[n].parts)
      /\ DOMAIN built[n].parts = 1 .. Len(built[n].parts)
    BY <1>2
<1>5. built[n].kind = heap[n].kind /\ built[n].var = heap[n].var
    BY DEF FollowInv, SameShape
<1>6. /\ heap[n].kind = "var" <=> heap[n].var # NULL
      /\ heap[n].kind = "var" => heap[n].parts = <<>>
    BY DEF FollowInv, IInv, VarsAreVars
<1> QED  BY <1>1, <1>3, <1>4, <1>5, <1>6

LEMMA SameVarEqual ==
    ASSUME FollowInv, NEW eq \in Congruence, NEW a \in Node, NEW b \in Node,
           IsVar(a), IsVar(b), heap[a].var = heap[b].var
    PROVE  eq[a] = eq[b]
<1>1. built[a].kind = "var" /\ built[b].kind = "var" /\ built[a].var = built[b].var
    BY BuiltShape DEF IsVar
<1>2. SameIn(eq, built[a], built[b])
    BY <1>1, BuiltShape DEF SameIn, Alike
<1> QED  BY <1>2 DEF Congruence

LEMMA DescendAlike ==
    ASSUME FollowInv, Descend
    PROVE  heap'[Left] \in Type /\ heap'[Right] \in Type /\ Alike(heap'[Left], heap'[Right])
<1>1. IInv /\ Running /\ Rewritten
    BY StepRewrites DEF FollowInv, Descend, Step
<1> PICK a, b : a = Left /\ b = Right
    OBVIOUS
<1>2. a \in Node /\ b \in Node /\ Alike(heap[a], heap[b])
    BY <1>1, HeadOK DEF Descend
<1>3. heap'[a] \in Type /\ heap'[b] \in Type
    BY <1>1, <1>2, ResolveInv DEF Descend, HeapOK
<1>4. /\ heap[a].parts \in Seq(Part) /\ heap'[a].parts \in Seq(Part)
      /\ heap[b].parts \in Seq(Part) /\ heap'[b].parts \in Seq(Part)
    BY <1>1, <1>2, <1>3 DEF Type, IInv, TypeOK
<1>5. /\ DOMAIN heap'[a].parts = DOMAIN heap[a].parts
      /\ DOMAIN heap'[b].parts = DOMAIN heap[b].parts
      /\ heap'[a].kind = heap[a].kind /\ heap'[b].kind = heap[b].kind
    BY <1>1, <1>2 DEF Rewritten
<1>6. Len(heap'[a].parts) = Len(heap[a].parts) /\ Len(heap'[b].parts) = Len(heap[b].parts)
    BY <1>4, <1>5, LenProperties
<1> QED  BY <1>2, <1>3, <1>5, <1>6 DEF Alike

LEMMA DescendHolds ==
    ASSUME FollowInv, PartsKept', Descend, NEW eq \in Congruence, Follows(eq)',
           Follows(eq), Holds(eq, todo')
    PROVE  Holds(eq, todo)
<1>1. IInv /\ Running /\ Rewritten /\ built' = built
    BY StepRewrites DEF FollowInv, Descend, Step
<1> PICK a, b : a = Left /\ b = Right
    OBVIOUS
<1>2. a \in Node /\ b \in Node /\ ~IsVar(a) /\ ~IsVar(b) /\ Alike(heap[a], heap[b])
    BY <1>1, HeadOK DEF Descend
<1> PICK pairs, rest : pairs = PartPairs(heap'[a], heap'[b]) /\ rest = Tail(todo)
    OBVIOUS
<1>3. heap'[a] \in Type /\ heap'[b] \in Type /\ Alike(heap'[a], heap'[b])
    BY DescendAlike
<1>4. pairs \in Seq(PairSet) /\ rest \in Seq(PairSet)
    BY <1>1, <1>3, PartPairsOK, HeadOK DEF PairSet
<1>5. todo' = pairs \o rest
    BY DEF Descend
<1>6. Holds(eq, pairs) /\ Holds(eq, rest)
    <2>1. Holds(eq, pairs \o rest)
        BY <1>5
    <2> QED  BY <1>4, <2>1, ConcatHolds
<1>7. ASSUME NEW i \in DOMAIN built[a].parts
      PROVE  /\ built[a].parts[i].name = built[b].parts[i].name
             /\ eq[built[a].parts[i].type] = eq[built[b].parts[i].type]
    <2>1. /\ i \in DOMAIN heap'[a].parts /\ i \in DOMAIN heap'[b].parts /\ i \in DOMAIN pairs
        <3>1. i \in DOMAIN heap[a].parts /\ i \in DOMAIN heap[b].parts
            BY <1>2, BuiltShape DEF Alike
        <3>2. i \in DOMAIN heap'[a].parts /\ i \in DOMAIN heap'[b].parts
            BY <1>1, <1>2, <3>1 DEF Rewritten
        <3> QED  BY <3>2 DEF PartPairs
    <2>2. pairs[i] = Pair(heap'[a].parts[i].type, heap'[b].parts[i].type,
                          heap'[a].parts[i].name = heap'[b].parts[i].name)
        BY <2>1, Zenon DEF PartPairs
    <2>3. /\ heap'[a].parts[i].name = heap'[b].parts[i].name
          /\ eq[heap'[a].parts[i].type] = eq[heap'[b].parts[i].type]
        <3>1. pairs[i].agree /\ eq[pairs[i].left] = eq[pairs[i].right]
            BY <1>6, <2>1 DEF Holds
        <3>2. /\ pairs[i].left = heap'[a].parts[i].type /\ pairs[i].right = heap'[b].parts[i].type
            BY <2>2 DEF Pair
        <3>3. pairs[i].agree = (heap'[a].parts[i].name = heap'[b].parts[i].name)
            <4> PICK same \in BOOLEAN : same = (heap'[a].parts[i].name = heap'[b].parts[i].name)
                OBVIOUS
            <4>1. pairs[i] = Pair(heap'[a].parts[i].type, heap'[b].parts[i].type, same)
                BY <2>2
            <4>2. pairs[i].agree = same
                BY <4>1 DEF Pair
            <4> QED  BY <4>2
        <3> QED  BY <3>1, <3>2, <3>3
    <2>4. eq \in Equality
        BY DEF Congruence
    <2>5. /\ heap'[a].parts[i].name = built[a].parts[i].name
          /\ heap'[b].parts[i].name = built[b].parts[i].name
          /\ eq[heap'[a].parts[i].type] = eq[built[a].parts[i].type]
          /\ eq[heap'[b].parts[i].type] = eq[built[b].parts[i].type]
        BY <1>1, <1>2, <2>1, <2>4 DEF PartsKept
    <2> QED  BY <2>3, <2>5
<1>8. SameIn(eq, built[a], built[b])
    <2>1. Alike(built[a], built[b]) /\ built[a].var = built[b].var
        BY <1>2, BuiltShape DEF Alike, IsVar
    <2> QED  BY <1>7, <2>1 DEF SameIn
<1>9. eq[a] = eq[b]
    BY <1>2, <1>8 DEF Congruence
<1>10. eq[Head(todo).left] = eq[Head(todo).right]
    BY <1>1, <1>9, HeadHolds
<1> QED  BY <1>1, <1>6, <1>10, HeadThenTail


LEMMA StepGrants ==
    ASSUME GrantInv, Step
    PROVE  GrantInv'
<1>1. Rewritten /\ built' = built /\ asked' = asked
    BY StepRewrites DEF GrantInv, FollowInv
<1>2. FollowInv'
    BY StepFollows DEF GrantInv
<1>3. PartsKept'
    BY <1>1, PartsStayKept, TypesOK DEF GrantInv, FollowInv
<1>4. result' # "running" => todo' = <<>>
    BY DEF Step, SkipSame, BindLeft, BindRight, Occurs, Descend, Clash, NamesDiffer, Grant,
           Advance, Refuse, Running
<1>5. Congruence' = Congruence
    BY <1>1 DEF Congruence
<1>6. ASSUME NEW eq \in Congruence, Follows(eq)'
      PROVE  GrantedIn(eq)'
    <2>1. IInv /\ FollowInv
        BY DEF GrantInv, FollowInv
    <2>2. Follows(eq)
        BY <1>1, <1>6, <2>1, TypesOK, FollowsBefore
    <2>3. GrantedIn(eq)
        BY <2>2 DEF GrantInv
    <2>4. result = "running"
        BY DEF Step, SkipSame, BindLeft, BindRight, Occurs, Descend, Clash, NamesDiffer, Grant,
               Running
    <2>5. CASE Grant
        <3>1. Holds(eq, todo)
            BY <2>5 DEF Grant, Holds
        <3>2. eq[Last[1]] = eq[Last[2]]
            BY <2>3, <2>4, <3>1 DEF GrantedIn
        <3> QED  BY <2>3, <2>5, <3>2 DEF Grant, GrantedIn, Last
    <2>6. ASSUME granted' = granted, result' = "running" /\ Holds(eq, todo') => Holds(eq, todo)
          PROVE  GrantedIn(eq)'
        BY <1>1, <2>3, <2>4, <2>6 DEF GrantedIn, Last, Holds
    <2>7. CASE SkipSame
        <3>1. Running /\ SameVar /\ todo' = Tail(todo) /\ granted' = granted
            BY <2>7 DEF SkipSame, Advance
        <3>2. eq[Left] = eq[Right]
            BY <2>1, <3>1, HeadOK, SameVarEqual DEF SameVar
        <3>3. Holds(eq, todo') => Holds(eq, todo)
            BY <2>1, <2>2, <3>1, <3>2, HeadHolds, HeadThenTail
        <3> QED  BY <2>6, <3>1, <3>3
    <2>8. CASE BindLeft
        <3>1. /\ Running /\ IsVar(Left) /\ todo' = Tail(todo) /\ granted' = granted
              /\ ResolveAndBind(heap[Left].var, Right)
            BY <2>8 DEF BindLeft, Advance
        <3>2. eq[Left] = eq[Right]
            BY <1>6, <2>1, <3>1, HeadOK, BindRewrites DEF ResolveAndBind
        <3>3. Holds(eq, todo') => Holds(eq, todo)
            BY <2>1, <2>2, <3>1, <3>2, HeadHolds, HeadThenTail
        <3> QED  BY <2>6, <3>1, <3>3
    <2>9. CASE BindRight
        <3>1. /\ Running /\ IsVar(Right) /\ todo' = Tail(todo) /\ granted' = granted
              /\ ResolveAndBind(heap[Right].var, Left)
            BY <2>9 DEF BindRight, Advance
        <3>2. eq[Left] = eq[Right]
            BY <1>6, <2>1, <3>1, HeadOK, BindRewrites DEF ResolveAndBind
        <3>3. Holds(eq, todo') => Holds(eq, todo)
            BY <2>1, <2>2, <3>1, <3>2, HeadHolds, HeadThenTail
        <3> QED  BY <2>6, <3>1, <3>3
    <2>10. CASE Descend
        <3>1. Holds(eq, todo') => Holds(eq, todo)
            BY <1>3, <1>6, <2>1, <2>2, <2>10, DescendHolds
        <3> QED  BY <2>6, <2>10, <3>1 DEF Descend
    <2>11. CASE Occurs \/ Clash \/ NamesDiffer
        BY <2>6, <2>11 DEF Occurs, Clash, NamesDiffer, Refuse
    <2> QED  BY <2>5, <2>7, <2>8, <2>9, <2>10, <2>11 DEF Step
<1>7. built' \in Heaps
    BY <1>1 DEF GrantInv
<1> QED  BY <1>2, <1>3, <1>4, <1>5, <1>6, <1>7 DEF GrantInv

\* constrainTypeTo grants only types of the target's kind.
LEMMA ConstrainToGrants ==
    ASSUME BoolTargets, GrantInv, NEW a \in Node, NEW target \in Target, ConstrainTo(a, target),
           IsVar(Resolved(a)) \/ TypeKind(Resolved(a)) = TypeKind(target),
           NEW eq \in Congruence, Follows(eq), Follows(eq)'
    PROVE  eq[a] = eq[target]
<1>1. IInv /\ FollowInv /\ target \in Node /\ built \in Heaps
    BY UnificationAssumption DEF GrantInv, FollowInv
<1> PICK to : to = Resolved(a)
    OBVIOUS
<1>2. to \in Node /\ ~Bound(to) /\ eq[to] = eq[a]
    BY <1>1, TypesOK, ResolvedOK, FollowsResolved
<1>3. CASE IsVar(to)
    <2> PICK visited : visited = Reach({a})
        OBVIOUS
    <2>1. /\ heap' = ResolvedParts(visited)
          /\ subst' = [ResolvedVars(visited) EXCEPT ![heap[to].var] = target]
        BY <1>3 DEF ConstrainTo
    <2>2. eq[target] = eq[to]
        BY <1>1, <1>2, <1>3, <2>1, BindRewrites
    <2> QED  BY <1>2, <2>2
<1>4. CASE ~IsVar(to)
    <2>1. TypeKind(to) = TypeKind(target)
        BY <1>4
    <2>2. /\ built[target].kind \notin {"struct", "union"}
          /\ \A m \in Node : built[m].kind = built[target].kind => built[m].parts = <<>>
        BY <1>1 DEF BoolTargets
    <2>3. built[to].kind = built[target].kind
        BY <1>1, <1>2, <2>1, <2>2, BuiltShape DEF TypeKind
    <2>4. built[to].parts = <<>> /\ built[target].parts = <<>>
        BY <1>1, <1>2, <2>2, <2>3
    <2>5. built[to].var = NULL /\ built[target].var = NULL
        BY <1>1, <1>2, <1>4, <2>3, BuiltShape DEF IsVar
    <2>6. SameIn(eq, built[to], built[target])
        BY <2>3, <2>4, <2>5 DEF SameIn, Alike
    <2> QED  BY <1>1, <1>2, <2>6 DEF Congruence
<1> QED  BY <1>3, <1>4

LEMMA LastAppended ==
    ASSUME IInv, NEW p \in Node \X Node, asked' = Append(asked, p)
    PROVE  Last' = p /\ asked' # <<>>
<1> PICK S : S = Node \X Node
    OBVIOUS
<1>1. asked \in Seq(S) /\ p \in S
    BY DEF IInv, TypeOK
<1>2. Len(asked') = Len(asked) + 1 /\ asked'[Len(asked) + 1] = p /\ asked' # <<>>
    <2>1. Len(asked) \in Nat /\ Len(asked') = Len(asked) + 1 /\ asked'[Len(asked) + 1] = p
        BY <1>1, AppendProperties
    <2> QED  BY <1>1, <2>1, AppendProperties
<1> QED  BY <1>2 DEF Last

LEMMA NextGrants ==
    ASSUME BoolTargets, GrantInv, [Next]_vars
    PROVE  GrantInv'
<1>1. FollowInv' /\ IInv /\ FollowInv
    BY NextFollows DEF GrantInv, FollowInv
<1>2. ASSUME NEW a \in Node, NEW b \in Node, Constrain(a, b)
      PROVE  GrantInv'
    <2>1. /\ UNCHANGED <<heap, subst, built, granted>>
          /\ todo' = <<Pair(a, b, TRUE)>> /\ asked' = Append(asked, <<a, b>>) /\ result' = "running"
        BY <1>2 DEF Constrain
    <2>2. Rewritten
        BY <2>1, NothingRewritten
    <2>3. PartsKept'
        BY <1>1, <2>1, <2>2, PartsStayKept, TypesOK DEF GrantInv
    <2>4. ASSUME NEW eq \in Congruence, Follows(eq)'
          PROVE  GrantedIn(eq)'
        <3>1. Follows(eq)
            BY <1>1, <2>2, <2>4, TypesOK, FollowsBefore
        <3>2. \A p \in granted : eq[p[1]] = eq[p[2]]
            BY <3>1 DEF GrantInv, GrantedIn
        <3>3. Last' = <<a, b>>
            <4>1. <<a, b>> \in Node \X Node
                OBVIOUS
            <4> QED  BY <1>1, <2>1, <4>1, LastAppended
        <3>4. Holds(eq, todo') => eq[a] = eq[b]
            <4>1. 1 \in DOMAIN todo' /\ todo'[1].left = a /\ todo'[1].right = b
                BY <2>1 DEF Pair
            <4> QED  BY <4>1 DEF Holds
        <3> QED  BY <2>1, <3>2, <3>3, <3>4 DEF GrantedIn
    <2>5. Congruence' = Congruence /\ built' \in Heaps
        BY <2>1 DEF Congruence, GrantInv
    <2> QED  BY <1>1, <2>1, <2>3, <2>4, <2>5 DEF GrantInv
<1>3. ASSUME NEW a \in Node, NEW target \in Target, ConstrainTo(a, target)
      PROVE  GrantInv'
    <2>1. Rewritten /\ built' = built /\ todo' = todo
        BY <1>1, <1>3, ConstrainToRewrites DEF ConstrainTo
    <2>2. PartsKept'
        BY <1>1, <2>1, PartsStayKept, TypesOK DEF GrantInv
    <2>3. result # "running" /\ result' # "running"
        BY <1>3 DEF ConstrainTo
    <2>4. ASSUME NEW eq \in Congruence, Follows(eq)'
          PROVE  GrantedIn(eq)'
        <3>1. Follows(eq)
            BY <1>1, <2>1, <2>4, TypesOK, FollowsBefore
        <3>2. \A p \in granted : eq[p[1]] = eq[p[2]]
            BY <3>1 DEF GrantInv, GrantedIn
        <3>3. CASE IsVar(Resolved(a)) \/ TypeKind(Resolved(a)) = TypeKind(target)
            <4>1. eq[a] = eq[target]
                BY <1>3, <2>4, <3>1, <3>3, ConstrainToGrants
            <4>2. granted' = granted \cup {<<a, target>>}
                BY <1>3, <3>3 DEF ConstrainTo
            <4> QED  BY <2>3, <3>2, <4>1, <4>2 DEF GrantedIn
        <3>4. CASE ~(IsVar(Resolved(a)) \/ TypeKind(Resolved(a)) = TypeKind(target))
            <4>1. granted' = granted
                BY <1>3, <3>4 DEF ConstrainTo
            <4> QED  BY <2>3, <3>2, <4>1 DEF GrantedIn
        <3> QED  BY <3>3, <3>4
    <2>5. Congruence' = Congruence /\ built' \in Heaps
        BY <2>1 DEF Congruence, GrantInv
    <2> QED  BY <1>1, <2>1, <2>2, <2>3, <2>4, <2>5 DEF GrantInv
<1>4. CASE Step
    BY <1>4, StepGrants
<1>5. CASE UNCHANGED vars
    BY <1>1, <1>5 DEF vars, GrantInv, PartsKept, Congruence, Follows, GrantedIn, Holds, Last,
                      Bound, BoundVar
<1> QED  BY <1>2, <1>3, <1>4, <1>5 DEF Next

LEMMA InitGrants ==
    ASSUME Init
    PROVE  GrantInv
<1>1. FollowInv
    BY InitFollows
<1> QED  BY <1>1 DEF Init, GrantInv, PartsKept, GrantedIn


-----------------------------------------------------------------------------
(* The equality that the bindings make: the largest relation under which types *)
(* that are related look the same and have related parts.                      *)

\* a and b look the same, and R relates their parts.
AlikeUnder(R, a, b) ==
    /\ Alike(a, b)
    /\ a.var = b.var
    /\ \A i \in DOMAIN a.parts :
        a.parts[i].name = b.parts[i].name /\ <<a.parts[i].type, b.parts[i].type>> \in R

Consistent(R) ==
    \A a, b \in Node : <<a, b>> \in R => AlikeUnder(R, heap[Resolved(a)], heap[Resolved(b)])

Alikes == {p \in Node \X Node : \E R \in SUBSET (Node \X Node) : Consistent(R) /\ p \in R}

LEMMA AlikeMonotone ==
    ASSUME NEW R, NEW Q, R \subseteq Q, NEW a, NEW b, AlikeUnder(R, a, b)
    PROVE  AlikeUnder(Q, a, b)
BY DEF AlikeUnder

LEMMA ConsistentIn ==
    ASSUME NEW R \in SUBSET (Node \X Node), Consistent(R)
    PROVE  R \subseteq Alikes
BY DEF Alikes

LEMMA AlikesConsistent == Consistent(Alikes)
<1> SUFFICES ASSUME NEW a \in Node, NEW b \in Node, <<a, b>> \in Alikes
             PROVE  AlikeUnder(Alikes, heap[Resolved(a)], heap[Resolved(b)])
    BY DEF Consistent
<1>1. PICK R \in SUBSET (Node \X Node) : Consistent(R) /\ <<a, b>> \in R
    BY DEF Alikes
<1>2. R \subseteq Alikes
    BY <1>1, ConsistentIn
<1>3. AlikeUnder(R, heap[Resolved(a)], heap[Resolved(b)])
    BY <1>1 DEF Consistent
<1> QED  BY <1>2, <1>3, AlikeMonotone

\* What looks the same and has related parts is related.
LEMMA AlikesUp ==
    ASSUME NEW a \in Node, NEW b \in Node,
           AlikeUnder(Alikes, heap[Resolved(a)], heap[Resolved(b)])
    PROVE  <<a, b>> \in Alikes
<1> PICK R : R = Alikes \cup {<<a, b>>}
    OBVIOUS
<1>1. R \in SUBSET (Node \X Node) /\ Alikes \subseteq R /\ <<a, b>> \in R
    BY DEF Alikes
<1>2. ASSUME NEW c \in Node, NEW d \in Node, <<c, d>> \in R
      PROVE  AlikeUnder(R, heap[Resolved(c)], heap[Resolved(d)])
    <2>1. AlikeUnder(Alikes, heap[Resolved(c)], heap[Resolved(d)])
        BY <1>2, AlikesConsistent DEF Consistent
    <2> QED  BY <1>1, <2>1, AlikeMonotone
<1>3. Consistent(R)
    BY <1>2 DEF Consistent
<1> QED  BY <1>1, <1>3, ConsistentIn

LEMMA ResolvedIsNode ==
    ASSUME IInv, NEW n \in Node
    PROVE  /\ Resolved(n) \in Node /\ heap[Resolved(n)] \in Type
           /\ heap[Resolved(n)].parts \in Seq(Part)
           /\ \A i \in DOMAIN heap[Resolved(n)].parts : heap[Resolved(n)].parts[i].type \in Node
<1>1. Resolved(n) \in Node /\ heap \in [Node -> Type]
    BY TypesOK, ResolvedOK DEF HeapOK
<1> QED  BY <1>1, PartIsNode DEF Type

LEMMA AlikesReflexive ==
    ASSUME IInv, NEW a \in Node, NEW b \in Node, Resolved(a) = Resolved(b)
    PROVE  <<a, b>> \in Alikes
<1> PICK R : R = {p \in Node \X Node : Resolved(p[1]) = Resolved(p[2])}
    OBVIOUS
<1>1. ASSUME NEW c \in Node, NEW d \in Node, <<c, d>> \in R
      PROVE  AlikeUnder(R, heap[Resolved(c)], heap[Resolved(d)])
    <2>1. Resolved(c) = Resolved(d)
        BY <1>1
    <2>2. \A k \in Node : <<k, k>> \in R
        OBVIOUS
    <2> QED  BY <2>1, <2>2, ResolvedIsNode DEF AlikeUnder, Alike
<1>2. R \in SUBSET (Node \X Node) /\ Consistent(R) /\ <<a, b>> \in R
    BY <1>1 DEF Consistent
<1> QED  BY <1>2, ConsistentIn

\* Types that look the same have the same places of parts.
LEMMA AlikePlaces ==
    ASSUME NEW a \in Type, NEW b \in Type, Alike(a, b)
    PROVE  DOMAIN a.parts = DOMAIN b.parts
<1>1. a.parts \in Seq(Part) /\ b.parts \in Seq(Part)
    BY DEF Type
<1> QED  BY <1>1 DEF Alike

LEMMA AlikesSymmetric ==
    ASSUME IInv, NEW a \in Node, NEW b \in Node, <<a, b>> \in Alikes
    PROVE  <<b, a>> \in Alikes
<1> PICK R : R = {p \in Node \X Node : <<p[2], p[1]>> \in Alikes}
    OBVIOUS
<1>1. ASSUME NEW c \in Node, NEW d \in Node, <<c, d>> \in R
      PROVE  AlikeUnder(R, heap[Resolved(c)], heap[Resolved(d)])
    <2> PICK x, y : x = heap[Resolved(c)] /\ y = heap[Resolved(d)]
        OBVIOUS
    <2>1. AlikeUnder(Alikes, y, x)
        BY <1>1, AlikesConsistent DEF Consistent
    <2>2. x \in Type /\ y \in Type
        BY ResolvedIsNode
    <2>3. DOMAIN y.parts = DOMAIN x.parts
        BY <2>1, <2>2, AlikePlaces DEF AlikeUnder
    <2>4. ASSUME NEW i \in DOMAIN x.parts
          PROVE  x.parts[i].name = y.parts[i].name /\ <<x.parts[i].type, y.parts[i].type>> \in R
        <3>1. y.parts[i].name = x.parts[i].name /\ <<y.parts[i].type, x.parts[i].type>> \in Alikes
            BY <2>1, <2>3 DEF AlikeUnder
        <3>2. x.parts[i].type \in Node /\ y.parts[i].type \in Node
            BY <2>3, ResolvedIsNode
        <3> QED  BY <3>1, <3>2
    <2> QED  BY <2>1, <2>4 DEF AlikeUnder, Alike
<1>2. R \in SUBSET (Node \X Node) /\ Consistent(R) /\ <<b, a>> \in R
    BY <1>1 DEF Consistent
<1> QED  BY <1>2, ConsistentIn

LEMMA AlikesTransitive ==
    ASSUME IInv, NEW a \in Node, NEW b \in Node, NEW c \in Node,
           <<a, b>> \in Alikes, <<b, c>> \in Alikes
    PROVE  <<a, c>> \in Alikes
<1> PICK R : R = {p \in Node \X Node :
                    \E m \in Node : <<p[1], m>> \in Alikes /\ <<m, p[2]>> \in Alikes}
    OBVIOUS
<1>1. ASSUME NEW d \in Node, NEW e \in Node, <<d, e>> \in R
      PROVE  AlikeUnder(R, heap[Resolved(d)], heap[Resolved(e)])
    <2>1. PICK m \in Node : <<d, m>> \in Alikes /\ <<m, e>> \in Alikes
        BY <1>1
    <2> PICK x, y, z : x = heap[Resolved(d)] /\ y = heap[Resolved(m)] /\ z = heap[Resolved(e)]
        OBVIOUS
    <2>2. AlikeUnder(Alikes, x, y) /\ AlikeUnder(Alikes, y, z)
        BY <2>1, AlikesConsistent DEF Consistent
    <2>3. x \in Type /\ y \in Type /\ z \in Type
        BY ResolvedIsNode
    <2>4. DOMAIN x.parts = DOMAIN y.parts /\ DOMAIN y.parts = DOMAIN z.parts
        BY <2>2, <2>3, AlikePlaces DEF AlikeUnder
    <2>5. ASSUME NEW i \in DOMAIN x.parts
          PROVE  x.parts[i].name = z.parts[i].name /\ <<x.parts[i].type, z.parts[i].type>> \in R
        <3>1. /\ x.parts[i].name = y.parts[i].name /\ y.parts[i].name = z.parts[i].name
              /\ <<x.parts[i].type, y.parts[i].type>> \in Alikes
              /\ <<y.parts[i].type, z.parts[i].type>> \in Alikes
            BY <2>2, <2>4 DEF AlikeUnder
        <3>2. x.parts[i].type \in Node /\ y.parts[i].type \in Node /\ z.parts[i].type \in Node
            BY <2>4, ResolvedIsNode
        <3> QED  BY <3>1, <3>2
    <2>6. Alike(x, z) /\ x.var = z.var
        BY <2>2 DEF AlikeUnder, Alike
    <2> QED  BY <2>5, <2>6 DEF AlikeUnder
<1>2. R \in SUBSET (Node \X Node) /\ Consistent(R) /\ <<a, c>> \in R
    BY <1>1 DEF Consistent
<1> QED  BY <1>2, ConsistentIn

\* Each type is mapped to the first that is related.
LEMMA FirstOf ==
    ASSUME NEW T \in SUBSET Nat, T # {}
    PROVE  \E x \in T : \A y \in T : x <= y
<1>1. \E x \in T : \A y \in T : ~(<<y, x>> \in OpToRel(<, Nat))
    BY NatLessThanWellFounded, WFMin
<1>2. PICK x \in T : \A y \in T : ~(<<y, x>> \in OpToRel(<, Nat))
    BY <1>1
<1>3. \A y \in T : ~(y < x)
    BY <1>2 DEF OpToRel
<1> QED  BY <1>3

First(n) == CHOOSE m \in Node : <<n, m>> \in Alikes /\ \A k \in Node : <<n, k>> \in Alikes => m <= k

LEMMA FirstIs ==
    ASSUME IInv, NEW n \in Node
    PROVE  /\ First(n) \in Node /\ <<n, First(n)>> \in Alikes
           /\ \A k \in Node : <<n, k>> \in Alikes => First(n) <= k
<1> PICK T : T = {k \in Node : <<n, k>> \in Alikes}
    OBVIOUS
<1>1. T \in SUBSET Nat /\ n \in T
    BY AlikesReflexive, UnificationAssumption
<1>2. PICK m \in T : \A k \in T : m <= k
    BY <1>1, FirstOf
<1>3. \E x \in Node : <<n, x>> \in Alikes /\ \A k \in Node : <<n, k>> \in Alikes => x <= k
    BY <1>2
<1> QED  BY <1>3 DEF First

Eq == [n \in Node |-> First(n)]

LEMMA EqIsEquality ==
    ASSUME IInv
    PROVE  /\ Eq \in Equality
           /\ \A a, b \in Node : Eq[a] = Eq[b] <=> <<a, b>> \in Alikes
<1>1. ASSUME NEW a \in Node, NEW b \in Node, <<a, b>> \in Alikes
      PROVE  First(a) = First(b)
    <2>1. \A k \in Node : <<a, k>> \in Alikes <=> <<b, k>> \in Alikes
        BY <1>1, AlikesSymmetric, AlikesTransitive
    <2> QED  BY <2>1 DEF First
<1>2. ASSUME NEW a \in Node, NEW b \in Node, First(a) = First(b)
      PROVE  <<a, b>> \in Alikes
    <2>1. First(a) \in Node /\ <<a, First(a)>> \in Alikes /\ <<b, First(a)>> \in Alikes
        BY <1>2, FirstIs
    <2> QED  BY <2>1, AlikesSymmetric, AlikesTransitive
<1>3. ASSUME NEW n \in Node
      PROVE  First(n) \in Node /\ First(n) <= n /\ First(First(n)) = First(n)
    <2>1. First(n) \in Node /\ <<n, First(n)>> \in Alikes /\ <<n, n>> \in Alikes
        BY FirstIs, AlikesReflexive
    <2>2. First(First(n)) = First(n)
        BY <1>1, <2>1
    <2> QED  BY <2>1, <2>2, FirstIs
<1>4. Eq \in [Node -> Node] /\ \A n \in Node : Eq[n] <= n /\ Eq[Eq[n]] = Eq[n]
    BY <1>3 DEF Eq
<1>5. \A a, b \in Node : Eq[a] = Eq[b] <=> <<a, b>> \in Alikes
    BY <1>1, <1>2 DEF Eq
<1> QED  BY <1>4, <1>5 DEF Equality


LEMMA EqFollows ==
    ASSUME IInv
    PROVE  Follows(Eq)
<1> SUFFICES ASSUME NEW n \in Node, Bound(n)
             PROVE  Eq[subst[heap[n].var]] = Eq[n]
    BY DEF Follows
<1> PICK k : k = subst[heap[n].var]
    OBVIOUS
<1>1. k \in Node /\ Resolved(n) = Resolved(k)
    BY ResolvedStep, TypesOK
<1>2. <<k, n>> \in Alikes
    BY <1>1, AlikesReflexive
<1> QED  BY <1>1, <1>2, EqIsEquality

\* A type that is no variable is resolved.
LEMMA NoVarResolved ==
    ASSUME FollowInv, NEW n \in Node, built[n].kind # "var"
    PROVE  Resolved(n) = n /\ ~Bound(n)
<1>1. heap[n].var = NULL
    BY BuiltShape
<1> QED  BY <1>1, TypesOK DEF Resolved, Bound, BoundVar, FollowInv

\* What it says of the types as they were built.
LEMMA EqDown ==
    ASSUME FollowInv, PartsKept, NEW a \in Node, NEW b \in Node, Eq[a] = Eq[b],
           built[a].kind # "var", built[b].kind # "var"
    PROVE  SameIn(Eq, built[a], built[b])
<1>1. IInv
    BY DEF FollowInv
<1>2. Resolved(a) = a /\ Resolved(b) = b
    BY NoVarResolved
<1>3. AlikeUnder(Alikes, heap[a], heap[b])
    BY <1>1, <1>2, EqIsEquality, AlikesConsistent DEF Consistent
<1>4. Alike(built[a], built[b]) /\ built[a].var = built[b].var
    BY <1>3, BuiltShape DEF AlikeUnder, Alike
<1>5. ASSUME NEW i \in DOMAIN built[a].parts
      PROVE  /\ built[a].parts[i].name = built[b].parts[i].name
             /\ Eq[built[a].parts[i].type] = Eq[built[b].parts[i].type]
    <2>1. i \in DOMAIN heap[a].parts /\ i \in DOMAIN heap[b].parts
        BY <1>4, BuiltShape DEF Alike
    <2>2. /\ heap[a].parts[i].name = heap[b].parts[i].name
          /\ <<heap[a].parts[i].type, heap[b].parts[i].type>> \in Alikes
        BY <1>3, <2>1 DEF AlikeUnder
    <2>3. heap[a].parts[i].type \in Node /\ heap[b].parts[i].type \in Node
        BY <1>1, <2>1, PartIsNode, TypesOK DEF HeapOK
    <2>4. Eq[heap[a].parts[i].type] = Eq[heap[b].parts[i].type]
        BY <1>1, <2>2, <2>3, EqIsEquality
    <2>5. /\ heap[a].parts[i].name = built[a].parts[i].name
          /\ heap[b].parts[i].name = built[b].parts[i].name
          /\ Eq[heap[a].parts[i].type] = Eq[built[a].parts[i].type]
          /\ Eq[heap[b].parts[i].type] = Eq[built[b].parts[i].type]
        BY <1>1, <2>1, EqIsEquality, EqFollows DEF PartsKept
    <2> QED  BY <2>2, <2>4, <2>5
<1> QED  BY <1>4, <1>5 DEF SameIn

LEMMA EqUp ==
    ASSUME FollowInv, PartsKept, NEW a \in Node, NEW b \in Node,
           SameIn(Eq, built[a], built[b])
    PROVE  Eq[a] = Eq[b]
<1>1. IInv
    BY DEF FollowInv
<1>2. heap[a].kind = heap[b].kind /\ heap[a].var = heap[b].var /\ Alike(heap[a], heap[b])
    BY BuiltShape DEF SameIn, Alike
<1>3. CASE Bound(a)
    <2>1. Resolved(a) = Resolved(b)
        BY <1>2, <1>3 DEF Resolved, Bound
    <2> QED  BY <1>1, <2>1, AlikesReflexive, EqIsEquality
<1>4. CASE ~Bound(a)
    <2>1. Resolved(a) = a /\ Resolved(b) = b
        BY <1>2, <1>4 DEF Resolved, Bound
    <2>2. ASSUME NEW i \in DOMAIN heap[a].parts
          PROVE  /\ heap[a].parts[i].name = heap[b].parts[i].name
                 /\ <<heap[a].parts[i].type, heap[b].parts[i].type>> \in Alikes
        <3>1. i \in DOMAIN built[a].parts /\ i \in DOMAIN heap[b].parts
            BY <1>2, BuiltShape DEF Alike
        <3>2. /\ built[a].parts[i].name = built[b].parts[i].name
              /\ Eq[built[a].parts[i].type] = Eq[built[b].parts[i].type]
            BY <3>1 DEF SameIn
        <3>3. heap[a].parts[i].type \in Node /\ heap[b].parts[i].type \in Node
            BY <1>1, <3>1, PartIsNode, TypesOK DEF HeapOK
        <3>4. /\ heap[a].parts[i].name = built[a].parts[i].name
              /\ heap[b].parts[i].name = built[b].parts[i].name
              /\ Eq[heap[a].parts[i].type] = Eq[built[a].parts[i].type]
              /\ Eq[heap[b].parts[i].type] = Eq[built[b].parts[i].type]
            BY <1>1, <3>1, EqIsEquality, EqFollows DEF PartsKept
        <3> QED  BY <1>1, <3>2, <3>3, <3>4, EqIsEquality
    <2>3. AlikeUnder(Alikes, heap[Resolved(a)], heap[Resolved(b)])
        BY <1>2, <2>1, <2>2 DEF AlikeUnder
    <2> QED  BY <1>1, <2>3, AlikesUp, EqIsEquality
<1> QED  BY <1>3, <1>4

LEMMA EqIsCongruence ==
    ASSUME FollowInv, PartsKept
    PROVE  Eq \in Congruence
<1>1. Eq \in Equality
    BY EqIsEquality DEF FollowInv
<1> QED  BY <1>1, EqUp DEF Congruence

LEMMA GrantedEqual ==
    ASSUME GrantInv
    PROVE  \A p \in granted : Eq[p[1]] = Eq[p[2]]
<1>1. Eq \in Congruence /\ Follows(Eq)
    BY EqIsCongruence, EqFollows DEF GrantInv, FollowInv
<1> QED  BY <1>1 DEF GrantInv, GrantedIn

LEMMA GrantedStays ==
    ASSUME GrantInv
    PROVE  GrantedStaysEqual
<1>1. IInv
    BY DEF GrantInv, FollowInv
<1>2. ASSUME NEW a \in Node, NEW b \in Node, Eq[a] = Eq[b]
      PROVE  SameIn(Eq, heap[Resolved(a)], heap[Resolved(b)])
    <2> PICK x, y : x = heap[Resolved(a)] /\ y = heap[Resolved(b)]
        OBVIOUS
    <2>1. AlikeUnder(Alikes, x, y)
        BY <1>1, <1>2, EqIsEquality, AlikesConsistent DEF Consistent
    <2>2. DOMAIN x.parts = DOMAIN y.parts
        BY <1>1, <2>1, ResolvedIsNode, AlikePlaces DEF AlikeUnder
    <2>3. \A i \in DOMAIN x.parts : x.parts[i].type \in Node /\ y.parts[i].type \in Node
        BY <1>1, <2>2, ResolvedIsNode
    <2> QED  BY <1>1, <2>1, <2>3, EqIsEquality DEF AlikeUnder, SameIn
<1>3. Eq \in Equality /\ \A p \in granted : Eq[p[1]] = Eq[p[2]]
    BY <1>1, GrantedEqual, EqIsEquality
<1> QED  BY <1>2, <1>3 DEF GrantedStaysEqual

\* Types that constrainTypes has made equal are equal after every later call too,
\* of whatever answer: under the bindings they are the same, part by part.
THEOREM GrantsLast ==
    ASSUME BoolTargets
    PROVE  Spec => []GrantedStaysEqual
<1>1. Init => GrantInv
    BY InitGrants
<1>2. GrantInv /\ [Next]_vars => GrantInv'
    BY NextGrants
<1>3. GrantInv => GrantedStaysEqual
    BY GrantedStays
<1> QED  BY <1>1, <1>2, <1>3, PTL DEF Spec


-----------------------------------------------------------------------------
(* What is refused has no solution. *)

\* A solution mixes no kinds and names, and makes no type a part of itself.
Solves(eq) ==
    /\ \A a, b \in Node : a < b =>
        \/ eq[a] # eq[b]
        \/ "var" \in {built[a].kind, built[b].kind}
        \/ SameIn(eq, built[a], built[b])
    /\ \A S \in (SUBSET Node) \ {{}} : \E n \in S : \A m \in Node :
        eq[m] = eq[n] => \A i \in DOMAIN built[m].parts :
                            \A k \in S : eq[k] # eq[built[m].parts[i].type]

LEMMA SolvableIs ==
    ASSUME NEW equations
    PROVE  Solvable(equations) <=> \E eq \in Satisfying(equations) : Solves(eq)
BY DEF Solvable, Solves

\* Equal types that are no variables have the same kind, and parts of the same
\* names.
LEMMA NoClash ==
    ASSUME FollowInv, NEW eq, Solves(eq), NEW a \in Node, NEW b \in Node, eq[a] = eq[b],
           ~IsVar(a), ~IsVar(b)
    PROVE  /\ Alike(heap[a], heap[b])
           /\ \A i \in DOMAIN built[a].parts : built[a].parts[i].name = built[b].parts[i].name
<1>1. a \in Nat /\ b \in Nat
    BY UnificationAssumption
<1>2. built[a].kind # "var" /\ built[b].kind # "var"
    BY BuiltShape DEF IsVar
<1>3. a # b => SameIn(eq, built[a], built[b]) \/ SameIn(eq, built[b], built[a])
    BY <1>1, <1>2 DEF Solves
<1>4. /\ Alike(built[a], built[b])
      /\ \A i \in DOMAIN built[a].parts : built[a].parts[i].name = built[b].parts[i].name
    <2>1. CASE a = b
        BY <2>1 DEF Alike
    <2>2. CASE SameIn(eq, built[a], built[b])
        BY <2>2 DEF SameIn
    <2>3. CASE SameIn(eq, built[b], built[a])
        <3>1. built[a] \in Type /\ built[b] \in Type /\ Alike(built[b], built[a])
            BY <2>3, BuiltShape DEF SameIn
        <3>2. DOMAIN built[b].parts = DOMAIN built[a].parts
            BY <3>1, AlikePlaces
        <3> QED  BY <2>3, <3>2 DEF SameIn, Alike
    <2> QED  BY <1>3, <2>1, <2>2, <2>3
<1>5. Alike(heap[a], heap[b])
    BY <1>4, BuiltShape DEF Alike
<1> QED  BY <1>4, <1>5

LEMMA ReachLeast ==
    ASSUME NEW n \in Node, NEW S \in SUBSET Node, n \in S, Closed(S)
    PROVE  Reach({n}) \subseteq S
BY DEF Reach, Closed

LEMMA ReachStep ==
    ASSUME HeapOK, NEW n \in Node, NEW m \in Reach({n}), m # n
    PROVE  \E k \in Succ(n) : m \in Reach({k})
<1> PICK T : T = {n} \cup {x \in Node : \E k \in Succ(n) : x \in Reach({k})}
    OBVIOUS
<1>1. T \in SUBSET Node /\ n \in T
    OBVIOUS
<1>2. ASSUME NEW x \in T, NEW y \in Succ(x)
      PROVE  y \in T
    <2>1. y \in Node
        BY <1>1, SuccIsNode
    <2>2. CASE x = n
        BY <2>1, <2>2, ReachHolds
    <2>3. CASE x # n
        <3>1. PICK k \in Succ(n) : x \in Reach({k})
            BY <2>3
        <3>2. k \in Node
            BY SuccIsNode
        <3>3. y \in Reach({k})
            BY <3>1, <3>2, ReachHolds DEF Closed
        <3> QED  BY <2>1, <3>3
    <2> QED  BY <2>2, <2>3
<1>3. Reach({n}) \subseteq T
    <2>1. Closed(T)
        BY <1>2 DEF Closed
    <2> QED  BY <1>1, <2>1, ReachLeast
<1> QED  BY <1>3

\* What a variable leads to, the type leads to that it is resolved to.
LEMMA ReachResolved ==
    ASSUME HeapOK, Acyclic, NEW n \in Node, NEW m \in Reach({n}), ~Bound(m)
    PROVE  m \in Reach({Resolved(n)})
<1> SUFFICES ASSUME m \notin Reach({Resolved(n)}) PROVE FALSE
    OBVIOUS
<1> PICK S : S = {x \in Node : m \in Reach({x}) /\ m \notin Reach({Resolved(x)})}
    OBVIOUS
<1>1. S \in (SUBSET Node) \ {{}}
    OBVIOUS
<1>2. PICK x \in S : Succ(x) \cap S = {}
    BY <1>1 DEF Acyclic
<1>3. Bound(x)
    BY DEF Resolved
<1>4. PICK y \in Succ(x) : m \in Reach({y})
    <2>1. m # x
        BY <1>3
    <2> QED  BY <2>1, ReachStep
<1>5. y = subst[heap[x].var]
    BY <1>3, <1>4 DEF Succ
<1>6. y \in Node /\ Resolved(x) = Resolved(y)
    BY <1>3, <1>5, ResolvedStep
<1> QED  BY <1>2, <1>4, <1>6

\* A type in which a variable occurs that is equal to it would be a part of itself.
LEMMA OccursUnsolvable ==
    ASSUME FollowInv, NEW eq \in Satisfying(Calls),
           NEW a \in Node, IsVar(a), ~Bound(a), NEW b \in Node, ~Bound(b), eq[a] = eq[b],
           ~(IsVar(b) /\ heap[b].var = heap[a].var), occursIn(heap[a].var, b)
    PROVE  ~Solves(eq)
<1> SUFFICES ASSUME Solves(eq) PROVE FALSE
    OBVIOUS
<1>1. IInv /\ SameShape /\ HeapOK /\ Acyclic /\ Agrees(eq) /\ NULL \notin Var
    BY TypesOK DEF FollowInv
<1> PICK v : v = heap[a].var
    OBVIOUS
<1>2. v \in Var \ BoundVar
    BY <1>1, FreeVar
<1>3. PICK m \in Reach({b}) : heap[m].var = v
    BY DEF occursIn
<1>4. /\ b \in Reach({b}) /\ Reach({b}) \in SUBSET Node /\ Closed(Reach({b}))
      /\ m \in Node
    BY <1>1, ReachHolds
<1>5. ~Bound(m) /\ IsVar(m) /\ eq[m] = eq[a]
    <2>1. ~Bound(m)
        BY <1>2, <1>3 DEF Bound
    <2>2. heap[m].var # NULL
        BY <1>1, <1>2, <1>3
    <2>3. IsVar(m)
        BY <1>1, <1>4, <2>2 DEF IInv, VarsAreVars, IsVar
    <2>4. eq[m] = eq[a]
        BY <1>1, <1>2, <1>3, <1>4, EqualNodes
    <2> QED  BY <2>1, <2>3, <2>4
<1>6. ASSUME NEW n \in Node, IsVar(n), ~Bound(n), m \in Reach({n})
      PROVE  m = n
    <2>1. Succ(n) = {}
        BY <1>1, <1>6 DEF Succ, IInv, VarsAreVars, IsVar
    <2> QED  BY <1>1, <1>6, <2>1, ReachStep
<1>7. ~IsVar(b)
    BY <1>3, <1>6
<1> PICK S : S = {k \in Node : k \in Reach({b}) /\ ~Bound(k) /\ m \in Reach({k})}
    OBVIOUS
<1>8. b \in S /\ S \in (SUBSET Node) \ {{}}
    BY <1>4
<1>9. PICK n \in S : \A x \in Node :
        eq[x] = eq[n] => \A i \in DOMAIN built[x].parts :
                            \A k \in S : eq[k] # eq[built[x].parts[i].type]
    BY <1>8, Zenon DEF Solves
<1>10. PICK x \in S : eq[x] = eq[n] /\ ~IsVar(x)
    <2>1. CASE IsVar(n)
        <3>1. n = m
            BY <1>6, <2>1
        <3>2. eq[b] = eq[n]
            BY <1>5, <3>1
        <3> QED  BY <1>7, <1>8, <3>2
    <2>2. CASE ~IsVar(n)
        BY <2>2
    <2> QED  BY <2>1, <2>2
<1>11. PICK k \in Succ(x) : m \in Reach({k})
    <2>1. m # x
        BY <1>5, <1>10
    <2> QED  BY <1>1, <2>1, ReachStep
<1>12. PICK i \in DOMAIN heap[x].parts : k = heap[x].parts[i].type
    BY <1>11 DEF Succ
<1>13. k \in Node /\ k \in Reach({b})
    BY <1>1, <1>4, <1>11, SuccIsNode DEF Closed
<1> PICK r : r = Resolved(k)
    OBVIOUS
<1>14. r \in S
    <2>1. r \in Node /\ ~Bound(r)
        BY <1>1, <1>13, ResolvedOK
    <2>2. m \in Reach({r})
        BY <1>1, <1>5, <1>11, <1>13, ReachResolved
    <2>3. r \in Reach({b})
        BY <1>1, <1>4, <1>13, ResolvedIn
    <2> QED  BY <2>1, <2>2, <2>3
<1>15. eq[r] = eq[built[x].parts[i].type]
    <2>1. eq[r] = eq[k]
        BY <1>1, <1>13, ResolvedAgrees
    <2>2. eq[k] = eq[built[x].parts[i].type]
        BY <1>1, <1>12 DEF Agrees
    <2> QED  BY <2>1, <2>2
<1>16. i \in DOMAIN built[x].parts
    BY <1>12, BuiltShape
<1> QED  BY <1>9, <1>10, <1>14, <1>15, <1>16


LEMMA ClashUnsolvable ==
    ASSUME FollowInv, Clash
    PROVE  ~Solvable(Calls)
<1> SUFFICES ASSUME NEW eq \in Satisfying(Calls), Solves(eq) PROVE FALSE
    BY SolvableIs
<1>1. /\ Running /\ ~IsVar(Left) /\ ~IsVar(Right)
      /\ ~Alike(heap[Left], heap[Right])
    BY DEF Clash
<1>2. Left \in Node /\ Right \in Node /\ eq[Left] = eq[Right]
    BY <1>1, HeadOK, HeadAgrees DEF FollowInv
<1> QED  BY <1>1, <1>2, NoClash

LEMMA OccursRefuses ==
    ASSUME FollowInv, Occurs
    PROVE  ~Solvable(Calls)
<1> SUFFICES ASSUME NEW eq \in Satisfying(Calls), Solves(eq) PROVE FALSE
    BY SolvableIs
<1>1. Running /\ ~SameVar
    BY DEF Occurs
<1>2. /\ Left \in Node /\ ~Bound(Left) /\ Right \in Node /\ ~Bound(Right)
      /\ eq[Left] = eq[Right]
    BY <1>1, HeadOK, HeadAgrees DEF FollowInv
<1>3. CASE IsVar(Left) /\ occursIn(heap[Left].var, Right)
    <2>1. ~(IsVar(Right) /\ heap[Right].var = heap[Left].var)
        BY <1>1, <1>3 DEF SameVar
    <2> QED  BY <1>2, <1>3, <2>1, OccursUnsolvable
<1>4. CASE IsVar(Right) /\ ~IsVar(Left) /\ occursIn(heap[Right].var, Left)
    BY <1>2, <1>4, OccursUnsolvable
<1> QED  BY <1>3, <1>4 DEF Occurs

\* If there is a solution, the parts of types that are constrained have the same
\* names.
LEMMA DescendAgrees ==
    ASSUME FollowInv, PartsKept', Descend, Solvable(Calls),
           NEW i \in DOMAIN PartPairs(heap'[Left], heap'[Right])
    PROVE  PartPairs(heap'[Left], heap'[Right])[i].agree
<1>1. Running /\ Rewritten /\ built' = built /\ IInv
    BY StepRewrites DEF Descend, Step, FollowInv
<1> PICK a, b : a = Left /\ b = Right
    OBVIOUS
<1>2. PICK eq \in Satisfying(Calls) : Solves(eq)
    BY SolvableIs
<1>3. a \in Node /\ b \in Node /\ ~IsVar(a) /\ ~IsVar(b) /\ eq[a] = eq[b]
    BY <1>1, HeadOK, HeadAgrees DEF Descend
<1>4. /\ Alike(heap[a], heap[b])
      /\ \A j \in DOMAIN built[a].parts : built[a].parts[j].name = built[b].parts[j].name
    BY <1>2, <1>3, NoClash
<1>5. i \in DOMAIN heap'[a].parts
    BY DEF PartPairs
<1>6. i \in DOMAIN heap'[b].parts /\ i \in DOMAIN built[a].parts
    <2>1. i \in DOMAIN heap[a].parts
        BY <1>1, <1>3, <1>5 DEF Rewritten
    <2>2. i \in DOMAIN heap[b].parts /\ i \in DOMAIN built[a].parts
        BY <1>3, <1>4, <2>1, BuiltShape DEF Alike
    <2> QED  BY <1>1, <1>3, <2>2 DEF Rewritten
<1>7. heap'[a].parts[i].name = heap'[b].parts[i].name
    BY <1>1, <1>3, <1>4, <1>5, <1>6 DEF PartsKept
<1> PICK same \in BOOLEAN : same = (heap'[a].parts[i].name = heap'[b].parts[i].name)
    OBVIOUS
<1>8. PartPairs(heap'[a], heap'[b])[i] = Pair(heap'[a].parts[i].type, heap'[b].parts[i].type, same)
    BY <1>5, Zenon DEF PartPairs
<1>9. PartPairs(heap'[a], heap'[b])[i].agree = same
    BY <1>8 DEF Pair
<1> QED  BY <1>7, <1>9

\* What is true of all members of two sequences is true of those of their
\* concatenation.
LEMMA ConcatAgrees ==
    ASSUME NEW S, NEW p \in Seq(S), NEW q \in Seq(S),
           \A i \in DOMAIN p : p[i].agree, \A i \in DOMAIN q : q[i].agree
    PROVE  \A i \in DOMAIN (p \o q) : (p \o q)[i].agree
<1> PICK n, m, both : n = Len(p) /\ m = Len(q) /\ both = p \o q
    OBVIOUS
<1>1. n \in Nat /\ m \in Nat /\ DOMAIN p = 1 .. n /\ DOMAIN q = 1 .. m
    BY LenProperties
<1>2. /\ both \in Seq(S) /\ Len(both) = n + m
      /\ \A i \in 1 .. n + m : both[i] = IF i <= n THEN p[i] ELSE q[i - n]
    BY ConcatProperties
<1>3. DOMAIN both = 1 .. n + m
    BY <1>2, LenProperties
<1>4. ASSUME NEW i \in 1 .. n + m
      PROVE  both[i].agree
    <2>1. CASE i <= n
        BY <1>1, <1>2, <2>1
    <2>2. CASE ~(i <= n)
        <3>1. i - n \in 1 .. m
            <4>1. n \in Nat /\ m \in Nat
                BY <1>1
            <4> QED  BY <2>2, <4>1
        <3>2. both[i] = q[i - n] /\ i - n \in DOMAIN q
            BY <1>1, <1>2, <2>2, <3>1
        <3> QED  BY <3>2
    <2> QED  BY <2>1, <2>2
<1> QED  BY <1>3, <1>4

LEMMA TailIs ==
    ASSUME IInv, Running
    PROVE  /\ Tail(todo) \in Seq(PairSet)
           /\ \A i \in DOMAIN Tail(todo) : \E j \in DOMAIN todo : Tail(todo)[i] = todo[j]
<1> PICK S : S = PairSet
    OBVIOUS
<1>1. todo \in Seq(S) /\ todo # <<>>
    BY DEF IInv, TypeOK, Running, PairSet
<1>2. /\ Tail(todo) \in Seq(S)
      /\ \A i \in 1 .. Len(Tail(todo)) : Tail(todo)[i] = todo[i + 1] /\ i + 1 \in DOMAIN todo
    BY <1>1, HeadTailProperties
<1> QED  BY <1>2

LEMMA SolvableKept ==
    ASSUME asked' = asked, built' = built
    PROVE  Solvable(Calls)' <=> Solvable(Calls)
BY DEF Solvable, Satisfying, Calls

LEMMA StepAnswers ==
    ASSUME AnswerInv, Step
    PROVE  /\ result' \in {"true", "false"} => asked' # <<>>
           /\ result' = "true" => Last' \in granted'
           /\ result' = "false" => ~Solvable(Calls)'
           /\ \A i \in DOMAIN todo' : todo'[i].agree \/ ~Solvable(Calls)'
<1>1. GrantInv /\ FollowInv /\ IInv /\ GrantInv'
    BY StepGrants DEF AnswerInv, GrantInv, FollowInv
<1>2. asked' = asked /\ built' = built
    BY <1>1, StepRewrites
<1>3. Solvable(Calls)' <=> Solvable(Calls)
    BY <1>2, SolvableKept
<1>4. result = "running" /\ asked # <<>>
    BY <1>1 DEF Step, SkipSame, BindLeft, BindRight, Occurs, Descend, Clash, NamesDiffer, Grant,
                Running, IInv
<1>5. CASE SkipSame \/ BindLeft \/ BindRight
    <2>1. Running /\ todo' = Tail(todo) /\ result' = "running"
        BY <1>4, <1>5 DEF SkipSame, BindLeft, BindRight, Advance
    <2>2. \A i \in DOMAIN Tail(todo) : Tail(todo)[i].agree \/ ~Solvable(Calls)
        BY <1>1, <2>1, TailIs DEF AnswerInv
    <2> QED  BY <1>3, <2>1, <2>2
<1>6. CASE Descend
    <2> PICK pairs, rest : pairs = PartPairs(heap'[Left], heap'[Right]) /\ rest = Tail(todo)
        OBVIOUS
    <2>1. Running /\ todo' = pairs \o rest /\ result' = "running"
        BY <1>4, <1>6 DEF Descend
    <2>2. ASSUME Solvable(Calls)
          PROVE  \A i \in DOMAIN todo' : todo'[i].agree
        <3>1. \A i \in DOMAIN pairs : pairs[i].agree
            BY <1>1, <1>6, <2>2, DescendAgrees DEF GrantInv
        <3>2. \A i \in DOMAIN rest : rest[i].agree
            BY <1>1, <2>1, <2>2, TailIs DEF AnswerInv
        <3>3. pairs \in Seq(PairSet) /\ rest \in Seq(PairSet)
            <4>1. rest \in Seq(PairSet)
                BY <1>1, <2>1, TailIs
            <4>2. heap'[Left] \in Type /\ heap'[Right] \in Type /\ Alike(heap'[Left], heap'[Right])
                BY <1>1, <1>6, DescendAlike
            <4>3. pairs \in Seq(PairSet)
                BY <4>2, PartPairsOK DEF PairSet
            <4> QED  BY <4>1, <4>3
        <3>4. \A i \in DOMAIN (pairs \o rest) : (pairs \o rest)[i].agree
            BY <3>1, <3>2, <3>3, ConcatAgrees
        <3> QED  BY <2>1, <3>4
    <2> QED  BY <1>3, <2>1, <2>2
<1>7. CASE Occurs \/ Clash \/ NamesDiffer
    <2>1. ~Solvable(Calls)
        <3>1. CASE NamesDiffer
            <4>1. 1 \in DOMAIN todo /\ todo[1] = Head(todo) /\ ~Head(todo).agree
                <5>1. todo \in Seq(PairSet) /\ todo # <<>>
                    BY <1>1, <3>1 DEF NamesDiffer, IInv, TypeOK, PairSet
                <5> QED  BY <3>1, <5>1 DEF NamesDiffer
            <4> QED  BY <4>1 DEF AnswerInv
        <3> QED  BY <1>1, <1>7, <3>1, OccursRefuses, ClashUnsolvable
    <2>2. todo' = <<>> /\ result' = "false"
        BY <1>7 DEF Occurs, Clash, NamesDiffer, Refuse
    <2> QED  BY <1>2, <1>3, <1>4, <2>1, <2>2
<1>8. CASE Grant
    <2>1. result' = "true" /\ todo' = todo /\ granted' = granted \cup {Last} /\ todo = <<>>
        BY <1>8 DEF Grant, Last
    <2>2. Last' = Last
        BY <1>2 DEF Last
    <2> QED  BY <1>2, <1>4, <2>1, <2>2
<1> QED  BY <1>5, <1>6, <1>7, <1>8 DEF Step


\* Only the types that were built tell whether an equality solves anything.
LEMMA SolvesKept ==
    ASSUME built' = built, NEW eq
    PROVE  Solves(eq)' <=> Solves(eq)
BY DEF Solves

LEMMA ConstrainToAnswers ==
    ASSUME AnswerInv, NEW a \in Node, NEW target \in Target, ConstrainTo(a, target)
    PROVE  /\ result' = "true" => Last' \in granted'
           /\ result' = "false" => ~Solvable(Calls)'
           /\ asked' # <<>> /\ todo' = <<>>
<1>1. GrantInv /\ FollowInv /\ IInv /\ target \in Node
    BY UnificationAssumption DEF AnswerInv, GrantInv, FollowInv
<1> PICK to : to = Resolved(a)
    OBVIOUS
<1>2. to \in Node /\ ~Bound(to)
    BY <1>1, TypesOK, ResolvedOK
<1>3. Last' = <<a, target>> /\ asked' # <<>>
    <2>1. <<a, target>> \in Node \X Node
        BY <1>1
    <2> QED  BY <1>1, <2>1, LastAppended DEF ConstrainTo
<1>4. result # "running" /\ todo' = todo /\ built' = built
    BY DEF ConstrainTo
<1>5. CASE IsVar(to) \/ TypeKind(to) = TypeKind(target)
    <2>1. result' = "true" /\ granted' = granted \cup {<<a, target>>}
        BY <1>5 DEF ConstrainTo
    <2> QED  BY <1>1, <1>3, <1>4, <2>1 DEF GrantInv
<1>6. CASE ~IsVar(to) /\ TypeKind(to) # TypeKind(target)
    <2>1. result' = "false"
        BY <1>6 DEF ConstrainTo
    <2>2. ASSUME NEW eq \in Satisfying(Calls)', Solves(eq)
          PROVE  FALSE
        <3>1. eq \in Satisfying(Calls) /\ eq[a] = eq[target]
            BY <1>1, MoreCalls DEF ConstrainTo
        <3>2. eq[to] = eq[a]
            BY <1>1, <3>1, TypesOK, ResolvedAgrees DEF FollowInv
        <3>3. ~IsVar(target)
            BY <1>1 DEF IInv, TargetsAreLeaves, IsVar
        <3>4. heap[to].kind = heap[target].kind
            BY <1>1, <1>2, <1>6, <2>2, <3>1, <3>2, <3>3, NoClash DEF Alike
        <3> QED  BY <1>6, <3>4 DEF TypeKind
    <2>3. ~Solvable(Calls)'
        <3>1. ASSUME NEW eq, Solves(eq)' PROVE Solves(eq)
            BY <1>4, <3>1, SolvesKept
        <3>2. Solvable(Calls)' => \E eq \in Satisfying(Calls)' : Solves(eq)'
            BY DEF Solvable, Solves
        <3> QED  BY <2>2, <3>1, <3>2
    <2> QED  BY <1>1, <1>3, <1>4, <2>1, <2>3 DEF GrantInv
<1> QED  BY <1>5, <1>6

LEMMA NextAnswers ==
    ASSUME BoolTargets, AnswerInv, [Next]_vars
    PROVE  AnswerInv'
<1>1. GrantInv' /\ IInv
    BY NextGrants DEF AnswerInv, GrantInv, FollowInv
<1>2. ASSUME NEW a \in Node, NEW b \in Node, Constrain(a, b)
      PROVE  AnswerInv'
    <2>1. result' = "running" /\ todo' = <<Pair(a, b, TRUE)>>
        BY <1>2 DEF Constrain
    <2>2. \A i \in DOMAIN todo' : todo'[i].agree
        BY <2>1 DEF Pair
    <2> QED  BY <1>1, <2>1, <2>2 DEF AnswerInv
<1>3. ASSUME NEW a \in Node, NEW target \in Target, ConstrainTo(a, target)
      PROVE  AnswerInv'
    <2>1. /\ result' = "true" => Last' \in granted'
          /\ result' = "false" => ~Solvable(Calls)'
          /\ asked' # <<>> /\ todo' = <<>>
        BY <1>3, ConstrainToAnswers
    <2> QED  BY <1>1, <2>1 DEF AnswerInv
<1>4. CASE Step
    <2>1. /\ result' \in {"true", "false"} => asked' # <<>>
          /\ result' = "true" => Last' \in granted'
          /\ result' = "false" => ~Solvable(Calls)'
          /\ \A i \in DOMAIN todo' : todo'[i].agree \/ ~Solvable(Calls)'
        BY <1>4, StepAnswers
    <2> QED  BY <1>1, <2>1 DEF AnswerInv
<1>5. CASE UNCHANGED vars
    <2>1. Solvable(Calls)' <=> Solvable(Calls)
        BY <1>5, SolvableKept DEF vars
    <2> QED  BY <1>1, <1>5, <2>1 DEF AnswerInv, vars, Last
<1> QED  BY <1>2, <1>3, <1>4, <1>5 DEF Next

LEMMA InitAnswers ==
    ASSUME Init
    PROVE  AnswerInv
BY InitGrants DEF Init, AnswerInv

\* The equality under the bindings solves what was granted: no type is a part of
\* itself, since none is in the heap.
LEMMA EqSolves ==
    ASSUME GrantInv, Calls \subseteq granted
    PROVE  Eq \in Satisfying(Calls) /\ Solves(Eq)
<1>1. IInv /\ FollowInv /\ PartsKept /\ Eq \in Equality
    BY EqIsEquality DEF GrantInv, FollowInv
<1>2. \A e \in Calls : Eq[e[1]] = Eq[e[2]]
    BY GrantedEqual
<1>3. ASSUME NEW a \in Node, NEW b \in Node, built[a].kind = "var", built[a].var = built[b].var
      PROVE  Eq[a] = Eq[b]
    <2>1. IsVar(a) /\ IsVar(b) /\ heap[a].var = heap[b].var
        BY <1>1, <1>3, BuiltShape DEF IsVar
    <2> QED  BY <1>1, <2>1, SameVarEqual, EqIsCongruence
<1>4. ASSUME NEW a \in Node, NEW b \in Node, Eq[a] = Eq[b], Alike(built[a], built[b]),
             NEW i \in DOMAIN built[a].parts
      PROVE  Eq[built[a].parts[i].type] = Eq[built[b].parts[i].type]
    <2>1. built[a].kind # "var" /\ built[b].kind # "var"
        BY <1>1, <1>4, BuiltShape DEF Alike
    <2> QED  BY <1>1, <1>4, <2>1, EqDown DEF SameIn
<1>5. Eq \in Satisfying(Calls)
    BY <1>1, <1>2, <1>3, <1>4 DEF Satisfying
<1>6. ASSUME NEW a \in Node, NEW b \in Node
      PROVE  \/ Eq[a] # Eq[b]
             \/ "var" \in {built[a].kind, built[b].kind}
             \/ SameIn(Eq, built[a], built[b])
    BY <1>1, EqDown
<1>7. ASSUME NEW S \in (SUBSET Node) \ {{}}
      PROVE  \E n \in S : \A m \in Node :
                Eq[m] = Eq[n] => \A i \in DOMAIN built[m].parts :
                                    \A k \in S : Eq[k] # Eq[built[m].parts[i].type]
    <2> PICK T : T = {m \in Node : \E k \in S : Eq[m] = Eq[k]}
        OBVIOUS
    <2>1. T \in (SUBSET Node) \ {{}}
        OBVIOUS
    <2>2. PICK t \in T : Succ(t) \cap T = {}
        BY <1>1, <2>1 DEF IInv, Acyclic
    <2>3. PICK n \in S : Eq[t] = Eq[n]
        BY <2>2
    <2>4. ~Bound(t)
        <3> SUFFICES ASSUME Bound(t) PROVE FALSE
            OBVIOUS
        <3> PICK k : k = subst[heap[t].var]
            OBVIOUS
        <3>1. k \in Node /\ Eq[k] = Eq[t] /\ k \in Succ(t)
            BY <1>1, TypesOK, ResolvedStep, EqFollows DEF Follows, Succ
        <3> QED  BY <2>2, <2>3, <3>1
    <2>5. ASSUME NEW m \in Node, Eq[m] = Eq[n], NEW i \in DOMAIN built[m].parts, NEW k \in S
          PROVE  Eq[k] # Eq[built[m].parts[i].type]
        <3>1. built[m].kind # "var" /\ i \in DOMAIN heap[m].parts
            BY <1>1, BuiltShape
        <3>2. Resolved(m) = m /\ Resolved(t) = t
            BY <1>1, <2>4, <3>1, NoVarResolved DEF Resolved
        <3>3. AlikeUnder(Alikes, heap[m], heap[t])
            <4>1. t \in Node /\ Eq[m] = Eq[t]
                BY <2>3, <2>5
            <4>2. <<m, t>> \in Alikes
                BY <1>1, <4>1, EqIsEquality
            <4> QED  BY <3>2, <4>1, <4>2, AlikesConsistent DEF Consistent
        <3> PICK x, y : x = heap[m].parts[i].type /\ y = heap[t].parts[i].type
            OBVIOUS
        <3>4. i \in DOMAIN heap[t].parts
            BY <1>1, <3>1, <3>3, BuiltShape DEF AlikeUnder, Alike
        <3>5. x \in Node /\ y \in Node /\ y \in Succ(t)
            BY <1>1, <2>4, <3>1, <3>4, PartIsNode, TypesOK DEF HeapOK, Succ
        <3>6. Eq[x] = Eq[y]
            BY <1>1, <3>1, <3>3, <3>5, EqIsEquality DEF AlikeUnder
        <3>7. Eq[x] = Eq[built[m].parts[i].type]
            BY <1>1, <3>1, EqFollows DEF PartsKept
        <3>8. y \notin T
            BY <2>2, <3>5
        <3>9. Eq[k] # Eq[y]
            BY <3>5, <3>8
        <3> QED  BY <3>6, <3>7, <3>9
    <2> QED  BY <2>3, <2>5
<1>8. Solves(Eq)
    BY <1>6, <1>7 DEF Solves
<1> QED  BY <1>5, <1>8

LEMMA AnswerRight ==
    ASSUME AnswerInv
    PROVE  AnswersAreRight
<1> SUFFICES ASSUME result \in {"true", "false"},
                    \A i \in 1 .. Len(asked) - 1 : asked[i] \in granted
             PROVE  result = "true" <=> Solvable(Calls)
    BY DEF AnswersAreRight
<1>1. CASE result = "false"
    BY <1>1 DEF AnswerInv
<1>2. CASE result = "true"
    <2>1. GrantInv /\ asked \in Seq(Node \X Node) /\ Last \in granted
        BY <1>2 DEF AnswerInv, GrantInv, FollowInv, IInv, TypeOK
    <2>2. Calls \subseteq granted
        <3> SUFFICES ASSUME NEW i \in 1 .. Len(asked) PROVE asked[i] \in granted
            BY DEF Calls
        <3>1. CASE i = Len(asked)
            BY <2>1, <3>1 DEF Last
        <3>2. CASE i # Len(asked)
            <4>1. Len(asked) \in Nat
                BY <2>1
            <4>2. i \in 1 .. Len(asked) - 1
                BY <3>2, <4>1
            <4> QED  BY <4>2
        <3> QED  BY <3>1, <3>2
    <2>3. Solvable(Calls)
        BY <2>1, <2>2, EqSolves, SolvableIs
    <2> QED  BY <1>2, <2>3
<1> QED  BY <1>1, <1>2

\* As long as every call was granted, constrainTypes and constrainTypeTo answer
\* true exactly when all calls so far have a solution together.
THEOREM AnswersMatchSolutions ==
    ASSUME BoolTargets
    PROVE  Spec => []AnswersAreRight
<1>1. Init => AnswerInv
    BY InitAnswers
<1>2. AnswerInv /\ [Next]_vars => AnswerInv'
    BY NextAnswers
<1>3. AnswerInv => AnswersAreRight
    BY AnswerRight
<1> QED  BY <1>1, <1>2, <1>3, PTL DEF Spec

=============================================================================
