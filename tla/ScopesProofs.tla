---------------------------- MODULE ScopesProofs ----------------------------
(***************************************************************************)
(* Proofs about Scopes, for every set of names and addresses and every     *)
(* bound.  The inductive invariant ties each allocated scope to the call   *)
(* that entered it: the call stack is what decides which scopes are alive, *)
(* what their parents are and whose identifiers they hold.                 *)
(***************************************************************************)
EXTENDS Scopes, SequenceTheorems, TLAPS

\* The calls that entered the scope they work in.
Entering == {"block", "lambdaHeader", "lambda"}

\* How the call at i relates to the call below it.
FrameShape(i) ==
    LET f == frames[i]
    IN  /\ f.unit \in 1 .. Len(units)
        /\ f.kind \in {"global", "funHeader", "fun"} =>
            i = 1 /\ f.at = Global /\ f.unit = 1 /\ f.old = NULL
        /\ f.kind = "local" =>
            /\ i > 1 /\ f.old = NULL /\ frames[i - 1].kind = "block"
            /\ f.at = frames[i - 1].at /\ f.unit = frames[i - 1].unit
        /\ f.kind = "block" =>
            /\ i > 1 /\ f.old = NULL
            /\ f.at \in DOMAIN scopes \ {Global}
            /\ scopes[f.at].parent = frames[i - 1].at
            /\ f.unit = frames[i - 1].unit
        /\ f.kind \in {"lambdaHeader", "lambda"} =>
            /\ i > 1 /\ f.old = frames[i - 1].at
            /\ f.at \in DOMAIN scopes \ {Global}
            /\ scopes[f.at].parent = Global
            /\ f.unit = frames[i - 1].unit + 1

StackShape ==
    /\ \A i \in 1 .. Len(frames) : FrameShape(i)
    /\ \A i, j \in 1 .. Len(frames) :
        frames[i].kind \in Entering /\ frames[j].kind \in Entering /\ i # j =>
            frames[i].at # frames[j].at
    /\ \A i, j \in 1 .. Len(frames) : i <= j => frames[i].unit <= frames[j].unit
    /\ frames = <<>> => units = <<>>
    /\ frames # <<>> => Top.unit = Len(units)

\* The scope of the call on top of the stack.
Inner == IF frames = <<>> THEN Global ELSE Top.at

Reached(s) == s = Global \/ \E i \in 1 .. Len(frames) :
                                frames[i].at = s /\ frames[i].unit = Len(units)

HeapShape ==
    /\ Global \in DOMAIN scopes
    /\ scopes[Global].parent = NULL
    /\ \A s \in DOMAIN scopes \ {Global} :
        \E i \in 1 .. Len(frames) : frames[i].kind \in Entering /\ frames[i].at = s

LoopShape ==
    /\ pc # "climb" => scope = Inner /\ oldScope = NULL
    /\ pc = "climb" => frames # <<>> /\ oldScope = Inner /\ Reached(scope)
    /\ pc # "lookup" => current = NULL
    /\ pc = "lookup" => frames # <<>> /\ wanted \in Name /\ (current = NULL \/ Reached(current))

\* The identifiers a scope holds are bound by the unit of the call it is for.
VarsBound ==
    /\ \A name \in Name : scopes[Global].vars[name] # NULL => ~scopes[Global].vars[name].isAuto
    /\ \A i \in 1 .. Len(frames), name \in Name :
        LET id == scopes[frames[i].at].vars[name]
        IN  frames[i].kind \in Entering /\ id # NULL => id \in units[frames[i].unit].binds

Names == {declarations[j].name : j \in 1 .. Len(declarations)}

UnitsClosed ==
    \A k \in 1 .. Len(units) : Autos(units[k].uses) \subseteq units[k].binds \cup Names

Done ==
    /\ scope = NULL /\ DOMAIN scopes = {} /\ frames = <<>> /\ units = <<>>
    /\ pc = "parse" /\ current = NULL /\ oldScope = NULL

IInv ==
    /\ TypeOK
    /\ status # "done" => StackShape /\ HeapShape /\ LoopShape /\ VarsBound
    /\ status = "done" => Done
    /\ UnitsClosed
    /\ LiftedClosed

-----------------------------------------------------------------------------
(* Sequences as stacks. *)

LEMMA AppendFacts ==
    ASSUME NEW S, NEW seq \in Seq(S), NEW e \in S
    PROVE  /\ Append(seq, e) \in Seq(S)
           /\ Len(Append(seq, e)) = Len(seq) + 1
           /\ \A i \in 1 .. Len(seq) : Append(seq, e)[i] = seq[i]
           /\ Append(seq, e)[Len(seq) + 1] = e
    OBVIOUS

LEMMA PopFacts ==
    ASSUME NEW S, NEW seq \in Seq(S), seq # <<>>
    PROVE  /\ Pop(seq) \in Seq(S)
           /\ Len(seq) \in Nat \ {0}
           /\ Len(Pop(seq)) = Len(seq) - 1
           /\ \A i \in 1 .. Len(seq) - 1 : Pop(seq)[i] = seq[i]
<1>1. Len(seq) \in Nat \ {0} /\ \A i \in 1 .. Len(seq) - 1 : seq[i] \in S
    BY EmptySeq
<1> DEFINE n == Len(seq) - 1
<1>2. n \in Nat /\ \A i \in 1 .. n : seq[i] \in S
    BY <1>1
<1>3. Pop(seq) = SubSeq(seq, 1, n)
    BY DEF Pop
<1> HIDE DEF n
<1>4. /\ SubSeq(seq, 1, n) \in Seq(S)
      /\ Len(SubSeq(seq, 1, n)) = IF 1 <= n THEN n - 1 + 1 ELSE 0
      /\ \A i \in 1 .. n - 1 + 1 : SubSeq(seq, 1, n)[i] = seq[1 + i - 1]
    BY <1>2, SubSeqProperties
<1>5. \A i \in 1 .. n : SubSeq(seq, 1, n)[i] = seq[i]
    BY <1>2, <1>4
<1>6. Len(SubSeq(seq, 1, n)) = n
    BY <1>2, <1>4
<1>7. /\ Pop(seq) \in Seq(S) /\ Len(Pop(seq)) = n
      /\ \A i \in 1 .. n : Pop(seq)[i] = seq[i]
    BY <1>3, <1>4, <1>5, <1>6
<1> QED
    BY <1>1, <1>7 DEF n

LEMMA ReplaceFacts ==
    ASSUME NEW S, NEW seq \in Seq(S), NEW n \in 1 .. Len(seq), NEW e \in S
    PROVE  /\ [seq EXCEPT ![n] = e] \in Seq(S)
           /\ Len([seq EXCEPT ![n] = e]) = Len(seq)
           /\ [seq EXCEPT ![n] = e][n] = e
           /\ \A i \in 1 .. Len(seq) : i # n => [seq EXCEPT ![n] = e][i] = seq[i]
    OBVIOUS

LEMMA NonEmptyFacts ==
    ASSUME NEW S, NEW seq \in Seq(S)
    PROVE  /\ seq = <<>> <=> Len(seq) = 0
           /\ seq # <<>> => seq[Len(seq)] \in S /\ Len(seq) \in 1 .. Len(seq)
    OBVIOUS

-----------------------------------------------------------------------------
(* What the shape says about scopes. *)

Shape == StackShape /\ HeapShape /\ LoopShape /\ VarsBound

LEMMA TopFacts ==
    ASSUME TypeOK, frames # <<>>
    PROVE  Top \in Frame /\ Len(frames) \in Nat \ {0} /\ Top = frames[Len(frames)]
    BY EmptySeq DEF TypeOK, Top

\* Every call works in the global scope or in one that a call entered.
LEMMA EnteredAt ==
    ASSUME TypeOK, StackShape, NEW i \in 1 .. Len(frames), frames[i].at # Global
    PROVE  \E j \in 1 .. Len(frames) :
            /\ frames[j].kind \in Entering
            /\ frames[j].at = frames[i].at
            /\ frames[j].unit = frames[i].unit
<1>1. frames[i] \in Frame /\ FrameShape(i)
    BY DEF TypeOK, StackShape
<1>2. CASE frames[i].kind \in Entering
    BY <1>2
<1>3. CASE frames[i].kind = "local"
    <2>1. i - 1 \in 1 .. Len(frames)
        BY <1>1, <1>3 DEF FrameShape
    <2>2. /\ frames[i - 1].kind = "block"
          /\ frames[i - 1].at = frames[i].at
          /\ frames[i - 1].unit = frames[i].unit
        BY <1>1, <1>3 DEF FrameShape
    <2> QED
        BY <2>1, <2>2 DEF Entering
<1> QED
    BY <1>1, <1>2, <1>3 DEF Frame, Kind, Entering, FrameShape

LEMMA EnteringFacts ==
    ASSUME TypeOK, StackShape, NEW i \in 1 .. Len(frames), frames[i].kind \in Entering
    PROVE  /\ frames[i].at \in DOMAIN scopes \ {Global}
           /\ i - 1 \in 1 .. Len(frames)
           /\ scopes[frames[i].at].parent \in {Global, frames[i - 1].at}
           /\ scopes[frames[i].at].parent \in ScopeId
<1>1. FrameShape(i) /\ frames[i] \in Frame
    BY DEF StackShape, TypeOK
<1>2. i - 1 \in 1 .. Len(frames)
    BY <1>1 DEF FrameShape, Entering
<1>3. frames[i - 1] \in Frame
    BY <1>2 DEF TypeOK
<1> QED
    BY <1>1, <1>2, <1>3, ScopesAssumption DEF FrameShape, Entering, Frame

LEMMA AtAlive ==
    ASSUME TypeOK, StackShape, HeapShape, NEW i \in 1 .. Len(frames)
    PROVE  frames[i].at \in DOMAIN scopes
    BY EnteredAt, EnteringFacts DEF HeapShape

LEMMA ReachedAlive ==
    ASSUME TypeOK, StackShape, HeapShape, NEW s, Reached(s)
    PROVE  s \in DOMAIN scopes
    BY AtAlive DEF Reached, HeapShape

LEMMA InnerFacts ==
    ASSUME TypeOK, StackShape, HeapShape
    PROVE  Inner \in DOMAIN scopes /\ Reached(Inner)
<1>1. CASE frames = <<>>
    BY <1>1 DEF Inner, Reached, HeapShape
<1>2. CASE frames # <<>>
    <2>1. Len(frames) \in 1 .. Len(frames)
        BY <1>2, TopFacts
    <2> QED
        BY <1>2, <2>1, AtAlive DEF Inner, Top, Reached, StackShape
<1> QED
    BY <1>1, <1>2

LEMMA GlobalIff ==
    ASSUME TypeOK, StackShape, HeapShape, NEW s \in DOMAIN scopes
    PROVE  IsGlobal(s) <=> s = Global
<1>1. CASE s = Global
    BY <1>1 DEF HeapShape, IsGlobal
<1>2. CASE s # Global
    <2>1. PICK i \in 1 .. Len(frames) : frames[i].kind \in Entering /\ frames[i].at = s
        BY <1>2 DEF HeapShape
    <2> QED
        BY <1>2, <2>1, EnteringFacts, ScopesAssumption DEF IsGlobal
<1> QED
    BY <1>1, <1>2

\* The parent of a scope within reach is within reach.
LEMMA ParentReached ==
    ASSUME TypeOK, StackShape, HeapShape, NEW s, Reached(s), s # Global
    PROVE  Reached(scopes[s].parent)
<1>1. PICK i \in 1 .. Len(frames) :
        frames[i].kind \in Entering /\ frames[i].at = s /\ frames[i].unit = Len(units)
    BY EnteredAt DEF Reached
<1>2. FrameShape(i) /\ i - 1 \in 1 .. Len(frames)
    BY <1>1, EnteringFacts DEF StackShape
<1> QED
    BY <1>1, <1>2 DEF FrameShape, Reached, Entering

-----------------------------------------------------------------------------
(* What the steps do to the stacks and to the heap. *)

Pushed(f) ==
    /\ frames' \in Seq(Frame)
    /\ Len(frames') = Len(frames) + 1
    /\ \A i \in 1 .. Len(frames) : frames'[i] = frames[i]
    /\ frames'[Len(frames) + 1] = f

Popped ==
    /\ frames' \in Seq(Frame)
    /\ Len(frames) \in Nat \ {0}
    /\ Len(frames') = Len(frames) - 1
    /\ \A i \in 1 .. Len(frames) - 1 : frames'[i] = frames[i]

\* The top frame only changes its kind.
Changed(kind) ==
    /\ frames' \in Seq(Frame)
    /\ Len(frames') = Len(frames)
    /\ \A i \in 1 .. Len(frames) - 1 : frames'[i] = frames[i]
    /\ frames'[Len(frames)].kind = kind
    /\ frames'[Len(frames)].at = Top.at
    /\ frames'[Len(frames)].unit = Top.unit
    /\ frames'[Len(frames)].old = Top.old

\* The units stay, and may bind and use more.
UnitsGrow ==
    /\ units' \in Seq(Unit)
    /\ Len(units') = Len(units)
    /\ \A k \in 1 .. Len(units) : units[k].binds \subseteq units'[k].binds

LEMMA PushFacts ==
    ASSUME TypeOK, NEW kind \in Kind, NEW at \in ScopeId, NEW unit \in Nat,
           NEW old \in ScopeId \cup {NULL}, Push(kind, at, unit, old)
    PROVE  Pushed([kind |-> kind, at |-> at, unit |-> unit, old |-> old])
<1> DEFINE f == [kind |-> kind, at |-> at, unit |-> unit, old |-> old]
<1>1. f \in Frame /\ frames \in Seq(Frame) /\ frames' = Append(frames, f)
    BY DEF Frame, Push, TypeOK
<1> HIDE DEF f
<1>2. Pushed(f)
    BY <1>1, AppendFacts DEF Pushed
<1> QED
    BY <1>2 DEF f

LEMMA PopFrame ==
    ASSUME TypeOK, frames # <<>>, frames' = Pop(frames)
    PROVE  Popped
    BY PopFacts DEF Popped, TypeOK

LEMMA BecomeFacts ==
    ASSUME TypeOK, frames # <<>>, NEW kind \in Kind, Become(kind)
    PROVE  Changed(kind)
<1>1. Top \in Frame /\ Len(frames) \in 1 .. Len(frames) /\ frames \in Seq(Frame)
    BY TopFacts DEF TypeOK
<1> DEFINE f == [Top EXCEPT !.kind = kind]
<1>2. /\ f \in Frame /\ f.kind = kind
      /\ f.at = Top.at /\ f.unit = Top.unit /\ f.old = Top.old
    BY <1>1 DEF Frame
<1>3. frames' = [frames EXCEPT ![Len(frames)] = f]
    BY DEF Become, Top
<1> HIDE DEF f
<1>4. /\ frames' \in Seq(Frame) /\ Len(frames') = Len(frames)
      /\ frames'[Len(frames)] = f
      /\ \A i \in 1 .. Len(frames) : i # Len(frames) => frames'[i] = frames[i]
    BY <1>1, <1>2, <1>3, ReplaceFacts
<1> QED
    BY <1>1, <1>2, <1>4 DEF Changed

LEMMA BindFacts ==
    ASSUME TypeOK, units # <<>>, NEW ids \in SUBSET Ident, Bind(ids)
    PROVE  /\ UnitsGrow
           /\ units'[Len(units)].binds = units[Len(units)].binds \cup ids
           /\ \A k \in 1 .. Len(units) : units'[k].uses = units[k].uses
<1>1. /\ units \in Seq(Unit) /\ Len(units) \in 1 .. Len(units)
      /\ units[Len(units)] \in Unit
    BY NonEmptyFacts DEF TypeOK
<1> DEFINE u == [units[Len(units)] EXCEPT !.binds = @ \cup ids]
<1>2. /\ u \in Unit /\ u.binds = units[Len(units)].binds \cup ids
      /\ u.uses = units[Len(units)].uses
    BY <1>1 DEF Unit
<1>3. units' = [units EXCEPT ![Len(units)] = u]
    BY DEF Bind
<1> HIDE DEF u
<1>4. /\ units' \in Seq(Unit) /\ Len(units') = Len(units)
      /\ units'[Len(units)] = u
      /\ \A k \in 1 .. Len(units) : k # Len(units) => units'[k] = units[k]
    BY <1>1, <1>2, <1>3, ReplaceFacts
<1> QED
    BY <1>1, <1>2, <1>4 DEF UnitsGrow

LEMMA UseFacts ==
    ASSUME TypeOK, units # <<>>, NEW id \in Ident, UseIdent(id)
    PROVE  /\ UnitsGrow
           /\ \A k \in 1 .. Len(units) :
                /\ units'[k].binds = units[k].binds
                /\ units'[k].uses \subseteq units[k].uses \cup {id}
                /\ k # Len(units) => units'[k] = units[k]
<1>1. /\ units \in Seq(Unit) /\ Len(units) \in 1 .. Len(units)
      /\ units[Len(units)] \in Unit
    BY NonEmptyFacts DEF TypeOK
<1> DEFINE u == [units[Len(units)] EXCEPT !.uses = @ \cup {id}]
<1>2. /\ u \in Unit /\ u.uses = units[Len(units)].uses \cup {id}
      /\ u.binds = units[Len(units)].binds
    BY <1>1 DEF Unit
<1>3. units' = [units EXCEPT ![Len(units)] = u]
    BY DEF UseIdent
<1> HIDE DEF u
<1>4. /\ units' \in Seq(Unit) /\ Len(units') = Len(units)
      /\ units'[Len(units)] = u
      /\ \A k \in 1 .. Len(units) : k # Len(units) => units'[k] = units[k]
    BY <1>1, <1>2, <1>3, ReplaceFacts
<1> QED
    BY <1>1, <1>2, <1>4 DEF UnitsGrow

LEMMA AutoFacts ==
    ASSUME NEW n \in 0 .. MaxIdent
    PROVE  AutoIdent(n) \in Ident /\ AutoIdent(n).isAuto /\ AutoIdent(n).data = n
<1>1. n \in Nat
    BY ScopesAssumption
<1>2. AutoIdent(n) \in Ident
    BY <1>1 DEF AutoIdent, Ident
<1>3. AutoIdent(n).isAuto
    BY Zenon DEF AutoIdent
<1>4. AutoIdent(n).data = n
    BY DEF AutoIdent
<1> QED
    BY <1>2, <1>3, <1>4

LEMMA TextFacts ==
    ASSUME NEW name \in Name
    PROVE  TextIdent(name) \in Ident /\ ~TextIdent(name).isAuto
<1>1. TextIdent(name) \in Ident
    BY DEF TextIdent, Ident
<1>2. ~TextIdent(name).isAuto
    BY Zenon DEF TextIdent
<1> QED
    BY <1>1, <1>2

\* declare puts one name into the innermost scope.
LEMMA DeclareFacts ==
    ASSUME TypeOK, scope \in DOMAIN scopes, NEW name \in Name, Declare(name)
    PROVE  /\ DeclaredIdent(name) \in Ident
           /\ identCount' \in 0 .. MaxIdent
           /\ DOMAIN scopes' = DOMAIN scopes
           /\ scopes' \in [DOMAIN scopes -> Scope]
           /\ \A s \in DOMAIN scopes : scopes'[s].parent = scopes[s].parent
           /\ \A s \in DOMAIN scopes, n \in Name :
                scopes'[s].vars[n] = IF s = scope /\ n = name THEN DeclaredIdent(name)
                                                              ELSE scopes[s].vars[n]
<1>1. DeclaredIdent(name) \in Ident
    BY AutoFacts, TextFacts DEF DeclaredIdent, TypeOK
<1>2. identCount' \in 0 .. MaxIdent
    BY ScopesAssumption DEF Declare, TypeOK
<1>3. scopes \in [DOMAIN scopes -> Scope] /\ scopes[scope] \in Scope
    BY DEF TypeOK
<1> DEFINE sc == [scopes[scope] EXCEPT !.vars = [@ EXCEPT ![name] = DeclaredIdent(name)]]
<1>4. /\ sc \in Scope /\ sc.parent = scopes[scope].parent
      /\ \A n \in Name : sc.vars[n] = IF n = name THEN DeclaredIdent(name)
                                                  ELSE scopes[scope].vars[n]
    BY <1>1, <1>3 DEF Scope
<1>5. scopes' = [scopes EXCEPT ![scope] = sc]
    BY DEF Declare
<1> HIDE DEF sc
<1> QED
    BY <1>1, <1>2, <1>3, <1>4, <1>5

-----------------------------------------------------------------------------
(* Which steps keep the shape. *)

\* A call keeps its shape while it, the call below it and its scope stay.
LEMMA FrameKept ==
    ASSUME TypeOK, NEW i \in 1 .. Len(frames), FrameShape(i),
           frames'[i] = frames[i],
           i > 1 => /\ frames'[i - 1].at = frames[i - 1].at
                    /\ frames'[i - 1].unit = frames[i - 1].unit
                    /\ frames'[i - 1].kind = frames[i - 1].kind \/ frames[i - 1].kind # "block",
           Len(units') \in Nat, frames[i].unit <= Len(units'),
           frames[i].kind \in Entering =>
                /\ frames[i].at \in DOMAIN scopes'
                /\ scopes'[frames[i].at].parent = scopes[frames[i].at].parent
    PROVE  FrameShape(i)'
    BY DEF FrameShape, Entering

\* Steps that leave the calls, the scopes and their names alone.
LEMMA StillShape ==
    ASSUME TypeOK, Shape, UNCHANGED <<scopes, frames>>, UnitsGrow
    PROVE  StackShape' /\ HeapShape' /\ VarsBound'
<1>1. Len(units) \in Nat /\ frames \in Seq(Frame)
    BY DEF TypeOK
<1>2. \A i \in 1 .. Len(frames) : FrameShape(i)'
    BY <1>1 DEF Shape, StackShape, FrameShape, UnitsGrow
<1>3. units = <<>> => units' = <<>>
    BY <1>1, EmptySeq DEF UnitsGrow
<1>4. StackShape'
    BY <1>1, <1>2, <1>3 DEF Shape, StackShape, UnitsGrow, Top
<1>5. HeapShape'
    BY DEF Shape, HeapShape
<1>6. VarsBound'
    <2>1. \A i \in 1 .. Len(frames) : frames[i].unit \in 1 .. Len(units)
        BY DEF Shape, StackShape, FrameShape
    <2> QED
        BY <2>1 DEF Shape, VarsBound, UnitsGrow
<1> QED
    BY <1>4, <1>5, <1>6

\* Declaring a name in the innermost scope, for the unit on top.
LEMMA DeclareKeepsHeap ==
    ASSUME TypeOK, Shape, scope = Inner, NEW name \in Name, Declare(name)
    PROVE  /\ Global \in DOMAIN scopes' /\ scopes'[Global].parent = NULL
           /\ DOMAIN scopes' = DOMAIN scopes
           /\ \A n \in Name : scopes'[Global].vars[n] # NULL => ~scopes'[Global].vars[n].isAuto
           /\ \A i \in 1 .. Len(frames), n \in Name :
                LET id == scopes'[frames[i].at].vars[n]
                IN  frames[i].kind \in Entering /\ id # NULL =>
                        \/ id \in units[frames[i].unit].binds
                        \/ frames[i].unit = Len(units) /\ id = DeclaredIdent(name)
<1>1. scope \in DOMAIN scopes
    BY InnerFacts DEF Shape
<1>2. /\ DOMAIN scopes' = DOMAIN scopes
      /\ \A s \in DOMAIN scopes : scopes'[s].parent = scopes[s].parent
      /\ \A s \in DOMAIN scopes, n \in Name :
            scopes'[s].vars[n] = IF s = scope /\ n = name THEN DeclaredIdent(name)
                                                          ELSE scopes[s].vars[n]
    BY <1>1, DeclareFacts
<1>3. Global \in DOMAIN scopes' /\ scopes'[Global].parent = NULL
    BY <1>2 DEF Shape, HeapShape
<1>4. ASSUME NEW n \in Name, scopes'[Global].vars[n] # NULL
      PROVE  ~scopes'[Global].vars[n].isAuto
    <2>1. CASE Global = scope /\ n = name
        <3>1. DeclaredIdent(name) = TextIdent(name)
            BY <1>1, <2>1, GlobalIff DEF Shape, DeclaredIdent
        <3> QED
            BY <1>2, <1>3, <2>1, <3>1, TextFacts
    <2>2. CASE ~(Global = scope /\ n = name)
        <3>1. scopes'[Global].vars[n] = scopes[Global].vars[n]
            BY <1>2, <1>3, <2>2
        <3> QED
            BY <1>4, <3>1 DEF Shape, VarsBound
    <2> QED
        BY <2>1, <2>2
<1>5. ASSUME NEW i \in 1 .. Len(frames), NEW n \in Name,
             frames[i].kind \in Entering, scopes'[frames[i].at].vars[n] # NULL
      PROVE  \/ scopes'[frames[i].at].vars[n] \in units[frames[i].unit].binds
             \/ /\ frames[i].unit = Len(units)
                /\ scopes'[frames[i].at].vars[n] = DeclaredIdent(name)
    <2>1. frames[i].at \in DOMAIN scopes \ {Global}
        BY <1>5, EnteringFacts DEF Shape
    <2>2. CASE frames[i].at = scope /\ n = name
        <3>1. frames # <<>> /\ Top.at = frames[i].at /\ Len(frames) \in 1 .. Len(frames)
            BY <2>1, <2>2, TopFacts DEF Inner
        <3>2. PICK j \in 1 .. Len(frames) :
                /\ frames[j].kind \in Entering
                /\ frames[j].at = frames[i].at
                /\ frames[j].unit = Top.unit
            BY <2>1, <3>1, EnteredAt DEF Shape, Top
        <3>3. i = j
            BY <1>5, <3>2 DEF Shape, StackShape
        <3>4. frames[i].unit = Len(units)
            BY <3>1, <3>2, <3>3 DEF Shape, StackShape
        <3> QED
            BY <1>2, <2>1, <2>2, <3>4
    <2>3. CASE ~(frames[i].at = scope /\ n = name)
        <3>1. scopes'[frames[i].at].vars[n] = scopes[frames[i].at].vars[n]
            BY <1>2, <2>1, <2>3
        <3> QED
            BY <1>5, <3>1 DEF Shape, VarsBound
    <2> QED
        BY <2>2, <2>3
<1> QED
    BY <1>2, <1>3, <1>4, <1>5

\* A new call on top.
LEMMA PushKeepsStack ==
    ASSUME TypeOK, StackShape, HeapShape, NEW f \in Frame, Pushed(f),
           units' \in Seq(Unit), Len(units) <= Len(units'), f.unit = Len(units'),
           NEW n \in Nat, n = Len(frames) + 1, FrameShape(n)',
           f.kind \in Entering => f.at \notin DOMAIN scopes,
           \A s \in DOMAIN scopes :
                s \in DOMAIN scopes' /\ scopes'[s].parent = scopes[s].parent
    PROVE  StackShape'
<1>1. /\ Len(frames) \in Nat /\ Len(units) \in Nat /\ Len(units') \in Nat
      /\ Len(frames') = Len(frames) + 1 /\ frames' \in Seq(Frame)
      /\ \A i \in 1 .. Len(frames) : frames'[i] = frames[i]
      /\ frames'[Len(frames) + 1] = f
    BY DEF TypeOK, Pushed
<1>2. \A i \in 1 .. Len(frames) : frames[i].unit \in 1 .. Len(units)
    BY DEF StackShape, FrameShape
<1>3. ASSUME NEW i \in 1 .. Len(frames) PROVE FrameShape(i)'
    <2>1. frames'[i] = frames[i] /\ (i > 1 => frames'[i - 1] = frames[i - 1])
        BY <1>1
    <2>2. /\ frames[i].at \in DOMAIN scopes'
          /\ scopes'[frames[i].at].parent = scopes[frames[i].at].parent
        BY AtAlive
    <2>3. FrameShape(i)
        BY DEF StackShape
    <2>4. frames[i].unit <= Len(units')
        BY <1>1, <1>2
    <2> QED
        BY <1>1, <2>1, <2>2, <2>3, <2>4, FrameKept
<1>4. ASSUME NEW i \in 1 .. Len(frames') PROVE FrameShape(i)'
    <2>1. CASE i \in 1 .. Len(frames)
        BY <1>3, <2>1
    <2>2. CASE i = n
        BY <2>2
    <2> QED
        BY <1>1, <2>1, <2>2
<1>5. ASSUME NEW i \in 1 .. Len(frames'), NEW j \in 1 .. Len(frames'),
             frames'[i].kind \in Entering, frames'[j].kind \in Entering, i # j
      PROVE  frames'[i].at # frames'[j].at
    <2>1. CASE i \in 1 .. Len(frames) /\ j \in 1 .. Len(frames)
        BY <1>1, <1>5, <2>1 DEF StackShape
    <2>2. CASE i = Len(frames) + 1
        <3>1. j \in 1 .. Len(frames)
            BY <1>1, <1>5, <2>2
        <3> QED
            BY <1>1, <1>5, <2>2, <3>1, AtAlive
    <2>3. CASE j = Len(frames) + 1
        <3>1. i \in 1 .. Len(frames)
            BY <1>1, <1>5, <2>3
        <3> QED
            BY <1>1, <1>5, <2>3, <3>1, AtAlive
    <2> QED
        BY <1>1, <2>1, <2>2, <2>3
<1>6. ASSUME NEW i \in 1 .. Len(frames'), NEW j \in 1 .. Len(frames'), i <= j
      PROVE  frames'[i].unit <= frames'[j].unit
    <2>1. CASE j \in 1 .. Len(frames)
        BY <1>1, <1>6, <2>1 DEF StackShape
    <2>2. CASE j = Len(frames) + 1
        BY <1>1, <1>2, <1>6, <2>2
    <2> QED
        BY <1>1, <2>1, <2>2
<1>7. frames' # <<>> /\ Top' = f
    BY <1>1, EmptySeq DEF Top
<1> QED
    BY <1>4, <1>5, <1>6, <1>7 DEF StackShape

\* The call on top returns.
LEMMA PopKeepsStack ==
    ASSUME TypeOK, StackShape, HeapShape, frames # <<>>, Popped,
           units' \in Seq(Unit),
           IF Len(frames) = 1 THEN units' = <<>>
                              ELSE frames[Len(frames) - 1].unit = Len(units'),
           \A s \in DOMAIN scopes :
                (Top.kind \in Entering => s # Top.at) =>
                    s \in DOMAIN scopes' /\ scopes'[s].parent = scopes[s].parent
    PROVE  StackShape'
<1>1. /\ Len(frames) \in Nat \ {0} /\ Len(units') \in Nat
      /\ Len(frames') = Len(frames) - 1 /\ frames' \in Seq(Frame)
      /\ \A i \in 1 .. Len(frames') : frames'[i] = frames[i] /\ i \in 1 .. Len(frames) - 1
    BY DEF Popped
<1>2. ASSUME NEW i \in 1 .. Len(frames') PROVE FrameShape(i)'
    <2>1. i > 1 => frames'[i - 1] = frames[i - 1]
        BY <1>1
    <2>2. frames[i].unit <= Len(units')
        <3> DEFINE m == Len(frames) - 1
        <3>1. i \in 1 .. Len(frames) /\ m \in 1 .. Len(frames) /\ i <= m
            BY <1>1
        <3>2. frames[i].unit <= frames[m].unit
            BY <3>1 DEF StackShape
        <3> QED
            BY <1>1, <3>1, <3>2
    <2>3. frames[i].kind \in Entering =>
            /\ frames[i].at \in DOMAIN scopes'
            /\ scopes'[frames[i].at].parent = scopes[frames[i].at].parent
        <3>1. SUFFICES ASSUME frames[i].kind \in Entering
                       PROVE  /\ frames[i].at \in DOMAIN scopes'
                              /\ scopes'[frames[i].at].parent = scopes[frames[i].at].parent
            OBVIOUS
        <3>2. Top.kind \in Entering => frames[i].at # Top.at
            BY <1>1, <3>1 DEF StackShape, Top
        <3> QED
            BY <1>1, <3>2, AtAlive
    <2>4. FrameShape(i) /\ i \in 1 .. Len(frames) /\ frames'[i] = frames[i]
        BY <1>1 DEF StackShape
    <2> QED
        BY <1>1, <2>1, <2>2, <2>3, <2>4, FrameKept
<1>3. frames' # <<>> => Top'.unit = Len(units') /\ Len(frames) # 1
    <2>1. SUFFICES ASSUME frames' # <<>> PROVE Top'.unit = Len(units') /\ Len(frames) # 1
        OBVIOUS
    <2>2. Len(frames') \in Nat \ {0}
        BY <1>1, <2>1, EmptySeq
    <2> QED
        BY <1>1, <2>2 DEF Top
<1>4. frames' = <<>> => units' = <<>>
    BY <1>1
<1>5. ASSUME NEW i \in 1 .. Len(frames'), NEW j \in 1 .. Len(frames')
      PROVE  /\ i \in 1 .. Len(frames) /\ j \in 1 .. Len(frames)
             /\ frames'[i] = frames[i] /\ frames'[j] = frames[j]
    BY <1>1
<1>6. \A i, j \in 1 .. Len(frames') :
        /\ frames'[i].kind \in Entering /\ frames'[j].kind \in Entering /\ i # j =>
                frames'[i].at # frames'[j].at
        /\ i <= j => frames'[i].unit <= frames'[j].unit
    BY <1>5 DEF StackShape
<1> QED
    BY <1>2, <1>3, <1>4, <1>5, <1>6 DEF StackShape

-----------------------------------------------------------------------------
(* One lemma per action. *)

LEMMA ClosedKept ==
    ASSUME UnitsClosed, LiftedClosed, UNCHANGED <<declarations, units>>
    PROVE  UnitsClosed' /\ LiftedClosed'
    BY DEF UnitsClosed, LiftedClosed, Names

LEMMA RunningShape ==
    ASSUME IInv, status = "run"
    PROVE  TypeOK /\ Shape /\ StackShape /\ HeapShape /\ LoopShape /\ VarsBound
    BY DEF IInv, Shape

LEMMA InitKeeps == Init => IInv
<1> SUFFICES ASSUME Init PROVE IInv
    OBVIOUS
<1>1. Len(frames) = 0 /\ Len(units) = 0 /\ Len(declarations) = 0
    BY EmptySeq DEF Init
<1>2. TypeOK
    BY EmptySeq, ScopesAssumption DEF Init, TypeOK, Scope, NoVars
<1>3. StackShape /\ HeapShape /\ LoopShape
    BY <1>1, ScopesAssumption DEF Init, StackShape, HeapShape, LoopShape, Inner
<1>4. VarsBound /\ UnitsClosed /\ LiftedClosed
    BY <1>1 DEF Init, VarsBound, UnitsClosed, LiftedClosed, NoVars
<1> QED
    BY <1>2, <1>3, <1>4 DEF IInv, Init

LEMMA FatalKeeps ==
    ASSUME IInv, status = "run", Fatal
    PROVE  IInv'
<1>1. TypeOK'
    BY DEF IInv, TypeOK, Fatal
<1>2. UnitsGrow
    BY DEF Fatal, UnitsGrow, IInv, TypeOK
<1>3. StackShape' /\ HeapShape' /\ VarsBound'
    BY <1>2, RunningShape, StillShape DEF Fatal
<1>4. LoopShape'
    BY RunningShape DEF Fatal, LoopShape, Inner, Top, Reached
<1> QED
    BY <1>1, <1>3, <1>4, ClosedKept DEF IInv, Fatal

LEMMA StartLookupKeeps ==
    ASSUME IInv, NEW name \in Name, StartLookup(name)
    PROVE  IInv'
<1>1. TypeOK /\ Shape /\ StackShape /\ HeapShape /\ LoopShape
    BY RunningShape DEF StartLookup, InTerm, In, Parsing
<1>2. scope = Inner /\ frames # <<>> /\ oldScope = NULL
    BY <1>1 DEF StartLookup, InTerm, In, Parsing, LoopShape
<1>3. TypeOK'
    BY <1>1, <1>2, InnerFacts DEF TypeOK, StartLookup
<1>4. StackShape' /\ HeapShape' /\ VarsBound'
    BY <1>1, StillShape DEF StartLookup, UnitsGrow, TypeOK
<1>5. LoopShape'
    BY <1>1, <1>2, InnerFacts DEF StartLookup, LoopShape, Inner, Top, Reached
<1> QED
    BY <1>3, <1>4, <1>5, ClosedKept DEF IInv, StartLookup, InTerm, In, Parsing

LEMMA LookupStepKeeps ==
    ASSUME IInv, LookupStep
    PROVE  IInv'
<1>1. TypeOK /\ Shape /\ StackShape /\ HeapShape /\ LoopShape /\ status = "run"
    BY RunningShape DEF LookupStep, LookingUp
<1>2. Reached(current) /\ current \in DOMAIN scopes
    BY <1>1, ReachedAlive DEF LookupStep, LookingUp, LoopShape
<1>3. current' = NULL \/ Reached(current')
    <2>1. CASE current = Global
        BY <1>1, <2>1 DEF HeapShape, LookupStep
    <2>2. CASE current # Global
        BY <1>1, <1>2, <2>2, ParentReached DEF LookupStep
    <2> QED
        BY <2>1, <2>2
<1>4. TypeOK'
    BY <1>1, <1>2 DEF TypeOK, LookupStep, Scope
<1>5. StackShape' /\ HeapShape' /\ VarsBound'
    BY <1>1, StillShape DEF LookupStep, UnitsGrow, TypeOK
<1>6. LoopShape'
    BY <1>1, <1>3 DEF LookupStep, LookingUp, LoopShape, Inner, Top, Reached
<1> QED
    BY <1>4, <1>5, <1>6, ClosedKept DEF IInv, LookupStep, LookingUp

LEMMA StartLambdaKeeps ==
    ASSUME IInv, StartLambda
    PROVE  IInv'
<1>1. TypeOK /\ Shape /\ StackShape /\ HeapShape /\ LoopShape
    BY RunningShape DEF StartLambda, InTerm, In, Parsing
<1>2. scope = Inner /\ frames # <<>> /\ current = NULL /\ Reached(scope)
    BY <1>1, InnerFacts DEF StartLambda, InTerm, In, Parsing, LoopShape
<1>3. TypeOK'
    BY <1>1, <1>2, InnerFacts DEF TypeOK, StartLambda
<1>4. StackShape' /\ HeapShape' /\ VarsBound'
    BY <1>1, StillShape DEF StartLambda, UnitsGrow, TypeOK
<1>5. LoopShape'
    BY <1>1, <1>2 DEF StartLambda, LoopShape, Inner, Top, Reached
<1> QED
    BY <1>3, <1>4, <1>5, ClosedKept DEF IInv, StartLambda, InTerm, In, Parsing

LEMMA ClimbKeeps ==
    ASSUME IInv, Climb
    PROVE  IInv'
<1>1. TypeOK /\ Shape /\ StackShape /\ HeapShape /\ LoopShape /\ status = "run"
    BY RunningShape DEF Climb, Climbing
<1>2. Reached(scope) /\ scope \in DOMAIN scopes
    BY <1>1, ReachedAlive DEF Climb, Climbing, LoopShape
<1>3. Reached(scope')
    BY <1>1, <1>2, GlobalIff, ParentReached DEF Climb
<1>4. TypeOK'
    BY <1>1, <1>2 DEF TypeOK, Climb, Scope
<1>5. StackShape' /\ HeapShape' /\ VarsBound'
    BY <1>1, StillShape DEF Climb, UnitsGrow, TypeOK
<1>6. LoopShape'
    BY <1>1, <1>3 DEF Climb, Climbing, LoopShape, Inner, Top, Reached
<1> QED
    BY <1>4, <1>5, <1>6, ClosedKept DEF IInv, Climb, Climbing

LEMMA LookupFoundKeeps ==
    ASSUME IInv, LookupFound
    PROVE  IInv'
<1>1. /\ TypeOK /\ Shape /\ StackShape /\ HeapShape /\ LoopShape /\ VarsBound
      /\ status = "run" /\ UnitsClosed /\ LiftedClosed
    BY RunningShape DEF LookupFound, LookingUp, IInv
<1>2. /\ Reached(current) /\ current \in DOMAIN scopes /\ wanted \in Name
      /\ frames # <<>> /\ oldScope = NULL /\ scope = Inner
    BY <1>1, ReachedAlive DEF LookupFound, LookingUp, LoopShape
<1> DEFINE id == scopes[current].vars[wanted]
<1>3. id \in Ident /\ id # NULL
    BY <1>1, <1>2 DEF LookupFound, TypeOK, Scope
<1>4. units # <<>> /\ Len(units) \in 1 .. Len(units)
    <2>1. Len(frames) \in 1 .. Len(frames)
        BY <1>1, <1>2, TopFacts
    <2> QED
        BY <1>1, <2>1 DEF StackShape, FrameShape
<1>5. id.isAuto => id \in units[Len(units)].binds
    <2>1. CASE current = Global
        BY <1>1, <1>2, <1>3, <2>1 DEF VarsBound
    <2>2. CASE current # Global
        <3>1. PICK i \in 1 .. Len(frames) :
                /\ frames[i].kind \in Entering
                /\ frames[i].at = current
                /\ frames[i].unit = Len(units)
            BY <1>1, <1>2, <2>2, EnteredAt DEF Reached
        <3> QED
            BY <1>1, <1>2, <1>3, <3>1 DEF VarsBound
    <2> QED
        BY <2>1, <2>2
<1>6. UseIdent(id)
    BY DEF LookupFound
<1> HIDE DEF id
<1>7. /\ UnitsGrow
      /\ \A k \in 1 .. Len(units) :
            /\ units'[k].binds = units[k].binds
            /\ units'[k].uses \subseteq units[k].uses \cup {id}
            /\ k # Len(units) => units'[k] = units[k]
    BY <1>1, <1>3, <1>4, <1>6, UseFacts
<1>8. TypeOK'
    BY <1>1, <1>7 DEF TypeOK, LookupFound, UnitsGrow
<1>9. StackShape' /\ HeapShape' /\ VarsBound'
    BY <1>1, <1>7, StillShape DEF LookupFound
<1>10. LoopShape'
    BY <1>1, <1>2 DEF LookupFound, LoopShape, Inner, Top
<1>11. UnitsClosed'
    <2>1. SUFFICES ASSUME NEW k \in 1 .. Len(units)
                   PROVE  Autos(units'[k].uses) \subseteq units'[k].binds \cup Names
        BY <1>7 DEF UnitsClosed, UnitsGrow, Names, LookupFound
    <2>2. Autos(units[k].uses) \subseteq units[k].binds \cup Names
        BY <1>1 DEF UnitsClosed
    <2>3. CASE k = Len(units)
        BY <1>5, <1>7, <2>2, <2>3 DEF Autos
    <2>4. CASE k # Len(units)
        BY <1>7, <2>2, <2>4
    <2> QED
        BY <2>3, <2>4
<1>12. LiftedClosed'
    BY <1>1 DEF LiftedClosed, LookupFound
<1> QED
    BY <1>1, <1>8, <1>9, <1>10, <1>11, <1>12 DEF IInv, LookupFound

\* While no declaration is emitted, a unit may bind more and use the same.
LEMMA ClosedGrows ==
    ASSUME TypeOK, UnitsClosed, LiftedClosed, UNCHANGED declarations, UnitsGrow,
           \A k \in 1 .. Len(units) : units'[k].uses = units[k].uses
    PROVE  UnitsClosed' /\ LiftedClosed'
<1>1. LiftedClosed'
    BY DEF LiftedClosed
<1>2. ASSUME NEW k \in 1 .. Len(units)
      PROVE  Autos(units'[k].uses) \subseteq units'[k].binds \cup Names
    BY <1>2 DEF UnitsClosed, UnitsGrow
<1> QED
    BY <1>1, <1>2 DEF UnitsClosed, UnitsGrow, Names

LEMMA InRunning ==
    ASSUME IInv, NEW kinds, In(kinds)
    PROVE  /\ TypeOK /\ Shape /\ StackShape /\ HeapShape /\ LoopShape /\ VarsBound
           /\ UnitsClosed /\ LiftedClosed
           /\ status = "run" /\ pc = "parse" /\ frames # <<>>
           /\ current = NULL /\ oldScope = NULL
           /\ scope = Inner /\ scope = Top.at /\ scope \in DOMAIN scopes
           /\ Top \in Frame /\ Top = frames[Len(frames)] /\ Top.kind \in kinds
           /\ Len(frames) \in Nat \ {0} /\ Len(frames) \in 1 .. Len(frames)
           /\ Len(units) \in Nat \ {0} /\ Len(units) \in 1 .. Len(units) /\ units # <<>>
           /\ Top.unit = Len(units)
           /\ FrameShape(Len(frames))
<1>1. /\ TypeOK /\ Shape /\ StackShape /\ HeapShape /\ LoopShape /\ VarsBound
      /\ UnitsClosed /\ LiftedClosed
      /\ status = "run" /\ pc = "parse" /\ frames # <<>> /\ Top.kind \in kinds
    BY RunningShape DEF In, Parsing, IInv
<1>2. /\ current = NULL /\ oldScope = NULL /\ scope = Inner /\ scope \in DOMAIN scopes
      /\ scope = Top.at
    BY <1>1, InnerFacts DEF LoopShape, Inner
<1>3. /\ Top \in Frame /\ Top = frames[Len(frames)]
      /\ Len(frames) \in Nat \ {0} /\ Len(frames) \in 1 .. Len(frames)
    BY <1>1, TopFacts
<1>4. FrameShape(Len(frames)) /\ Top.unit = Len(units)
    BY <1>1, <1>3 DEF StackShape
<1>5. Len(units) \in Nat \ {0} /\ Len(units) \in 1 .. Len(units) /\ units # <<>>
    BY <1>1, <1>3, <1>4, EmptySeq DEF FrameShape, TypeOK
<1> QED
    BY <1>1, <1>2, <1>3, <1>4, <1>5

LEMMA FinishLocalKeeps ==
    ASSUME IInv, FinishLocal
    PROVE  IInv'
<1> USE InRunning DEF FinishLocal
<1>1. TypeOK /\ Popped
    BY PopFrame
<1>2. TypeOK'
    BY <1>1 DEF TypeOK, Popped
<1> DEFINE m == Len(frames) - 1
<1>3. /\ m \in 1 .. Len(frames) /\ m = Len(frames') /\ frames'[m] = frames[m]
      /\ frames[m].at = Top.at /\ frames[m].unit = Len(units)
    BY <1>1 DEF FrameShape, Popped
<1>4. StackShape'
    BY <1>1, <1>3, PopKeepsStack DEF TypeOK
<1>5. Inner' = scope
    BY <1>1, <1>3, EmptySeq DEF Inner, Top
<1>6. LoopShape'
    BY <1>5 DEF LoopShape
<1>7. HeapShape'
    <2>1. ASSUME NEW i \in 1 .. Len(frames), frames[i].kind \in Entering
          PROVE  i \in 1 .. Len(frames') /\ frames'[i] = frames[i]
        BY <1>1, <2>1 DEF Popped, Entering
    <2> QED
        BY <2>1 DEF HeapShape
<1>8. VarsBound'
    BY <1>1 DEF VarsBound, Popped
<1> QED
    BY <1>2, <1>4, <1>6, <1>7, <1>8, ClosedKept DEF IInv

LEMMA StartGlobalKeeps ==
    ASSUME IInv, NEW kind \in {"global", "funHeader"}, NEW name \in Name,
           StartGlobal(kind, name)
    PROVE  IInv'
<1>1. /\ TypeOK /\ Shape /\ StackShape /\ HeapShape /\ LoopShape /\ VarsBound
      /\ UnitsClosed /\ LiftedClosed
      /\ status = "run" /\ pc = "parse" /\ frames = <<>> /\ units = <<>>
    BY RunningShape DEF StartGlobal, Parsing, IInv, StackShape
<1>2. scope = Inner /\ scope = Global /\ scope \in DOMAIN scopes /\ Declare(name)
    BY <1>1, InnerFacts DEF StartGlobal, LoopShape, Inner
<1>3. /\ DeclaredIdent(name) \in Ident
      /\ identCount' \in 0 .. MaxIdent
      /\ DOMAIN scopes' = DOMAIN scopes
      /\ scopes' \in [DOMAIN scopes -> Scope]
      /\ \A s \in DOMAIN scopes : scopes'[s].parent = scopes[s].parent
    BY <1>1, <1>2, DeclareFacts
<1> DEFINE f == [kind |-> kind, at |-> scope, unit |-> 1, old |-> NULL]
           u == NewUnit(DeclaredIdent(name))
<1>4. Pushed(f) /\ f \in Frame
    BY <1>1, <1>2, PushFacts DEF StartGlobal, TypeOK, Kind, Frame
<1>5. u \in Unit /\ u.uses = {}
    BY <1>3 DEF NewUnit, Unit
<1>6. units' \in Seq(Unit) /\ Len(units') = 1 /\ units'[1] = u /\ Len(units) = 0 /\ Len(frames) = 0
    BY <1>1, <1>5, EmptySeq DEF StartGlobal
<1>7. TypeOK'
    BY <1>1, <1>3, <1>4, <1>6 DEF TypeOK, StartGlobal, Pushed
<1>8. frames' \in Seq(Frame) /\ Len(frames') = 1 /\ frames'[1] = f
    BY <1>4, <1>6 DEF Pushed
<1>9. StackShape'
    <2>1. \A i \in 1 .. Len(frames') : FrameShape(i)'
        BY <1>2, <1>6, <1>8 DEF FrameShape
    <2> QED
        BY <1>6, <1>8, <2>1, EmptySeq DEF StackShape, Top
<1>10. HeapShape'
    BY <1>1, <1>3, <1>6 DEF HeapShape
<1>11. LoopShape'
    BY <1>1, <1>2, <1>8, EmptySeq DEF LoopShape, Inner, Top, StartGlobal
<1>12. VarsBound'
    <2>1. \A n \in Name : scopes'[Global].vars[n] # NULL => ~scopes'[Global].vars[n].isAuto
        BY <1>1, <1>2, DeclareKeepsHeap
    <2> QED
        BY <1>8, <2>1 DEF VarsBound, Entering
<1>13. UnitsClosed' /\ LiftedClosed'
    BY <1>1, <1>5, <1>6 DEF UnitsClosed, LiftedClosed, StartGlobal, Autos
<1> QED
    BY <1>1, <1>7, <1>9, <1>10, <1>11, <1>12, <1>13 DEF IInv, StartGlobal

\* The unit on top binds the name that a block or a lambda's header declares.
LEMMA VarsBoundWhenDeclared ==
    ASSUME TypeOK, Shape, scope = Inner, units # <<>>, NEW name \in Name, Declare(name),
           Bind({DeclaredIdent(name)}),
           \A i \in 1 .. Len(frames') :
                frames'[i].kind \in Entering =>
                    /\ i \in 1 .. Len(frames) /\ frames[i].kind \in Entering
                    /\ frames'[i].at = frames[i].at /\ frames'[i].unit = frames[i].unit
    PROVE  VarsBound'
<1>1. /\ UnitsGrow
      /\ units'[Len(units)].binds = units[Len(units)].binds \cup {DeclaredIdent(name)}
    BY InnerFacts, DeclareFacts, BindFacts DEF Shape
<1>2. ASSUME NEW i \in 1 .. Len(frames'), NEW n \in Name,
             frames'[i].kind \in Entering, scopes'[frames'[i].at].vars[n] # NULL
      PROVE  scopes'[frames'[i].at].vars[n] \in units'[frames'[i].unit].binds
    <2>1. /\ i \in 1 .. Len(frames) /\ frames[i].kind \in Entering
          /\ frames'[i].at = frames[i].at /\ frames'[i].unit = frames[i].unit
          /\ frames[i].unit \in 1 .. Len(units)
        BY <1>2 DEF Shape, StackShape, FrameShape
    <2>2. \/ scopes'[frames[i].at].vars[n] \in units[frames[i].unit].binds
          \/ /\ frames[i].unit = Len(units)
             /\ scopes'[frames[i].at].vars[n] = DeclaredIdent(name)
        BY <1>2, <2>1, DeclareKeepsHeap
    <2> QED
        BY <1>1, <2>1, <2>2 DEF UnitsGrow
<1> QED
    BY <1>2, DeclareKeepsHeap DEF VarsBound

LEMMA StartLocalKeeps ==
    ASSUME IInv, NEW name \in Name, StartLocal(name)
    PROVE  IInv'
<1> USE InRunning DEF StartLocal
<1>1. /\ TypeOK /\ Shape /\ Declare(name) /\ Bind({DeclaredIdent(name)})
      /\ Top.kind = "block" /\ scope \in ScopeId
    BY DEF TypeOK
<1>2. /\ DeclaredIdent(name) \in Ident
      /\ identCount' \in 0 .. MaxIdent
      /\ DOMAIN scopes' = DOMAIN scopes
      /\ scopes' \in [DOMAIN scopes -> Scope]
      /\ \A s \in DOMAIN scopes : scopes'[s].parent = scopes[s].parent
    BY <1>1, DeclareFacts
<1> DEFINE f == [kind |-> "local", at |-> scope, unit |-> Len(units), old |-> NULL]
<1>3. Pushed(f) /\ f \in Frame
    BY <1>1, PushFacts DEF Kind, Frame
<1>4. UnitsGrow /\ \A k \in 1 .. Len(units) : units'[k].uses = units[k].uses
    BY <1>1, <1>2, BindFacts
<1>5. TypeOK'
    BY <1>1, <1>2, <1>3, <1>4 DEF TypeOK, Pushed, UnitsGrow
<1>6. PICK n \in Nat : n = Len(frames) + 1
    OBVIOUS
<1>7. /\ Len(frames') = n /\ frames'[n] = f /\ n - 1 = Len(frames) /\ n > 1
      /\ frames'[n - 1] = Top /\ Len(units') = Len(units)
      /\ units' \in Seq(Unit)
    BY <1>3, <1>4, <1>6 DEF Pushed, UnitsGrow
<1>12. FrameShape(n)'
    BY <1>1, <1>6, <1>7 DEF FrameShape
<1>8. StackShape'
    BY <1>1, <1>2, <1>3, <1>6, <1>7, <1>12, PushKeepsStack DEF Entering
<1>9. HeapShape'
    <2>1. /\ HeapShape
          /\ \A i \in 1 .. Len(frames) : i \in 1 .. Len(frames') /\ frames'[i] = frames[i]
        BY <1>3 DEF Pushed
    <2> QED
        BY <1>2, <2>1 DEF HeapShape
<1>10. LoopShape'
    BY <1>3, <1>6, <1>7, EmptySeq DEF LoopShape, Inner, Top, Pushed
<1>11. VarsBound'
    <2>1. ASSUME NEW i \in 1 .. Len(frames'), frames'[i].kind \in Entering
          PROVE  i \in 1 .. Len(frames) /\ frames'[i] = frames[i]
        BY <1>3, <1>6, <1>7, <2>1 DEF Pushed, Entering
    <2> QED
        BY <1>1, <2>1, VarsBoundWhenDeclared
<1> QED
    BY <1>4, <1>5, <1>8, <1>9, <1>10, <1>11, ClosedGrows DEF IInv

LEMMA DeclareFormalKeeps ==
    ASSUME IInv, NEW name \in Name, DeclareFormal(name)
    PROVE  IInv'
<1> USE InRunning DEF DeclareFormal
<1>1. TypeOK /\ Shape /\ Declare(name) /\ Bind({DeclaredIdent(name)})
    OBVIOUS
<1>2. /\ DeclaredIdent(name) \in Ident
      /\ identCount' \in 0 .. MaxIdent
      /\ DOMAIN scopes' = DOMAIN scopes
      /\ scopes' \in [DOMAIN scopes -> Scope]
      /\ \A s \in DOMAIN scopes : scopes'[s].parent = scopes[s].parent
    BY <1>1, DeclareFacts
<1>3. UnitsGrow /\ \A k \in 1 .. Len(units) : units'[k].uses = units[k].uses
    BY <1>1, <1>2, BindFacts
<1>4. TypeOK'
    BY <1>1, <1>2, <1>3 DEF TypeOK, UnitsGrow
<1>5. ASSUME NEW i \in 1 .. Len(frames) PROVE FrameShape(i)'
    <2>1. /\ FrameShape(i) /\ frames[i].unit <= Len(units') /\ Len(units') \in Nat
          /\ frames' = frames
        BY <1>3 DEF StackShape, FrameShape, UnitsGrow
    <2>2. frames[i].at \in DOMAIN scopes
        BY AtAlive
    <2> QED
        BY <1>1, <1>2, <2>1, <2>2, FrameKept
<1>6. StackShape'
    BY <1>3, <1>5 DEF StackShape, UnitsGrow, Top
<1>7. HeapShape'
    BY <1>2 DEF HeapShape
<1>8. LoopShape'
    BY DEF LoopShape, Inner, Top
<1>9. VarsBound'
    BY <1>1, VarsBoundWhenDeclared
<1> QED
    BY <1>3, <1>4, <1>6, <1>7, <1>8, <1>9, ClosedGrows DEF IInv

-----------------------------------------------------------------------------
(* Entering and leaving scopes. *)

LEMMA EnterFacts ==
    ASSUME TypeOK, NEW s, NEW parent \in ScopeId,
           NEW itsVars \in [Name -> Ident \cup {NULL}], EnterScope(s, parent, itsVars)
    PROVE  /\ s \in ScopeId /\ s \notin DOMAIN scopes /\ scope' = s
           /\ DOMAIN scopes' = DOMAIN scopes \cup {s}
           /\ DOMAIN scopes' \subseteq ScopeId
           /\ scopes' \in [DOMAIN scopes' -> Scope]
           /\ scopes'[s].parent = parent /\ scopes'[s].vars = itsVars
           /\ \A t \in DOMAIN scopes : scopes'[t] = scopes[t]
<1>1. s \in ScopeId /\ s \notin DOMAIN scopes /\ scope' = s /\ scopes' = Entered(s, parent, itsVars)
    BY DEF EnterScope
<1> DEFINE sc == [parent |-> parent, vars |-> itsVars]
<1>2. sc \in Scope /\ sc.parent = parent /\ sc.vars = itsVars
    BY DEF Scope
<1>3. scopes' = [t \in DOMAIN scopes \cup {s} |-> IF t = s THEN sc ELSE scopes[t]]
    BY <1>1 DEF Entered
<1>4. DOMAIN scopes \subseteq ScopeId /\ scopes \in [DOMAIN scopes -> Scope]
    BY DEF TypeOK
<1> HIDE DEF sc
<1> QED
    BY <1>1, <1>2, <1>3, <1>4

LEMMA LeaveFacts ==
    ASSUME TypeOK, NEW s, scopes' = Left(s)
    PROVE  /\ DOMAIN scopes' = DOMAIN scopes \ {s}
           /\ DOMAIN scopes' \subseteq ScopeId
           /\ scopes' \in [DOMAIN scopes' -> Scope]
           /\ \A t \in DOMAIN scopes \ {s} : scopes'[t] = scopes[t]
    BY DEF TypeOK, Left

\* The new call on top has entered the new scope, and its unit binds what the
\* scope starts with.
LEMMA EnterKeepsHeap ==
    ASSUME TypeOK, Shape, NEW s, NEW parent \in ScopeId,
           NEW itsVars \in [Name -> Ident \cup {NULL}], EnterScope(s, parent, itsVars),
           NEW n \in Nat, n = Len(frames) + 1, Len(frames') = n,
           frames'[n].kind \in Entering, frames'[n].at = s,
           \A i \in 1 .. Len(frames) :
                /\ frames'[i].at = frames[i].at /\ frames'[i].unit = frames[i].unit
                /\ frames'[i].kind \in Entering <=> frames[i].kind \in Entering,
           \A k \in 1 .. Len(units) : units[k].binds \subseteq units'[k].binds,
           \A name \in Name : itsVars[name] # NULL =>
                itsVars[name] \in units'[frames'[n].unit].binds
    PROVE  HeapShape' /\ VarsBound'
<1>1. /\ s \notin DOMAIN scopes /\ DOMAIN scopes' = DOMAIN scopes \cup {s}
      /\ scopes'[s].vars = itsVars
      /\ \A t \in DOMAIN scopes : scopes'[t] = scopes[t]
    BY EnterFacts
<1>2. Len(frames) \in Nat /\ \A i \in 1 .. Len(frames') : i \in 1 .. Len(frames) \/ i = n
    BY DEF TypeOK
<1>3. HeapShape'
    <2>1. Global \in DOMAIN scopes' /\ scopes'[Global].parent = NULL
        BY <1>1 DEF Shape, HeapShape
    <2>2. ASSUME NEW t \in DOMAIN scopes' \ {Global}
          PROVE  \E i \in 1 .. Len(frames') : frames'[i].kind \in Entering /\ frames'[i].at = t
        <3>1. CASE t = s
            <4>1. n \in 1 .. Len(frames')
                BY <1>2
            <4> QED
                BY <3>1, <4>1
        <3>2. CASE t # s
            <4>1. PICK i \in 1 .. Len(frames) : frames[i].kind \in Entering /\ frames[i].at = t
                BY <1>1, <2>2, <3>2 DEF Shape, HeapShape
            <4>2. i \in 1 .. Len(frames')
                BY <1>2
            <4> QED
                BY <4>1, <4>2
        <3> QED
            BY <3>1, <3>2
    <2> QED
        BY <2>1, <2>2 DEF HeapShape
<1>4. VarsBound'
    <2>1. ASSUME NEW i \in 1 .. Len(frames'), NEW name \in Name,
                 frames'[i].kind \in Entering, scopes'[frames'[i].at].vars[name] # NULL
          PROVE  scopes'[frames'[i].at].vars[name] \in units'[frames'[i].unit].binds
        <3>1. CASE i = n
            BY <1>1, <2>1, <3>1
        <3>2. CASE i \in 1 .. Len(frames)
            <4>1. /\ frames[i].at \in DOMAIN scopes
                  /\ frames[i].unit \in 1 .. Len(units)
                BY <3>2, AtAlive DEF Shape, StackShape, FrameShape
            <4>2. scopes[frames[i].at].vars[name] \in units[frames[i].unit].binds
                BY <1>1, <2>1, <3>2, <4>1 DEF Shape, VarsBound
            <4> QED
                BY <1>1, <3>2, <4>1, <4>2
        <3> QED
            BY <1>2, <3>1, <3>2
    <2>2. \A name \in Name : scopes'[Global].vars[name] # NULL => ~scopes'[Global].vars[name].isAuto
        BY <1>1 DEF Shape, VarsBound, HeapShape
    <2> QED
        BY <2>1, <2>2 DEF VarsBound
<1> QED
    BY <1>3, <1>4

LEMMA NoVarsFacts == NoVars \in [Name -> Ident \cup {NULL}] /\ \A name \in Name : NoVars[name] = NULL
    BY DEF NoVars

LEMMA EnterBlockKeeps ==
    ASSUME IInv, NEW s \in ScopeId, EnterBlock(s)
    PROVE  IInv'
<1> USE InRunning DEF EnterBlock, InTerm
<1>1. /\ TypeOK /\ Shape /\ EnterScope(s, scope, NoVars) /\ scope \in ScopeId
      /\ units' = units /\ units \in Seq(Unit)
    BY DEF TypeOK
<1>2. /\ s \in ScopeId /\ s \notin DOMAIN scopes /\ scope' = s
      /\ DOMAIN scopes' = DOMAIN scopes \cup {s}
      /\ DOMAIN scopes' \subseteq ScopeId
      /\ scopes' \in [DOMAIN scopes' -> Scope]
      /\ scopes'[s].parent = scope
      /\ \A t \in DOMAIN scopes : scopes'[t] = scopes[t]
    BY <1>1, EnterFacts, NoVarsFacts
<1> DEFINE f == [kind |-> "block", at |-> s, unit |-> Len(units), old |-> NULL]
<1>3. Pushed(f) /\ f \in Frame
    BY <1>1, PushFacts DEF Kind, Frame
<1>4. TypeOK'
    BY <1>1, <1>2, <1>3 DEF TypeOK, Pushed
<1>5. PICK n \in Nat : n = Len(frames) + 1
    OBVIOUS
<1>6. /\ Len(frames') = n /\ frames'[n] = f /\ n - 1 = Len(frames) /\ n > 1
      /\ frames'[n - 1] = Top
    BY <1>3, <1>5 DEF Pushed
<1>7. FrameShape(n)'
    BY <1>1, <1>2, <1>5, <1>6 DEF FrameShape, Shape, HeapShape
<1>8. StackShape'
    BY <1>1, <1>2, <1>3, <1>5, <1>6, <1>7, PushKeepsStack
<1>9. HeapShape' /\ VarsBound'
    <2>1. frames'[n].kind \in Entering /\ frames'[n].at = s
        BY <1>6 DEF Entering
    <2>2. \A i \in 1 .. Len(frames) : frames'[i] = frames[i]
        BY <1>3 DEF Pushed
    <2> QED
        BY <1>1, <1>5, <1>6, <2>1, <2>2, NoVarsFacts, EnterKeepsHeap
<1>10. LoopShape'
    BY <1>2, <1>6, EmptySeq DEF LoopShape, Inner, Top
<1> QED
    BY <1>4, <1>8, <1>9, <1>10, ClosedKept DEF IInv

\* The header of a function gives way to its body.
LEMMA BecomeKeeps ==
    ASSUME IInv, NEW header, NEW body, In({header}), Become(body),
           <<header, body>> \in {<<"funHeader", "fun">>, <<"lambdaHeader", "lambda">>},
           UNCHANGED <<scopes, scope, identCount, declarations, units,
                       pc, current, wanted, oldScope, status>>
    PROVE  IInv'
<1>1. /\ TypeOK /\ Shape /\ StackShape /\ HeapShape /\ LoopShape /\ VarsBound
      /\ UnitsClosed /\ LiftedClosed /\ status = "run" /\ frames # <<>> /\ scope = Top.at
      /\ Top = frames[Len(frames)] /\ Top.kind = header /\ Len(frames) \in 1 .. Len(frames)
      /\ current = NULL /\ oldScope = NULL /\ pc = "parse" /\ Top.unit = Len(units)
    BY InRunning
<1>20. frames \in Seq(Frame) /\ body \in Kind
    BY <1>1 DEF TypeOK, Kind
<1>2. Changed(body)
    BY <1>1, <1>20, BecomeFacts
<1>3. /\ frames' \in Seq(Frame) /\ Len(frames') = Len(frames)
      /\ \A i \in 1 .. Len(frames) :
            /\ frames'[i].at = frames[i].at /\ frames'[i].unit = frames[i].unit
            /\ frames'[i].old = frames[i].old
            /\ \/ frames'[i].kind = frames[i].kind
               \/ i = Len(frames) /\ frames[i].kind = header /\ frames'[i].kind = body
    <2>1. frames' \in Seq(Frame) /\ Len(frames') = Len(frames)
        BY <1>2 DEF Changed
    <2>2. ASSUME NEW i \in 1 .. Len(frames) - 1 PROVE frames'[i] = frames[i]
        BY <1>2 DEF Changed
    <2>3. PICK m \in 1 .. Len(frames) : m = Len(frames)
        BY <1>1
    <2>4. /\ frames'[m].at = frames[m].at /\ frames'[m].unit = frames[m].unit
          /\ frames'[m].old = frames[m].old /\ frames[m].kind = header
          /\ frames'[m].kind = body
        BY <1>1, <1>2, <2>3 DEF Changed
    <2>5. ASSUME NEW i \in 1 .. Len(frames)
          PROVE  /\ frames'[i].at = frames[i].at /\ frames'[i].unit = frames[i].unit
                 /\ frames'[i].old = frames[i].old
                 /\ \/ frames'[i].kind = frames[i].kind
                    \/ i = Len(frames) /\ frames[i].kind = header /\ frames'[i].kind = body
        <3>1. CASE i = m
            BY <2>3, <2>4, <3>1
        <3>2. CASE i # m
            <4>1. i \in 1 .. Len(frames) - 1
                BY <2>3, <3>2
            <4>2. frames'[i] = frames[i]
                BY <2>2, <4>1
            <4> QED
                BY <4>2
        <3> QED
            BY <3>1, <3>2
    <2> QED
        BY <2>1, <2>5
<1>4. \A i \in 1 .. Len(frames) : frames'[i].kind \in Entering <=> frames[i].kind \in Entering
    BY <1>1, <1>3 DEF Entering
<1>5. ASSUME NEW i \in 1 .. Len(frames) PROVE FrameShape(i)'
    <2>1. FrameShape(i)
        BY <1>1 DEF StackShape
    <2>2. i - 1 \in 1 .. Len(frames) \/ i = 1
        OBVIOUS
    <2>3. i > 1 => /\ frames'[i - 1].at = frames[i - 1].at
                   /\ frames'[i - 1].unit = frames[i - 1].unit
                   /\ frames'[i - 1].kind = frames[i - 1].kind
        BY <1>3, <2>2
    <2> QED
        BY <1>1, <1>3, <2>1, <2>3 DEF FrameShape
<1>6. TypeOK'
    BY <1>1, <1>3 DEF TypeOK
<1>7. frames' # <<>> /\ Top'.at = Top.at /\ Top'.unit = Top.unit
    BY <1>1, <1>2, <1>3, EmptySeq DEF Changed, Top
<1>8. StackShape'
    BY <1>1, <1>3, <1>4, <1>5, <1>7 DEF StackShape
<1>9. HeapShape'
    BY <1>1, <1>3, <1>4 DEF HeapShape
<1>10. VarsBound'
    BY <1>1, <1>3, <1>4 DEF VarsBound
<1>11. LoopShape'
    BY <1>1, <1>7 DEF LoopShape, Inner
<1> QED
    BY <1>1, <1>6, <1>8, <1>9, <1>10, <1>11, ClosedKept DEF IInv

LEMMA EnterEmptyBodyKeeps ==
    ASSUME IInv, EnterEmptyBody
    PROVE  IInv'
    BY BecomeKeeps DEF EnterEmptyBody

LEMMA BeginLambdaBodyKeeps ==
    ASSUME IInv, BeginLambdaBody
    PROVE  IInv'
    BY BecomeKeeps DEF BeginLambdaBody

\* A top-level function is the only call below its body.
LEMMA EnterBodyKeeps ==
    ASSUME IInv, NEW s \in ScopeId, EnterBody(s)
    PROVE  IInv'
<1> USE InRunning DEF EnterBody
<1>1. /\ TypeOK /\ Shape /\ EnterScope(s, scope, NoVars) /\ scope \in ScopeId
      /\ units' = units /\ units \in Seq(Unit) /\ frames \in Seq(Frame)
      /\ Top.kind = "funHeader"
    BY DEF TypeOK
<1>2. /\ s \in ScopeId /\ s \notin DOMAIN scopes /\ scope' = s
      /\ DOMAIN scopes' = DOMAIN scopes \cup {s}
      /\ DOMAIN scopes' \subseteq ScopeId
      /\ scopes' \in [DOMAIN scopes' -> Scope]
      /\ scopes'[s].parent = scope
      /\ \A t \in DOMAIN scopes : scopes'[t] = scopes[t]
    BY <1>1, EnterFacts, NoVarsFacts
<1>3. /\ Len(frames) = 1 /\ Top = frames[1] /\ Top.unit = 1 /\ Len(units) = 1
      /\ Top.at = Global /\ Top.old = NULL
    BY <1>1 DEF FrameShape
<1> DEFINE f == [kind |-> "block", at |-> s, unit |-> Len(units), old |-> NULL]
           h == [Top EXCEPT !.kind = "fun"]
<1>4. /\ f \in Frame /\ f.kind = "block" /\ f.at = s /\ f.unit = 1 /\ f.old = NULL
      /\ h \in Frame /\ h.kind = "fun" /\ h.at = Global /\ h.unit = 1 /\ h.old = NULL
    BY <1>1, <1>3 DEF Kind, Frame
<1>5. frames' = Append([frames EXCEPT ![1] = h], f)
    BY <1>1, <1>3 DEF Top
<1> HIDE DEF f, h
<1>6. /\ [frames EXCEPT ![1] = h] \in Seq(Frame) /\ Len([frames EXCEPT ![1] = h]) = 1
      /\ [frames EXCEPT ![1] = h][1] = h
    BY <1>1, <1>3, <1>4, ReplaceFacts
<1> DEFINE q == [frames EXCEPT ![1] = h]
<1>14. q \in Seq(Frame) /\ Len(q) = 1 /\ q[1] = h /\ frames' = Append(q, f)
    BY <1>5, <1>6
<1> HIDE DEF q
<1>15. /\ Append(q, f) \in Seq(Frame) /\ Len(Append(q, f)) = 2
       /\ Append(q, f)[1] = h /\ Append(q, f)[2] = f
    BY <1>4, <1>14
<1>7. frames' \in Seq(Frame) /\ Len(frames') = 2 /\ frames'[1] = h /\ frames'[2] = f
    BY <1>14, <1>15
<1>8. TypeOK'
    BY <1>1, <1>2, <1>7 DEF TypeOK
<1>9. frames' # <<>> /\ Top' = f
    BY <1>7, EmptySeq DEF Top
<1>10. Global \in DOMAIN scopes /\ s # Global
    BY <1>2 DEF HeapShape
<1>11. StackShape'
    <2>1. FrameShape(1)'
        BY <1>1, <1>3, <1>4, <1>7 DEF FrameShape
    <2>2. FrameShape(2)'
        BY <1>1, <1>2, <1>3, <1>4, <1>7, <1>10 DEF FrameShape
    <2>3. 1 .. Len(frames') = {1, 2}
        BY <1>7
    <2> QED
        BY <1>1, <1>3, <1>4, <1>7, <1>9, <2>1, <2>2, <2>3 DEF StackShape, Entering
<1>12. HeapShape' /\ VarsBound'
    <2>1. PICK n \in Nat : n = 2
        OBVIOUS
    <2>2. /\ n = Len(frames) + 1 /\ Len(frames') = n
          /\ frames'[n].kind \in Entering /\ frames'[n].at = s
        BY <1>3, <1>4, <1>7, <2>1 DEF Entering
    <2>3. ASSUME NEW i \in 1 .. Len(frames)
          PROVE  /\ frames'[i].at = frames[i].at /\ frames'[i].unit = frames[i].unit
                 /\ frames'[i].kind \in Entering <=> frames[i].kind \in Entering
        BY <1>1, <1>3, <1>4, <1>7 DEF Entering
    <2> QED
        BY <1>1, <2>2, <2>3, NoVarsFacts, EnterKeepsHeap
<1>13. LoopShape'
    BY <1>2, <1>4, <1>9 DEF LoopShape, Inner
<1> QED
    BY <1>8, <1>11, <1>12, <1>13, ClosedKept DEF IInv

-----------------------------------------------------------------------------
(* Leaving a scope. *)

\* The call on top that entered the innermost scope returns and frees it.
LEMMA LeaveKeepsHeap ==
    ASSUME TypeOK, Shape, scope = Inner, frames # <<>>, Top.kind \in Entering,
           scopes' = Left(scope), Popped,
           \A k \in 1 .. Len(units) :
                k < Top.unit \/ Top.kind = "block" => units[k].binds \subseteq units'[k].binds
    PROVE  /\ HeapShape' /\ VarsBound'
           /\ \A s \in DOMAIN scopes :
                s # Top.at => s \in DOMAIN scopes' /\ scopes'[s].parent = scopes[s].parent
<1>1. scope = Top.at /\ Len(frames) \in 1 .. Len(frames) /\ Top = frames[Len(frames)]
    BY TopFacts DEF Inner
<1>2. Top.at # Global
    BY <1>1, EnteringFacts DEF Shape
<1>3. /\ DOMAIN scopes' = DOMAIN scopes \ {Top.at}
      /\ \A t \in DOMAIN scopes \ {Top.at} : scopes'[t] = scopes[t]
    BY <1>1, LeaveFacts
<1>4. ASSUME NEW i \in 1 .. Len(frames')
      PROVE  i \in 1 .. Len(frames) /\ i # Len(frames) /\ frames'[i] = frames[i]
    BY DEF Popped
<1>5. ASSUME NEW i \in 1 .. Len(frames), i # Len(frames)
      PROVE  i \in 1 .. Len(frames')
    BY <1>5 DEF Popped
<1>6. HeapShape'
    <2>1. Global \in DOMAIN scopes' /\ scopes'[Global].parent = NULL
        BY <1>2, <1>3 DEF Shape, HeapShape
    <2>2. ASSUME NEW t \in DOMAIN scopes' \ {Global}
          PROVE  \E i \in 1 .. Len(frames') : frames'[i].kind \in Entering /\ frames'[i].at = t
        <3>1. t \in DOMAIN scopes \ {Global} /\ t # Top.at
            BY <1>3, <2>2
        <3>2. PICK i \in 1 .. Len(frames) : frames[i].kind \in Entering /\ frames[i].at = t
            BY <3>1 DEF Shape, HeapShape
        <3>3. i # Len(frames)
            BY <1>1, <3>1, <3>2
        <3>4. i \in 1 .. Len(frames') /\ frames'[i] = frames[i]
            BY <1>4, <1>5, <3>3
        <3> QED
            BY <3>2, <3>4
    <2> QED
        BY <2>1, <2>2 DEF HeapShape
<1>7. VarsBound'
    <2>1. ASSUME NEW i \in 1 .. Len(frames'), NEW name \in Name,
                 frames'[i].kind \in Entering, scopes'[frames'[i].at].vars[name] # NULL
          PROVE  scopes'[frames'[i].at].vars[name] \in units'[frames'[i].unit].binds
        <3>1. /\ i \in 1 .. Len(frames) /\ i # Len(frames) /\ frames'[i] = frames[i]
              /\ frames[i].kind \in Entering
            BY <1>4, <2>1
        <3>2. frames[i].at # Top.at /\ frames[i].at \in DOMAIN scopes
            BY <1>1, <3>1, AtAlive DEF Shape, StackShape
        <3>3. scopes'[frames[i].at] = scopes[frames[i].at]
            BY <1>3, <3>2
        <3>4. scopes[frames[i].at].vars[name] \in units[frames[i].unit].binds
            BY <2>1, <3>1, <3>3 DEF Shape, VarsBound
        <3>5. frames[i].unit \in 1 .. Len(units)
            BY <3>1 DEF Shape, StackShape, FrameShape
        <3>6. frames[i].unit < Top.unit \/ Top.kind = "block"
            <4>1. SUFFICES ASSUME Top.kind # "block" PROVE frames[i].unit < Top.unit
                OBVIOUS
            <4>2. PICK m \in Nat : m = Len(frames) - 1 /\ m \in 1 .. Len(frames) /\ i <= m
                <5> DEFINE d == Len(frames) - 1
                <5>1. d \in Nat /\ d \in 1 .. Len(frames) /\ i <= d
                    BY <1>1, <3>1 DEF TypeOK
                <5> QED
                    BY <5>1
            <4>3. frames[i].unit <= frames[m].unit
                BY <3>1, <4>2 DEF Shape, StackShape
            <4>4. FrameShape(Len(frames)) /\ FrameShape(m)
                BY <1>1, <4>2 DEF Shape, StackShape
            <4>5. Top.unit = frames[m].unit + 1 /\ frames[m].unit \in Nat
                BY <1>1, <4>1, <4>2, <4>4 DEF FrameShape, Entering
            <4> QED
                BY <3>5, <4>3, <4>5
        <3> QED
            BY <3>1, <3>3, <3>4, <3>5, <3>6
    <2>2. \A name \in Name : scopes'[Global].vars[name] # NULL => ~scopes'[Global].vars[name].isAuto
        BY <1>2, <1>3 DEF Shape, VarsBound, HeapShape
    <2> QED
        BY <2>1, <2>2 DEF VarsBound
<1> QED
    BY <1>3, <1>6, <1>7

LEMMA LeaveBlockKeeps ==
    ASSUME IInv, LeaveBlock
    PROVE  IInv'
<1> USE InRunning DEF LeaveBlock
<1>1. /\ TypeOK /\ Shape /\ StackShape /\ HeapShape /\ scopes' = Left(scope)
      /\ units' = units /\ units \in Seq(Unit)
      /\ Top.kind = "block" /\ Top.kind \in Entering /\ scope = Inner /\ scope = Top.at
      /\ frames # <<>> /\ FrameShape(Len(frames))
    BY DEF TypeOK, Entering
<1>2. Popped
    BY <1>1, PopFrame
<1>3. PICK m \in Nat : m = Len(frames) - 1 /\ m \in 1 .. Len(frames)
    BY <1>1 DEF FrameShape
<1>4. /\ Len(frames') = m /\ frames'[m] = frames[m] /\ frames[m].unit = Len(units)
      /\ scopes[scope].parent = frames[m].at /\ scope' = frames[m].at
      /\ frames' # <<>> /\ frames' \in Seq(Frame)
    BY <1>1, <1>2, <1>3, EmptySeq DEF FrameShape, Popped
<1>5. /\ HeapShape' /\ VarsBound'
      /\ \A s \in DOMAIN scopes :
            s # Top.at => s \in DOMAIN scopes' /\ scopes'[s].parent = scopes[s].parent
    BY <1>1, <1>2, LeaveKeepsHeap
<1>6. /\ DOMAIN scopes' \subseteq ScopeId
      /\ scopes' \in [DOMAIN scopes' -> Scope]
    BY <1>1, LeaveFacts
<1>10. scope' \in ScopeId
    <2>1. frames[m] \in Frame
        BY <1>1, <1>3 DEF TypeOK
    <2> QED
        BY <1>4, <2>1 DEF Frame
<1>7. TypeOK'
    BY <1>1, <1>4, <1>6, <1>10 DEF TypeOK
<1>8. StackShape'
    BY <1>1, <1>2, <1>3, <1>4, <1>5, PopKeepsStack
<1>9. LoopShape'
    BY <1>4 DEF LoopShape, Inner, Top
<1> QED
    BY <1>5, <1>7, <1>8, <1>9, ClosedKept DEF IInv

-----------------------------------------------------------------------------
(* Lambdas. *)

\* The lambda's scope starts empty or with the identifier the lambda binds.
LEMMA EnterLambdaKeeps ==
    ASSUME IInv, NEW s \in ScopeId, NEW itsVars \in [Name -> Ident \cup {NULL}],
           \A name \in Name : itsVars[name] \in {NULL, AutoIdent(identCount)},
           EnterLambda(s, itsVars)
    PROVE  IInv'
<1>1. /\ TypeOK /\ Shape /\ StackShape /\ HeapShape /\ LoopShape /\ VarsBound
      /\ UnitsClosed /\ LiftedClosed /\ status = "run"
    BY RunningShape DEF EnterLambda, Climbing, IInv
<1>2. /\ frames # <<>> /\ oldScope = Inner /\ Reached(scope) /\ scope \in DOMAIN scopes
      /\ current = NULL /\ EnterScope(s, scope, itsVars)
    BY <1>1, ReachedAlive DEF EnterLambda, Climbing, LoopShape
<1>3. scope = Global /\ scope \in ScopeId
    BY <1>1, <1>2, GlobalIff, ScopesAssumption DEF EnterLambda
<1>4. /\ Top \in Frame /\ Top = frames[Len(frames)] /\ Len(frames) \in 1 .. Len(frames)
      /\ Inner = Top.at /\ Top.unit = Len(units) /\ Len(units) \in Nat
    BY <1>1, <1>2, TopFacts DEF Inner, StackShape, TypeOK
<1>5. /\ s \in ScopeId /\ s \notin DOMAIN scopes /\ scope' = s
      /\ DOMAIN scopes' = DOMAIN scopes \cup {s}
      /\ DOMAIN scopes' \subseteq ScopeId
      /\ scopes' \in [DOMAIN scopes' -> Scope]
      /\ scopes'[s].parent = scope
      /\ \A t \in DOMAIN scopes : scopes'[t] = scopes[t]
    BY <1>1, <1>2, <1>3, EnterFacts
<1> DEFINE f == [kind |-> "lambdaHeader", at |-> s, unit |-> Len(units) + 1, old |-> oldScope]
           u == NewUnit(AutoIdent(identCount))
<1>6. oldScope \in ScopeId
    BY <1>2, <1>4 DEF Frame
<1>7. Pushed(f) /\ f \in Frame
    <2>1. PICK m \in Nat : m = Len(units) + 1
        BY <1>4
    <2>2. Push("lambdaHeader", s, m, oldScope) /\ "lambdaHeader" \in Kind
        BY <2>1 DEF EnterLambda, Kind
    <2>3. Pushed([kind |-> "lambdaHeader", at |-> s, unit |-> m, old |-> oldScope])
        BY <1>1, <1>6, <2>1, <2>2, PushFacts
    <2>4. f \in Frame
        BY <1>6, <2>1, <2>2 DEF Frame
    <2> QED
        BY <2>1, <2>3, <2>4
<1>8. /\ AutoIdent(identCount) \in Ident
      /\ u \in Unit /\ u.uses = {} /\ u.binds = {AutoIdent(identCount)}
    BY <1>1, AutoFacts DEF NewUnit, Unit, TypeOK
<1>9. units \in Seq(Unit) /\ units' = Append(units, u)
    BY <1>1 DEF EnterLambda, TypeOK
<1> HIDE DEF u
<1>10. /\ units' \in Seq(Unit) /\ Len(units') = Len(units) + 1
       /\ \A k \in 1 .. Len(units) : units'[k] = units[k]
       /\ units'[Len(units) + 1] = u
    BY <1>8, <1>9, AppendFacts
<1>11. identCount' \in 0 .. MaxIdent
    BY <1>1, ScopesAssumption DEF TypeOK, EnterLambda
<1>12. TypeOK'
    BY <1>1, <1>5, <1>7, <1>10, <1>11, ScopesAssumption DEF TypeOK, EnterLambda, Pushed
<1>13. PICK n \in Nat : n = Len(frames) + 1
    BY <1>4
<1>14. /\ Len(frames') = n /\ frames'[n] = f /\ n - 1 = Len(frames) /\ n > 1
       /\ frames'[n - 1] = Top /\ f.unit = Len(units')
       /\ \A i \in 1 .. Len(frames) : frames'[i] = frames[i]
    BY <1>4, <1>7, <1>10, <1>13 DEF Pushed
<1>15. FrameShape(n)'
    BY <1>1, <1>2, <1>3, <1>4, <1>5, <1>10, <1>13, <1>14 DEF FrameShape, HeapShape
<1>16. StackShape'
    BY <1>1, <1>4, <1>5, <1>7, <1>10, <1>13, <1>14, <1>15, PushKeepsStack
<1>17. HeapShape' /\ VarsBound'
    <2>1. frames'[n].kind \in Entering /\ frames'[n].at = s
        BY <1>14 DEF Entering
    <2>2. \A k \in 1 .. Len(units) : units[k].binds \subseteq units'[k].binds
        BY <1>10
    <2>3. ASSUME NEW name \in Name, itsVars[name] # NULL
          PROVE  itsVars[name] \in units'[frames'[n].unit].binds
        BY <1>8, <1>10, <1>14, <2>3
    <2> QED
        BY <1>1, <1>2, <1>3, <1>13, <1>14, <2>1, <2>2, <2>3, EnterKeepsHeap
<1>18. LoopShape'
    BY <1>2, <1>5, <1>14, EmptySeq DEF LoopShape, Inner, Top, EnterLambda
<1>19. UnitsClosed' /\ LiftedClosed'
    <2>1. LiftedClosed' /\ Names' = Names
        BY <1>1 DEF LiftedClosed, EnterLambda, Names
    <2>2. ASSUME NEW k \in 1 .. Len(units')
          PROVE  Autos(units'[k].uses) \subseteq units'[k].binds \cup Names
        <3>1. CASE k \in 1 .. Len(units)
            BY <1>1, <1>10, <3>1 DEF UnitsClosed
        <3>2. CASE k = Len(units) + 1
            BY <1>8, <1>10, <3>2 DEF Autos
        <3> QED
            BY <1>4, <1>10, <3>1, <3>2
    <2> QED
        BY <2>1, <2>2 DEF UnitsClosed
<1> QED
    BY <1>1, <1>12, <1>16, <1>17, <1>18, <1>19 DEF IInv, EnterLambda

LEMMA NamedVars ==
    ASSUME IInv, NEW name \in Name
    PROVE  LET v == [NoVars EXCEPT ![name] = AutoIdent(identCount)]
           IN  /\ v \in [Name -> Ident \cup {NULL}]
               /\ \A n \in Name : v[n] \in {NULL, AutoIdent(identCount)}
<1>1. AutoIdent(identCount) \in Ident
    BY AutoFacts DEF IInv, TypeOK
<1> QED
    BY <1>1, NoVarsFacts

LEMMA EnterNamedKeeps ==
    ASSUME IInv, NEW s \in ScopeId, NEW name \in Name, EnterNamed(s, name)
    PROVE  IInv'
<1> DEFINE v == [NoVars EXCEPT ![name] = AutoIdent(identCount)]
<1>1. /\ v \in [Name -> Ident \cup {NULL}]
      /\ \A n \in Name : v[n] \in {NULL, AutoIdent(identCount)}
    BY NamedVars
<1>2. EnterLambda(s, v)
    BY DEF EnterNamed
<1> HIDE DEF v
<1> QED
    BY <1>1, <1>2, EnterLambdaKeeps

LEMMA EnterAnonymousKeeps ==
    ASSUME IInv, NEW s \in ScopeId, EnterAnonymous(s)
    PROVE  IInv'
    BY NoVarsFacts, EnterLambdaKeeps DEF EnterAnonymous

\* What appending a declaration does: all it uses is bound by it or declared.
LEMMA EmitFacts ==
    ASSUME TypeOK, LiftedClosed, NEW d \in Unit, Emit(d),
           Autos(d.uses) \subseteq d.binds \cup Names
    PROVE  /\ declarations' \in Seq(Unit)
           /\ LiftedClosed'
           /\ Names' = Names \cup {d.name}
<1>1. declarations \in Seq(Unit) /\ declarations' = Append(declarations, d)
    BY DEF TypeOK, Emit
<1>2. /\ declarations' \in Seq(Unit) /\ Len(declarations) \in Nat
      /\ Len(declarations') = Len(declarations) + 1
      /\ \A i \in 1 .. Len(declarations) : declarations'[i] = declarations[i]
      /\ declarations'[Len(declarations) + 1] = d
    BY <1>1, AppendFacts
<1>3. Names' = Names \cup {d.name}
    <2>1. ASSUME NEW x \in Names' PROVE x \in Names \cup {d.name}
        BY <1>2 DEF Names
    <2>2. ASSUME NEW x \in Names PROVE x \in Names'
        <3>1. PICK j \in 1 .. Len(declarations) : x = declarations[j].name
            BY DEF Names
        <3>2. j \in 1 .. Len(declarations') /\ x = declarations'[j].name
            BY <1>2, <3>1
        <3> QED
            BY <3>2 DEF Names
    <2>3. d.name \in Names'
        <3>1. PICK m \in Nat : m = Len(declarations')
            BY <1>2
        <3>2. m \in 1 .. Len(declarations') /\ declarations'[m] = d
            BY <1>2, <3>1
        <3> QED
            BY <3>2 DEF Names
    <2> QED
        BY <2>1, <2>2, <2>3
<1>4. ASSUME NEW i \in 1 .. Len(declarations')
      PROVE  Autos(declarations'[i].uses) \subseteq
                declarations'[i].binds \cup {declarations'[j].name : j \in 1 .. i - 1}
    <2>1. \A j \in 1 .. i - 1 : j \in 1 .. Len(declarations) /\ declarations'[j] = declarations[j]
        BY <1>2
    <2>2. {declarations'[j].name : j \in 1 .. i - 1} = {declarations[j].name : j \in 1 .. i - 1}
        BY <2>1
    <2>3. CASE i \in 1 .. Len(declarations)
        BY <1>2, <2>2, <2>3 DEF LiftedClosed
    <2>4. CASE i = Len(declarations) + 1
        <3>1. i - 1 = Len(declarations)
            BY <1>2, <2>4
        <3>2. {declarations'[j].name : j \in 1 .. i - 1} = Names
            BY <2>2, <3>1 DEF Names
        <3> QED
            BY <1>2, <2>4, <3>2
    <2> QED
        BY <1>2, <2>3, <2>4
<1> QED
    BY <1>2, <1>3, <1>4 DEF LiftedClosed

LEMMA FinishGlobalKeeps ==
    ASSUME IInv, FinishGlobal
    PROVE  IInv'
<1>1. /\ TypeOK /\ Shape /\ StackShape /\ HeapShape /\ LoopShape /\ VarsBound
      /\ UnitsClosed /\ LiftedClosed
      /\ status = "run" /\ pc = "parse" /\ frames # <<>> /\ current = NULL /\ oldScope = NULL
      /\ scope = Top.at /\ Top = frames[Len(frames)] /\ Top.kind \in {"global", "fun"}
      /\ Len(frames) \in Nat \ {0} /\ units # <<>> /\ Top.unit = Len(units)
      /\ FrameShape(Len(frames)) /\ frames' = Pop(frames)
    BY InRunning DEF FinishGlobal
<1>2. Len(frames) = 1 /\ scope = Global /\ Len(units) = 1
    BY <1>1 DEF FrameShape
<1>3. Popped
    BY <1>1, PopFrame
<1>4. frames' \in Seq(Frame) /\ Len(frames') = 0 /\ frames' = <<>>
    BY <1>2, <1>3, EmptySeq DEF Popped
<1>5. units \in Seq(Unit) /\ units' = Pop(units)
    BY <1>1 DEF TypeOK, FinishGlobal
<1>6. units' = <<>> /\ Len(units') = 0 /\ units' \in Seq(Unit)
    BY <1>1, <1>2, <1>5, PopFacts, EmptySeq
<1>7. units[1] \in Unit /\ Emit(units[1]) /\ Autos(units[1].uses) \subseteq units[1].binds \cup Names
    BY <1>1, <1>2, <1>5 DEF FinishGlobal, UnitsClosed
<1>8. declarations' \in Seq(Unit) /\ LiftedClosed'
    BY <1>1, <1>7, EmitFacts
<1>9. TypeOK'
    BY <1>1, <1>4, <1>6, <1>8 DEF TypeOK, FinishGlobal
<1>10. StackShape'
    BY <1>1, <1>2, <1>3, <1>6, PopKeepsStack DEF FinishGlobal
<1>11. HeapShape'
    <2>1. ASSUME NEW i \in 1 .. Len(frames) PROVE frames[i].kind \notin Entering
        BY <1>1, <1>2 DEF Entering
    <2> QED
        BY <1>1, <2>1 DEF HeapShape, FinishGlobal
<1>12. VarsBound'
    BY <1>1, <1>4 DEF VarsBound, FinishGlobal
<1>13. LoopShape'
    BY <1>1, <1>2, <1>4 DEF LoopShape, Inner, FinishGlobal
<1>14. UnitsClosed'
    BY <1>6 DEF UnitsClosed
<1> QED
    BY <1>1, <1>8, <1>9, <1>10, <1>11, <1>12, <1>13, <1>14 DEF IInv, FinishGlobal

\* The units under a lambda stay, and the one below it uses the new identifier.
LEMMA LeaveLambdaUnits ==
    ASSUME TypeOK, NEW m \in Nat \ {0}, Len(units) = m + 1, NEW id \in Ident,
           units' = [Pop(units) EXCEPT ![Len(units) - 1].uses = @ \cup {id}]
    PROVE  /\ units' \in Seq(Unit) /\ Len(units') = m
           /\ \A k \in 1 .. m :
                /\ units'[k].binds = units[k].binds
                /\ units'[k].uses \subseteq units[k].uses \cup {id}
<1>1. units \in Seq(Unit) /\ units # <<>>
    BY EmptySeq DEF TypeOK
<1> DEFINE q == Pop(units)
<1>2. q \in Seq(Unit) /\ Len(q) = m /\ \A k \in 1 .. m : q[k] = units[k]
    BY <1>1, PopFacts
<1> DEFINE u == [q[m] EXCEPT !.uses = @ \cup {id}]
<1>3. units' = [q EXCEPT ![m] = u]
    <2>1. Len(units) - 1 = m
        OBVIOUS
    <2>2. units' = [q EXCEPT ![m].uses = @ \cup {id}]
        BY <2>1
    <2> QED
        BY <2>2
<1> HIDE DEF q
<1>6. q[m] \in Unit /\ q[m] = units[m] /\ m \in 1 .. Len(q)
    BY <1>2
<1>4. u \in Unit /\ u.binds = units[m].binds /\ u.uses = units[m].uses \cup {id}
    BY <1>6 DEF Unit
<1> HIDE DEF u
<1>5. /\ units' \in Seq(Unit) /\ Len(units') = m /\ units'[m] = u
      /\ \A k \in 1 .. m : k # m => units'[k] = units[k]
    <2>1. q \in Seq(Unit) /\ m \in 1 .. Len(q) /\ u \in Unit /\ Len(q) = m
        BY <1>2, <1>4, <1>6
    <2>2. /\ [q EXCEPT ![m] = u] \in Seq(Unit)
          /\ Len([q EXCEPT ![m] = u]) = Len(q)
          /\ [q EXCEPT ![m] = u][m] = u
          /\ \A i \in 1 .. Len(q) : i # m => [q EXCEPT ![m] = u][i] = q[i]
        BY <2>1, ReplaceFacts
    <2> QED
        BY <1>2, <1>3, <2>1, <2>2
<1> QED
    BY <1>4, <1>5

LEMMA LeaveLambdaKeeps ==
    ASSUME IInv, LeaveLambda
    PROVE  IInv'
<1>1. /\ TypeOK /\ Shape /\ StackShape /\ HeapShape /\ LoopShape /\ VarsBound
      /\ UnitsClosed /\ LiftedClosed
      /\ status = "run" /\ pc = "parse" /\ frames # <<>> /\ current = NULL /\ oldScope = NULL
      /\ scope = Inner /\ scope = Top.at /\ Top = frames[Len(frames)] /\ Top.kind = "lambda"
      /\ Len(frames) \in 1 .. Len(frames) /\ Top.unit = Len(units)
      /\ FrameShape(Len(frames)) /\ frames' = Pop(frames) /\ scopes' = Left(scope)
    BY InRunning DEF LeaveLambda
<1>2. PICK m \in Nat : m = Len(frames) - 1 /\ m \in 1 .. Len(frames)
    <2> DEFINE d == Len(frames) - 1
    <2>1. d \in Nat /\ d \in 1 .. Len(frames)
        BY <1>1 DEF FrameShape
    <2> QED
        BY <2>1
<1>3. Popped
    BY <1>1, PopFrame
<1>4. /\ frames' \in Seq(Frame) /\ Len(frames') = m /\ frames'[m] = frames[m]
      /\ frames' # <<>>
    BY <1>1, <1>2, <1>3, EmptySeq DEF Popped
<1>5. /\ Top.old = frames[m].at /\ Len(units) = frames[m].unit + 1
      /\ frames[m].unit \in Nat \ {0} /\ frames[m].at \in ScopeId
    <2>1. FrameShape(m) /\ frames[m] \in Frame /\ Len(units) \in Nat
        BY <1>1, <1>2 DEF StackShape, TypeOK
    <2> QED
        BY <1>1, <1>2, <2>1 DEF FrameShape, Frame
<1> DEFINE id == AutoIdent(identCount)
           lam == units[Len(units)]
           d == Lifted(id)
<1>6. id \in Ident /\ identCount' \in 0 .. MaxIdent
    BY <1>1, AutoFacts, ScopesAssumption DEF TypeOK, LeaveLambda
<1>7. /\ d \in Unit /\ d.name = id /\ d.uses = lam.uses /\ lam.binds \subseteq d.binds
      /\ Autos(lam.uses) \subseteq lam.binds \cup Names
    <2>1. lam \in Unit /\ Len(units) \in 1 .. Len(units)
        BY <1>1, <1>5 DEF TypeOK
    <2>2. Autos(lam.uses) \subseteq lam.binds \cup Names
        BY <1>1, <2>1 DEF UnitsClosed
    <2>3. d = [lam EXCEPT !.name = id, !.binds = @ \cup {id}]
        BY DEF Lifted
    <2> HIDE DEF id, lam, d
    <2> QED
        BY <1>6, <2>1, <2>2, <2>3 DEF Unit
<1>8. Emit(d) /\ scope' = Top.old /\ units' = [Pop(units) EXCEPT ![Len(units) - 1].uses = @ \cup {id}]
    BY DEF LeaveLambda
<1> HIDE DEF id, d
<1>9. declarations' \in Seq(Unit) /\ LiftedClosed' /\ Names' = Names \cup {id}
    BY <1>1, <1>7, <1>8, EmitFacts
<1>10. /\ units' \in Seq(Unit) /\ Len(units') = frames[m].unit
       /\ \A k \in 1 .. frames[m].unit :
            /\ units'[k].binds = units[k].binds
            /\ units'[k].uses \subseteq units[k].uses \cup {id}
    BY <1>1, <1>5, <1>6, <1>8, LeaveLambdaUnits
<1>11. /\ HeapShape' /\ VarsBound'
       /\ \A s \in DOMAIN scopes :
            s # Top.at => s \in DOMAIN scopes' /\ scopes'[s].parent = scopes[s].parent
    <2>1. ASSUME NEW k \in 1 .. Len(units), k < Top.unit \/ Top.kind = "block"
          PROVE  units[k].binds \subseteq units'[k].binds
        <3>1. k \in 1 .. frames[m].unit
            BY <1>1, <1>5, <2>1
        <3> QED
            BY <1>10, <3>1
    <2>2. Top.kind \in Entering
        BY <1>1 DEF Entering
    <2> QED
        BY <1>1, <1>3, <2>1, <2>2, LeaveKeepsHeap
<1>12. /\ DOMAIN scopes' \subseteq ScopeId
       /\ scopes' \in [DOMAIN scopes' -> Scope]
    BY <1>1, LeaveFacts
<1>13. TypeOK'
    BY <1>1, <1>4, <1>5, <1>6, <1>8, <1>9, <1>10, <1>12 DEF TypeOK, LeaveLambda
<1>14. StackShape'
    <2>1. /\ frames[Len(frames) - 1].unit = Len(units') /\ Len(frames) # 1
          /\ Top.kind \in Entering
        BY <1>1, <1>2, <1>10 DEF Entering
    <2> QED
        BY <1>1, <1>3, <1>10, <1>11, <2>1, PopKeepsStack
<1>15. LoopShape'
    BY <1>1, <1>4, <1>5, <1>8 DEF LoopShape, Inner, Top, LeaveLambda
<1>16. UnitsClosed'
    <2>1. ASSUME NEW k \in 1 .. Len(units')
          PROVE  Autos(units'[k].uses) \subseteq units'[k].binds \cup Names'
        <3>1. k \in 1 .. frames[m].unit /\ k \in 1 .. Len(units)
            BY <1>5, <1>10
        <3>2. Autos(units[k].uses) \subseteq units[k].binds \cup Names
            BY <1>1, <3>1 DEF UnitsClosed
        <3> QED
            BY <1>9, <1>10, <3>1, <3>2 DEF Autos
    <2> QED
        BY <2>1 DEF UnitsClosed
<1> QED
    BY <1>1, <1>9, <1>11, <1>13, <1>14, <1>15, <1>16 DEF IInv, LeaveLambda

LEMMA EndOfFileKeeps ==
    ASSUME IInv, EndOfFile
    PROVE  IInv'
<1>1. /\ TypeOK /\ StackShape /\ HeapShape /\ LoopShape
      /\ UnitsClosed /\ LiftedClosed /\ pc = "parse" /\ frames = <<>> /\ units = <<>>
      /\ current = NULL /\ oldScope = NULL /\ scope = Global
    BY RunningShape DEF EndOfFile, Parsing, IInv, StackShape, LoopShape, Inner
<1>2. DOMAIN scopes = {Global} /\ scopes[Global].parent = NULL
    <2>1. 1 .. Len(frames) = {}
        BY <1>1, EmptySeq
    <2> QED
        BY <1>1, <2>1 DEF HeapShape
<1>3. DOMAIN scopes' = {} /\ scopes' \in [DOMAIN scopes' -> Scope] /\ scope' = NULL
    BY <1>1, <1>2, LeaveFacts DEF EndOfFile
<1>4. TypeOK' /\ Done'
    BY <1>1, <1>3 DEF TypeOK, Done, EndOfFile
<1> QED
    BY <1>1, <1>4, ClosedKept DEF IInv, EndOfFile

-----------------------------------------------------------------------------
(* The invariant, and what follows from it. *)

LEMMA StepKeeps == IInv /\ [Next]_vars => IInv'
<1> SUFFICES ASSUME IInv, [Next]_vars PROVE IInv'
    OBVIOUS
<1>1. CASE UNCHANGED vars
    <2>1. UnitsGrow
        BY <1>1 DEF vars, UnitsGrow, IInv, TypeOK
    <2>2. status # "done" => StackShape' /\ HeapShape' /\ VarsBound'
        BY <1>1, <2>1, StillShape DEF vars, IInv, Shape
    <2>3. TypeOK' /\ (status # "done" => LoopShape') /\ (status = "done" => Done')
        BY <1>1 DEF vars, IInv, TypeOK, LoopShape, Done, Inner, Top, Reached
    <2> QED
        BY <1>1, <2>2, <2>3, ClosedKept DEF vars, IInv
<1>2. ASSUME NEW name \in Name,
             \/ StartGlobal("global", name)
             \/ StartGlobal("funHeader", name)
             \/ StartLocal(name)
             \/ DeclareFormal(name)
             \/ Redeclare(name)
             \/ StartLookup(name)
      PROVE  IInv'
    <2>1. CASE Redeclare(name)
        BY <2>1, FatalKeeps DEF Redeclare, In, Parsing
    <2> QED
        BY <1>2, <2>1, StartGlobalKeeps, StartLocalKeeps, DeclareFormalKeeps, StartLookupKeeps
<1>3. ASSUME NEW s \in ScopeId,
             \/ EnterBlock(s)
             \/ EnterBody(s)
             \/ EnterAnonymous(s)
             \/ \E name \in Declared : EnterNamed(s, name)
      PROVE  IInv'
    BY <1>3, ScopesAssumption, EnterBlockKeeps, EnterBodyKeeps, EnterAnonymousKeeps, EnterNamedKeeps
<1>4. CASE SyntaxError \/ LookupFailed
    BY <1>4, FatalKeeps DEF SyntaxError, LookupFailed, LookingUp, Parsing
<1>5. CASE \/ EnterEmptyBody
           \/ LeaveBlock
           \/ FinishLocal
           \/ FinishGlobal
           \/ StartLambda
           \/ BeginLambdaBody
           \/ LeaveLambda
    BY <1>5, EnterEmptyBodyKeeps, LeaveBlockKeeps, FinishLocalKeeps, FinishGlobalKeeps,
       StartLambdaKeeps, BeginLambdaBodyKeeps, LeaveLambdaKeeps
<1>6. CASE LookupStep \/ LookupFound \/ Climb \/ EndOfFile
    BY <1>6, LookupStepKeeps, LookupFoundKeeps, ClimbKeeps, EndOfFileKeeps
<1> QED
    BY <1>1, <1>2, <1>3, <1>4, <1>5, <1>6, ScopesAssumption DEF Next, Loop

\* IInv holds of every state the parser reaches.
THEOREM Invariance == Spec => []IInv
    BY InitKeeps, StepKeeps, PTL DEF Spec

\* The parser's state keeps its type: in particular every identifier a scope
\* holds is one that newIdent or makeIdent returned.
THEOREM TypeCorrect == Spec => []TypeOK
    BY Invariance, PTL DEF IInv

\* No scope that is still pointed at has been freed, however blocks and lambdas
\* are nested and wherever parsing stops.
THEOREM NoDanglingScope == Spec => []ScopesAlive
<1>1. ASSUME IInv, status # "done"
      PROVE  /\ scope \in DOMAIN scopes
             /\ \A s \in DOMAIN scopes : scopes[s].parent \in DOMAIN scopes \cup {NULL}
             /\ \A i \in 1 .. Len(frames) : frames[i].old \in DOMAIN scopes \cup {NULL}
             /\ current \in DOMAIN scopes \cup {NULL}
             /\ oldScope \in DOMAIN scopes \cup {NULL}
    <2>1. TypeOK /\ StackShape /\ HeapShape /\ LoopShape
        BY <1>1 DEF IInv
    <2>2. scope \in DOMAIN scopes /\ oldScope \in DOMAIN scopes \cup {NULL}
        BY <2>1, InnerFacts, ReachedAlive DEF LoopShape
    <2>3. current \in DOMAIN scopes \cup {NULL}
        BY <2>1, ReachedAlive DEF LoopShape
    <2>4. ASSUME NEW s \in DOMAIN scopes PROVE scopes[s].parent \in DOMAIN scopes \cup {NULL}
        <3>1. CASE s = Global
            BY <2>1, <3>1 DEF HeapShape
        <3>2. CASE s # Global
            <4>1. PICK i \in 1 .. Len(frames) : frames[i].kind \in Entering /\ frames[i].at = s
                BY <2>1, <3>2 DEF HeapShape
            <4>2. i - 1 \in 1 .. Len(frames) /\ scopes[s].parent \in {Global, frames[i - 1].at}
                BY <2>1, <4>1, EnteringFacts
            <4> QED
                BY <2>1, <4>2, AtAlive DEF HeapShape
        <3> QED
            BY <3>1, <3>2
    <2>5. ASSUME NEW i \in 1 .. Len(frames) PROVE frames[i].old \in DOMAIN scopes \cup {NULL}
        <3>1. FrameShape(i) /\ frames[i] \in Frame
            BY <2>1 DEF StackShape, TypeOK
        <3>2. CASE frames[i].kind \in {"lambdaHeader", "lambda"}
            <4>1. i - 1 \in 1 .. Len(frames) /\ frames[i].old = frames[i - 1].at
                BY <3>1, <3>2 DEF FrameShape
            <4> QED
                BY <2>1, <4>1, AtAlive
        <3> QED
            BY <3>1, <3>2 DEF FrameShape, Frame, Kind
    <2> QED
        BY <2>2, <2>3, <2>4, <2>5
<1>2. IInv => ScopesAlive
    BY <1>1 DEF ScopesAlive
<1> QED
    BY <1>2, Invariance, PTL

\* Every scope that was entered is left again: between top-level declarations
\* only the global one is allocated, and at the end of the file none is.
THEOREM ScopesAreBalanced == Spec => []ScopesBalanced
<1>1. ASSUME IInv, status = "run", frames = <<>>
      PROVE  scope = Global /\ DOMAIN scopes = {Global}
    <2>1. 1 .. Len(frames) = {} /\ HeapShape /\ LoopShape
        BY <1>1, RunningShape, EmptySeq
    <2> QED
        BY <1>1, <2>1 DEF LoopShape, Inner, HeapShape
<1>2. IInv => ScopesBalanced
    BY <1>1 DEF ScopesBalanced, IInv, Done
<1> QED
    BY <1>2, Invariance, PTL

\* Lambda lifting leaves no free variable: a finished declaration uses only
\* automatic identifiers that it binds or that were emitted before it.
THEOREM LambdaLiftingIsClosed == Spec => []LiftedClosed
    BY Invariance, PTL DEF IInv

-----------------------------------------------------------------------------
(* Identifiers that newIdent made.  Each is bound once, because it goes into *)
(* one unit when it is made and a unit that ends becomes one declaration.    *)

Made(n) == {AutoIdent(d) : d \in 0 .. n - 1}

\* The automatic identifiers that the k-th of us binds.
Own(us, k) == IF k \in 1 .. Len(us) THEN Autos(us[k].binds) ELSE {}

\* The declarations ds and the units us bind different identifiers of the
\* first n that were made.
Apart(ds, us, n) ==
    /\ \A i \in Nat : Own(ds, i) \subseteq Made(n) /\ Own(us, i) \subseteq Made(n)
    /\ \A i, j \in Nat : Own(ds, i) \cap Own(us, j) = {}
    /\ \A i, j \in Nat : i # j => Own(ds, i) \cap Own(ds, j) = {}
    /\ \A i, j \in Nat : i # j => Own(us, i) \cap Own(us, j) = {}

IdentsApart == Apart(declarations, units, identCount)

LEMMA MadeFacts ==
    ASSUME NEW n \in Nat
    PROVE  /\ Made(n) \subseteq Made(n + 1)
           /\ AutoIdent(n) \in Made(n + 1)
           /\ AutoIdent(n) \notin Made(n)
           /\ \A id \in Made(n) : id.data \in Nat /\ id.data < n
<1>1. \A d : AutoIdent(d).data = d
    BY DEF AutoIdent
<1>2. Made(n) \subseteq Made(n + 1) /\ AutoIdent(n) \in Made(n + 1)
    BY DEF Made
<1>3. \A id \in Made(n) : id.data \in Nat /\ id.data < n
    BY <1>1 DEF Made
<1> QED
    BY <1>1, <1>2, <1>3

LEMMA AutosOfUnion ==
    ASSUME NEW A, NEW B
    PROVE  /\ Autos(A \cup B) = Autos(A) \cup Autos(B)
           /\ Autos(B) \subseteq B
    BY Zenon DEF Autos

LEMMA AutosOfText ==
    ASSUME NEW name \in Name
    PROVE  Autos({TextIdent(name)}) = {}
    BY TextFacts, Zenon DEF Autos

\* At most the m-th unit takes new identifiers: none, or the one being made.
LEMMA ApartWhenBound ==
    ASSUME NEW ds, NEW us, NEW vs, NEW n \in Nat, NEW n2 \in Nat, Apart(ds, us, n),
           NEW fresh \in SUBSET {AutoIdent(n)},
           n2 = n \/ n2 = n + 1, fresh = {} \/ n2 = n + 1,
           NEW m \in Nat, Own(vs, m) \subseteq Own(us, m) \cup fresh,
           \A k \in Nat : k # m => Own(vs, k) \subseteq Own(us, k)
    PROVE  Apart(ds, vs, n2)
<1>1. /\ Made(n) \subseteq Made(n2)
      /\ fresh \subseteq Made(n2)
      /\ fresh \cap Made(n) = {}
    BY MadeFacts
<1>2. \A k \in Nat : Own(vs, k) \subseteq Own(us, k) \cup fresh
    OBVIOUS
<1> HIDE DEF Own, Made
<1>3. \A i \in Nat : Own(ds, i) \subseteq Made(n2) /\ Own(vs, i) \subseteq Made(n2)
    BY <1>1, <1>2 DEF Apart
<1>4. \A i, j \in Nat : Own(ds, i) \cap Own(vs, j) = {}
    BY <1>1, <1>2 DEF Apart
<1>5. ASSUME NEW i \in Nat, NEW j \in Nat, i # j
      PROVE  Own(vs, i) \cap Own(vs, j) = {}
    <2>1. Own(us, i) \cap Own(us, j) = {} /\ Own(us, i) \subseteq Made(n) /\ Own(us, j) \subseteq Made(n)
        BY <1>5 DEF Apart
    <2>2. CASE i = m
        BY <1>1, <1>2, <1>5, <2>1, <2>2
    <2>3. CASE i # m
        BY <1>1, <1>2, <1>5, <2>1, <2>3
    <2> QED
        BY <2>2, <2>3
<1>6. \A i, j \in Nat : i # j => Own(ds, i) \cap Own(ds, j) = {}
    BY DEF Apart
<1> QED
    BY <1>3, <1>4, <1>5, <1>6 DEF Apart

\* From ds to es, and from us to vs: the l-th unit becomes the m-th declaration,
\* which also takes the identifiers fresh.
Handed(ds, us, es, vs, m, l, fresh) ==
    /\ Own(es, m) \subseteq Own(us, l) \cup fresh
    /\ \A k \in Nat : k # m => Own(es, k) \subseteq Own(ds, k)
    /\ Own(vs, l) = {}
    /\ \A k \in Nat : Own(vs, k) \subseteq Own(us, k)

LEMMA ApartWhenEmitted ==
    ASSUME NEW ds, NEW us, NEW n \in Nat, Apart(ds, us, n),
           NEW n2 \in Nat, NEW fresh \in SUBSET {AutoIdent(n)},
           n2 = n \/ n2 = n + 1, fresh = {} \/ n2 = n + 1,
           NEW m \in Nat, NEW l \in Nat, NEW es, NEW vs,
           Handed(ds, us, es, vs, m, l, fresh)
    PROVE  Apart(es, vs, n2)
<1> USE DEF Handed
<1>1. /\ Made(n) \subseteq Made(n2)
      /\ fresh \subseteq Made(n2)
      /\ fresh \cap Made(n) = {}
    BY MadeFacts
<1> HIDE DEF Own, Made
<1>2. \A i \in Nat : Own(ds, i) \subseteq Made(n) /\ Own(us, i) \subseteq Made(n)
    BY DEF Apart
<1>3. \A i \in Nat : Own(es, i) \subseteq Made(n2) /\ Own(vs, i) \subseteq Made(n2)
    <2>1. ASSUME NEW i \in Nat PROVE Own(es, i) \subseteq Made(n2)
        <3>1. CASE i = m
            BY <1>1, <1>2, <3>1
        <3>2. CASE i # m
            BY <1>1, <1>2, <3>2
        <3> QED
            BY <3>1, <3>2
    <2> QED
        BY <1>1, <1>2, <2>1
<1>4. ASSUME NEW i \in Nat, NEW j \in Nat
      PROVE  Own(es, i) \cap Own(vs, j) = {}
    <2>1. Own(ds, i) \cap Own(us, j) = {} /\ (j # l => Own(us, l) \cap Own(us, j) = {})
        BY DEF Apart
    <2>2. CASE i # m
        BY <2>1, <2>2
    <2>3. CASE i = m /\ j # l
        BY <1>1, <1>2, <2>1, <2>3
    <2>4. CASE j = l
        BY <2>4
    <2> QED
        BY <2>2, <2>3, <2>4
<1>5. ASSUME NEW i \in Nat, NEW j \in Nat, i # j
      PROVE  Own(es, i) \cap Own(es, j) = {}
    <2>1. /\ Own(ds, i) \cap Own(ds, j) = {}
          /\ Own(ds, i) \cap Own(us, l) = {} /\ Own(ds, j) \cap Own(us, l) = {}
        BY <1>5 DEF Apart
    <2>2. CASE i = m
        <3>1. Own(es, j) \subseteq Own(ds, j) /\ Own(es, i) \subseteq Own(us, l) \cup fresh
            BY <1>5, <2>2
        <3> QED
            BY <1>1, <1>2, <2>1, <3>1
    <2>3. CASE j = m
        <3>1. Own(es, i) \subseteq Own(ds, i) /\ Own(es, j) \subseteq Own(us, l) \cup fresh
            BY <1>5, <2>3
        <3> QED
            BY <1>1, <1>2, <2>1, <3>1
    <2>4. CASE i # m /\ j # m
        BY <2>1, <2>4
    <2> QED
        BY <2>2, <2>3, <2>4
<1>6. \A i, j \in Nat : i # j => Own(vs, i) \cap Own(vs, j) = {}
    BY DEF Apart
<1> QED
    BY <1>3, <1>4, <1>5, <1>6 DEF Apart

LEMMA OwnKept ==
    ASSUME NEW us, NEW vs, Len(vs) = Len(us),
           \A k \in 1 .. Len(us) : vs[k].binds = us[k].binds
    PROVE  \A k \in Nat : Own(vs, k) = Own(us, k)
    BY DEF Own

LEMMA OwnAppended ==
    ASSUME NEW us \in Seq(Unit), NEW u \in Unit
    PROVE  /\ Len(us) + 1 \in Nat
           /\ Own(us, Len(us) + 1) = {}
           /\ Own(Append(us, u), Len(us) + 1) = Autos(u.binds)
           /\ \A k \in Nat : k # Len(us) + 1 => Own(Append(us, u), k) = Own(us, k)
<1>1. /\ Len(us) \in Nat
      /\ Len(Append(us, u)) = Len(us) + 1
      /\ \A i \in 1 .. Len(us) : Append(us, u)[i] = us[i]
      /\ Append(us, u)[Len(us) + 1] = u
    BY AppendFacts
<1> QED
    BY <1>1 DEF Own

LEMMA ApartWhenKept ==
    ASSUME IInv, IdentsApart, UNCHANGED <<declarations, identCount>>,
           Len(units') = Len(units),
           \A k \in 1 .. Len(units) : units'[k].binds = units[k].binds
    PROVE  IdentsApart'
<1>1. \A k \in Nat : Own(units', k) = Own(units, k)
    BY OwnKept
<1> QED
    BY <1>1 DEF IdentsApart, Apart

\* The identifier that declare makes is automatic only when it is new.
LEMMA DeclaredAutos ==
    ASSUME IInv, NEW name \in Name, Declare(name)
    PROVE  \E fresh \in SUBSET {AutoIdent(identCount)} :
            /\ Autos({DeclaredIdent(name)}) \subseteq fresh
            /\ fresh = {} \/ identCount' = identCount + 1
            /\ identCount' = identCount \/ identCount' = identCount + 1
            /\ IsGlobal(scope) => fresh = {}
<1>1. CASE IsGlobal(scope)
    BY <1>1, AutosOfText DEF DeclaredIdent, Declare
<1>2. CASE ~IsGlobal(scope)
    <2>1. /\ DeclaredIdent(name) = AutoIdent(identCount)
          /\ identCount' = identCount + 1
        BY <1>2 DEF DeclaredIdent, Declare
    <2>2. Autos({DeclaredIdent(name)}) \subseteq {AutoIdent(identCount)}
        BY <2>1, AutosOfUnion
    <2> WITNESS {AutoIdent(identCount)} \in SUBSET {AutoIdent(identCount)}
    <2> QED
        BY <1>2, <2>1, <2>2
<1> QED
    BY <1>1, <1>2

LEMMA CountFacts ==
    ASSUME IInv
    PROVE  /\ identCount \in Nat /\ identCount \in 0 .. MaxIdent
           /\ declarations \in Seq(Unit) /\ units \in Seq(Unit)
    BY ScopesAssumption DEF IInv, TypeOK

LEMMA ApartWhenDeclared ==
    ASSUME IInv, IdentsApart, NEW name \in Name, Declare(name), units # <<>>,
           Bind({DeclaredIdent(name)}), UNCHANGED declarations, scope \in DOMAIN scopes
    PROVE  IdentsApart'
<1>1. PICK fresh \in SUBSET {AutoIdent(identCount)} :
            /\ Autos({DeclaredIdent(name)}) \subseteq fresh
            /\ fresh = {} \/ identCount' = identCount + 1
            /\ identCount' = identCount \/ identCount' = identCount + 1
    BY DeclaredAutos
<1>2. /\ units \in Seq(Unit) /\ Len(units) \in 1 .. Len(units)
      /\ units[Len(units)] \in Unit /\ DeclaredIdent(name) \in Ident /\ Len(units) \in Nat
    BY NonEmptyFacts, DeclareFacts DEF IInv, TypeOK
<1> DEFINE u == [units[Len(units)] EXCEPT !.binds = @ \cup {DeclaredIdent(name)}]
<1>3. u \in Unit /\ u.binds = units[Len(units)].binds \cup {DeclaredIdent(name)}
    BY <1>2 DEF Unit
<1>4. units' = [units EXCEPT ![Len(units)] = u]
    BY DEF Bind
<1> HIDE DEF u
<1>5. /\ Len(units') = Len(units) /\ units'[Len(units)] = u
      /\ \A k \in 1 .. Len(units) : k # Len(units) => units'[k] = units[k]
    BY <1>2, <1>3, <1>4, ReplaceFacts
<1>6. Own(units', Len(units)) \subseteq Own(units, Len(units)) \cup fresh
    <2>1. /\ Own(units', Len(units)) = Autos(u.binds)
          /\ Own(units, Len(units)) = Autos(units[Len(units)].binds)
        BY <1>2, <1>5 DEF Own
    <2>2. Autos(u.binds) = Autos(units[Len(units)].binds) \cup Autos({DeclaredIdent(name)})
        BY <1>3, AutosOfUnion
    <2> QED
        BY <1>1, <2>1, <2>2
<1>7. \A k \in Nat : k # Len(units) => Own(units', k) \subseteq Own(units, k)
    BY <1>5 DEF Own
<1>8. identCount \in Nat /\ identCount' \in Nat
    BY <1>1, CountFacts
<1>9. Apart(declarations, units', identCount')
    BY <1>1, <1>2, <1>6, <1>7, <1>8, ApartWhenBound DEF IdentsApart
<1> QED
    BY <1>9 DEF IdentsApart

LEMMA ApartAtStart ==
    ASSUME IInv, IdentsApart, NEW name \in Name, NEW kind \in {"global", "funHeader"},
           StartGlobal(kind, name)
    PROVE  IdentsApart'
<1>1. /\ TypeOK /\ StackShape /\ HeapShape /\ LoopShape
      /\ status = "run" /\ pc = "parse" /\ frames = <<>> /\ units = <<>>
    BY RunningShape DEF StartGlobal, Parsing, IInv, StackShape
<1>2. scope = Global /\ Declare(name) /\ IsGlobal(scope)
    BY <1>1 DEF StartGlobal, LoopShape, Inner, HeapShape, IsGlobal
<1>3. Autos({DeclaredIdent(name)}) = {} /\ identCount' = identCount
    BY <1>2, AutosOfText DEF DeclaredIdent, Declare
<1>4. /\ units' = <<NewUnit(DeclaredIdent(name))>> /\ declarations' = declarations
      /\ NewUnit(DeclaredIdent(name)).binds = {DeclaredIdent(name)}
    BY DEF StartGlobal, NewUnit
<1>5. \A k \in Nat : Own(units', k) \subseteq Own(units, k)
    <2>1. \A k \in Nat : Own(units', k) = {}
        BY <1>3, <1>4 DEF Own
    <2> QED
        BY <2>1
<1>6. identCount \in Nat /\ {} \in SUBSET {AutoIdent(identCount)} /\ 0 \in Nat
    BY CountFacts
<1>7. Apart(declarations, units', identCount)
    BY <1>5, <1>6, ApartWhenBound DEF IdentsApart
<1> QED
    BY <1>3, <1>4, <1>7 DEF IdentsApart

LEMMA ApartInLambda ==
    ASSUME IInv, IdentsApart, NEW s, NEW itsVars, EnterLambda(s, itsVars)
    PROVE  IdentsApart'
<1> DEFINE id == AutoIdent(identCount)
           u == NewUnit(id)
<1>1. /\ identCount \in Nat /\ id \in Ident /\ units \in Seq(Unit) /\ identCount + 1 \in Nat
      /\ identCount' = identCount + 1 /\ units' = Append(units, u)
      /\ declarations' = declarations
    BY AutoFacts, CountFacts DEF EnterLambda
<1>2. u \in Unit /\ u.binds = {id}
    BY <1>1 DEF NewUnit, Unit
<1>3. Autos(u.binds) \subseteq {id}
    BY <1>2, AutosOfUnion
<1> HIDE DEF u
<1> DEFINE m == Len(units) + 1
<1>4. /\ m \in Nat /\ Own(units', m) \subseteq Own(units, m) \cup {id}
      /\ \A k \in Nat : k # m => Own(units', k) \subseteq Own(units, k)
    BY <1>1, <1>2, <1>3, OwnAppended
<1> HIDE DEF m
<1>5. Apart(declarations, units', identCount + 1)
    BY <1>1, <1>4, ApartWhenBound DEF IdentsApart
<1> QED
    BY <1>1, <1>5 DEF IdentsApart

\* A unit becomes a declaration; those under it stay.
LEMMA ApartWhenDone ==
    ASSUME IInv, IdentsApart, NEW d \in Unit, declarations' = Append(declarations, d),
           NEW fresh \in SUBSET {AutoIdent(identCount)},
           identCount' = identCount \/ identCount' = identCount + 1,
           fresh = {} \/ identCount' = identCount + 1,
           NEW l \in Nat, l = Len(units), l > 0, Len(units') = l - 1,
           Autos(d.binds) \subseteq Autos(units[l].binds) \cup fresh,
           \A k \in 1 .. l - 1 : units'[k].binds = units[k].binds
    PROVE  IdentsApart'
<1>1. /\ identCount \in Nat /\ identCount' \in Nat /\ declarations \in Seq(Unit)
    BY CountFacts
<1> DEFINE m == Len(declarations) + 1
<1>2. /\ m \in Nat /\ Own(declarations', m) = Autos(d.binds)
      /\ \A k \in Nat : k # m => Own(declarations', k) = Own(declarations, k)
    BY <1>1, OwnAppended
<1> HIDE DEF m
<1>3. /\ Own(units, l) = Autos(units[l].binds)
      /\ Own(units', l) = {}
      /\ \A k \in Nat : Own(units', k) \subseteq Own(units, k)
    BY DEF Own
<1>4. /\ Own(declarations', m) \subseteq Own(units, l) \cup fresh
      /\ \A k \in Nat : k # m => Own(declarations', k) \subseteq Own(declarations, k)
    BY <1>2, <1>3
<1>5. Apart(declarations, units, identCount)
    BY DEF IdentsApart
<1>6. Handed(declarations, units, declarations', units', m, l, fresh)
    BY <1>3, <1>4 DEF Handed
<1>7. Apart(declarations', units', identCount')
    <2> HIDE DEF Own, Apart, Handed
    <2> QED
        BY <1>1, <1>2, <1>5, <1>6, ApartWhenEmitted
<1> QED
    BY <1>7 DEF IdentsApart

LEMMA ApartAtFinish ==
    ASSUME IInv, IdentsApart, FinishGlobal
    PROVE  IdentsApart'
<1>1. /\ units \in Seq(Unit) /\ units # <<>> /\ Len(units) \in Nat \ {0}
      /\ Len(units) \in 1 .. Len(units)
    BY InRunning, CountFacts DEF FinishGlobal
<1>2. /\ units' = Pop(units) /\ declarations' = Append(declarations, units[Len(units)])
      /\ identCount' = identCount
    BY DEF FinishGlobal, Emit
<1>3. PICK l \in Nat : l = Len(units)
    BY <1>1
<1>4. /\ units[l] \in Unit /\ l > 0 /\ Len(units') = l - 1
      /\ \A k \in 1 .. l - 1 : units'[k].binds = units[k].binds
    <2>1. /\ Len(Pop(units)) = Len(units) - 1
          /\ \A k \in 1 .. Len(units) - 1 : Pop(units)[k] = units[k]
        BY <1>1, PopFacts
    <2>2. units[Len(units)] \in Unit
        BY <1>1, NonEmptyFacts
    <2> QED
        BY <1>1, <1>2, <1>3, <2>1, <2>2
<1>5. {} \in SUBSET {AutoIdent(identCount)} /\ declarations' = Append(declarations, units[l])
    BY <1>2, <1>3
<1> QED
    BY <1>2, <1>3, <1>4, <1>5, ApartWhenDone

LEMMA ApartAtLeave ==
    ASSUME IInv, IdentsApart, LeaveLambda
    PROVE  IdentsApart'
<1>1. /\ TypeOK /\ StackShape /\ Top.kind = "lambda" /\ Top.unit = Len(units)
      /\ Top = frames[Len(frames)] /\ FrameShape(Len(frames))
      /\ units \in Seq(Unit) /\ Len(units) \in 1 .. Len(units) /\ Len(units) \in Nat
      /\ Len(frames) \in Nat \ {0}
    BY InRunning, CountFacts DEF LeaveLambda
<1>2. PICK m \in Nat \ {0} : Len(units) = m + 1
    <2>1. Len(frames) - 1 \in 1 .. Len(frames) /\ Len(units) = frames[Len(frames) - 1].unit + 1
        BY <1>1 DEF FrameShape
    <2>2. FrameShape(Len(frames) - 1) /\ frames[Len(frames) - 1] \in Frame
        BY <1>1, <2>1 DEF StackShape, TypeOK
    <2>3. frames[Len(frames) - 1].unit \in Nat \ {0}
        BY <2>2 DEF FrameShape, Frame
    <2> QED
        BY <2>1, <2>3
<1> DEFINE id == AutoIdent(identCount)
           lam == units[m + 1]
           d == Lifted(id)
<1>3. /\ id \in Ident /\ identCount' = identCount + 1 /\ declarations' = Append(declarations, d)
      /\ units' = [Pop(units) EXCEPT ![Len(units) - 1].uses = @ \cup {id}]
    BY AutoFacts, CountFacts DEF LeaveLambda, Emit
<1>4. lam \in Unit /\ d = [lam EXCEPT !.name = id, !.binds = @ \cup {id}]
    BY <1>1, <1>2 DEF Lifted
<1>5. d \in Unit /\ d.binds = lam.binds \cup {id}
    BY <1>3, <1>4 DEF Unit
<1>6. Autos(d.binds) \subseteq Autos(lam.binds) \cup {id}
    <2> HIDE DEF id, lam, d
    <2>1. Autos(lam.binds \cup {id}) = Autos(lam.binds) \cup Autos({id}) /\ Autos({id}) \subseteq {id}
        BY AutosOfUnion
    <2> QED
        BY <1>5, <2>1
<1>7. Len(units') = m /\ \A k \in 1 .. m : units'[k].binds = units[k].binds
    BY <1>1, <1>2, <1>3, LeaveLambdaUnits
<1> HIDE DEF d
<1>8. PICK l \in Nat : l = m + 1
    OBVIOUS
<1>9. /\ l = Len(units) /\ l > 0 /\ Len(units') = l - 1
      /\ Autos(d.binds) \subseteq Autos(units[l].binds) \cup {id}
      /\ \A k \in 1 .. l - 1 : units'[k].binds = units[k].binds
    BY <1>2, <1>6, <1>7, <1>8
<1> QED
    BY <1>3, <1>5, <1>9, ApartWhenDone

LEMMA StepKeepsApart == IInv /\ IdentsApart /\ [Next]_vars => IdentsApart'
<1> SUFFICES ASSUME IInv, IdentsApart, [Next]_vars PROVE IdentsApart'
    OBVIOUS
<1>1. CASE UNCHANGED <<declarations, units, identCount>>
    BY <1>1 DEF IdentsApart
<1>2. ASSUME NEW name \in Name, NEW kind \in {"global", "funHeader"}, StartGlobal(kind, name)
      PROVE  IdentsApart'
    BY <1>2, ApartAtStart
<1>3. ASSUME NEW name \in Name, StartLocal(name) \/ DeclareFormal(name)
      PROVE  IdentsApart'
    <2>1. /\ Declare(name) /\ Bind({DeclaredIdent(name)}) /\ UNCHANGED declarations
          /\ units # <<>> /\ scope \in DOMAIN scopes
        BY <1>3, InRunning DEF StartLocal, DeclareFormal
    <2> QED
        BY <2>1, ApartWhenDeclared
<1>4. ASSUME NEW s, NEW itsVars, EnterLambda(s, itsVars)
      PROVE  IdentsApart'
    BY <1>4, ApartInLambda
<1>5. CASE LookupFound
    <2>1. /\ TypeOK /\ VarsBound /\ StackShape /\ HeapShape /\ LoopShape
          /\ frames # <<>> /\ current \in DOMAIN scopes /\ wanted \in Name
        BY <1>5, RunningShape, ReachedAlive DEF LookupFound, LookingUp, LoopShape
    <2>2. units # <<>>
        <3>1. Top \in Frame /\ FrameShape(Len(frames)) /\ Top = frames[Len(frames)]
            BY <2>1, TopFacts DEF StackShape
        <3> QED
            BY <2>1, <3>1, EmptySeq DEF FrameShape
    <2>3. scopes[current].vars[wanted] \in Ident
        BY <1>5, <2>1 DEF TypeOK, Scope, LookupFound
    <2>4. UseIdent(scopes[current].vars[wanted]) /\ UNCHANGED <<declarations, identCount>>
        BY <1>5 DEF LookupFound
    <2>5. Len(units') = Len(units) /\ \A k \in 1 .. Len(units) : units'[k].binds = units[k].binds
        BY <2>1, <2>2, <2>3, <2>4, UseFacts DEF UnitsGrow
    <2> QED
        BY <2>4, <2>5, ApartWhenKept
<1>6. CASE FinishGlobal \/ LeaveLambda
    BY <1>6, ApartAtFinish, ApartAtLeave
<1>7. ASSUME NEW s \in ScopeId,
             \/ EnterBlock(s)
             \/ EnterBody(s)
             \/ EnterAnonymous(s)
             \/ \E name \in Declared : EnterNamed(s, name)
      PROVE  IdentsApart'
    BY <1>1, <1>4, <1>7 DEF EnterBlock, EnterBody, EnterAnonymous, EnterNamed
<1>8. ASSUME NEW name \in Name, Redeclare(name) \/ StartLookup(name)
      PROVE  IdentsApart'
    BY <1>1, <1>8 DEF Redeclare, StartLookup, Fatal
<1>9. CASE \/ EnterEmptyBody \/ LeaveBlock \/ FinishLocal \/ StartLambda \/ BeginLambdaBody
           \/ LookupStep \/ LookupFailed \/ Climb \/ EndOfFile \/ SyntaxError
           \/ UNCHANGED vars
    BY <1>1, <1>9 DEF EnterEmptyBody, LeaveBlock, FinishLocal, StartLambda, BeginLambdaBody,
       LookupStep, LookupFailed, Climb, EndOfFile, SyntaxError, Fatal, vars
<1>10. CASE \E name \in Declared :
                \/ StartGlobal("global", name)
                \/ StartGlobal("funHeader", name)
                \/ StartLocal(name)
                \/ DeclareFormal(name)
                \/ Redeclare(name)
    BY <1>2, <1>3, <1>8, <1>10, ScopesAssumption
<1> QED
    BY <1>5, <1>6, <1>7, <1>8, <1>9, <1>10 DEF Next, Loop

\* What IdentsUnique says of the two sequences put together.
LEMMA ApartIsUnique ==
    ASSUME IInv, IdentsApart
    PROVE  IdentsUnique
<1> DEFINE all == declarations \o units
<1>1. /\ declarations \in Seq(Unit) /\ units \in Seq(Unit) /\ identCount \in Nat
      /\ Len(declarations) \in Nat /\ Len(units) \in Nat
    BY CountFacts
<1>2. /\ Len(all) = Len(declarations) + Len(units)
      /\ \A i \in 1 .. Len(all) : all[i] =
            IF i <= Len(declarations) THEN declarations[i] ELSE units[i - Len(declarations)]
    BY <1>1, ConcatProperties
<1> DEFINE Part(i) == IF i <= Len(declarations) THEN Own(declarations, i)
                      ELSE Own(units, i - Len(declarations))
<1> HIDE DEF all
<1>3. \A i \in 1 .. Len(all) : Autos(all[i].binds) = Part(i)
    BY <1>1, <1>2 DEF Own
<1>4. \A i \in 1 .. Len(all) : Part(i) \subseteq Made(identCount)
    BY <1>1, <1>2 DEF IdentsApart, Apart
<1>5. ASSUME NEW i \in 1 .. Len(all), NEW j \in 1 .. Len(all), i # j
      PROVE  Part(i) \cap Part(j) = {}
    <2>1. /\ i \in Nat /\ j \in Nat
          /\ i > Len(declarations) => i - Len(declarations) \in Nat
          /\ j > Len(declarations) => j - Len(declarations) \in Nat
          /\ i - Len(declarations) # j - Len(declarations)
        BY <1>1, <1>2, <1>5
    <2>2. CASE i <= Len(declarations) /\ j <= Len(declarations)
        BY <1>5, <2>1, <2>2 DEF IdentsApart, Apart
    <2>3. CASE i <= Len(declarations) /\ ~(j <= Len(declarations))
        BY <1>1, <2>1, <2>3 DEF IdentsApart, Apart
    <2>4. CASE ~(i <= Len(declarations)) /\ j <= Len(declarations)
        BY <1>1, <2>1, <2>4 DEF IdentsApart, Apart
    <2>5. CASE ~(i <= Len(declarations)) /\ ~(j <= Len(declarations))
        BY <1>1, <2>1, <2>5 DEF IdentsApart, Apart
    <2> QED
        BY <2>2, <2>3, <2>4, <2>5
<1>6. \A i \in 1 .. Len(all) :
        /\ \A id \in Autos(all[i].binds) : id.data < identCount
        /\ \A j \in 1 .. Len(all) :
            i # j => Autos(all[i].binds) \cap Autos(all[j].binds) = {}
    <2> HIDE DEF Part
    <2>1. \A id \in Made(identCount) : id.data < identCount
        BY <1>1, MadeFacts
    <2>2. ASSUME NEW i \in 1 .. Len(all)
          PROVE  \A id \in Autos(all[i].binds) : id.data < identCount
        BY <1>3, <1>4, <2>1
    <2>3. ASSUME NEW i \in 1 .. Len(all), NEW j \in 1 .. Len(all), i # j
          PROVE  Autos(all[i].binds) \cap Autos(all[j].binds) = {}
        BY <1>3, <1>5, <2>3
    <2> QED
        BY <2>2, <2>3
<1> QED
    BY <1>6 DEF all, IdentsUnique

\* An automatic identifier stands for one variable of the program: no two
\* declarations, finished or not, bind the same one, and all are within the
\* tables that the type checker allocates for them.
THEOREM IdentsStandForOne == Spec => []IdentsUnique
<1>1. Init => IdentsApart
    BY EmptySeq DEF Init, IdentsApart, Apart, Own
<1>2. IInv /\ IdentsApart => IdentsUnique
    BY ApartIsUnique
<1> QED
    BY <1>1, <1>2, InitKeeps, StepKeeps, StepKeepsApart, PTL DEF Spec

=============================================================================
