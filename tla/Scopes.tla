------------------------------- MODULE Scopes -------------------------------
(***************************************************************************)
(* Scoping and lambda lifting in scc/src/parser.c: the linked scopes that  *)
(* enterScope allocates and leaveScope frees, declare and lookup in them,  *)
(* and the parse functions that use them.  A `fun` inside an expression is *)
(* lifted: its body is parsed in a scope whose parent is the global one,   *)
(* and it is appended to `declarations` as a function of its own.          *)
(*                                                                         *)
(* The parse functions call each other recursively; frames is their call   *)
(* stack.  The source text is the environment: in every state the next     *)
(* token may be any that the running function accepts, or one it rejects.  *)
(* Of the tree being built only the identifiers matter here: units holds,  *)
(* for each declaration or function whose tree is unfinished, those it     *)
(* binds and those it uses.                                                *)
(***************************************************************************)
EXTENDS Integers, Sequences

CONSTANTS
    Name,               \* the identifiers of the source text
    Declared,           \* those that it declares somewhere
    ScopeId,            \* the addresses malloc may return for a Scope
    Global,             \* the one it returns first
    NULL,               \* the null pointer
    MaxIdent,           \* bound: calls of newIdent
    MaxDeclarations     \* bound: length of declarations

ASSUME ScopesAssumption ==
    /\ Declared \subseteq Name
    /\ NULL \notin ScopeId
    /\ Global \in ScopeId
    /\ MaxIdent \in Nat
    /\ MaxDeclarations \in Nat

VARIABLES
    scopes,         \* the allocated scopes: address -> [parent, vars]
    scope,          \* the innermost scope
    identCount,     \* the number of automatic identifiers made so far
    declarations,   \* the finished declarations, lifted functions included
    frames,         \* the parse functions that are running
    units,          \* the unfinished declarations and functions, outermost first
    pc,             \* "parse", or the loop that is running: "lookup", "climb"
    current,        \* the loop variable of lookup
    wanted,         \* the name lookup looks for
    oldScope,       \* the scope to return to after the lambda being entered
    status          \* "run", "done", or "fatal" after logFatal

vars == <<scopes, scope, identCount, declarations, frames, units,
          pc, current, wanted, oldScope, status>>

-----------------------------------------------------------------------------
(* Identifiers: newIdent makes automatic ones, makeIdent keeps the text. *)

AutoIdent(n) == [isAuto |-> TRUE, data |-> n]
TextIdent(name) == [isAuto |-> FALSE, data |-> name]

Ident == [isAuto : {TRUE}, data : Nat] \cup [isAuto : {FALSE}, data : Name]

Scope == [parent : ScopeId \cup {NULL}, vars : [Name -> Ident \cup {NULL}]]

Unit == [name : Ident, binds : SUBSET Ident, uses : SUBSET Ident]

Kind == {"global", "local", "block", "funHeader", "fun", "lambdaHeader", "lambda"}

\* at is the scope in which the call works and unit the index of its unit:
\* auxiliary values, which no action reads.  old is the variable oldScope of
\* the C function.
Frame == [kind : Kind, at : ScopeId, unit : Nat, old : ScopeId \cup {NULL}]

Top == frames[Len(frames)]
Pop(seq) == SubSeq(seq, 1, Len(seq) - 1)

-----------------------------------------------------------------------------
(* The scope functions. *)

NoVars == [name \in Name |-> NULL]

\* enterScope: the heap with a new scope s.
Entered(s, parent, itsVars) ==
    [t \in DOMAIN scopes \cup {s} |->
        IF t = s THEN [parent |-> parent, vars |-> itsVars] ELSE scopes[t]]

\* leaveScope: the heap without the scope s.
Left(s) == [t \in DOMAIN scopes \ {s} |-> scopes[t]]

IsGlobal(s) == scopes[s].parent = NULL

\* A mutation of DeclaredIdent: every declared name keeps its text.
DeclaredIdentText(name) == TextIdent(name)

\* The identifier declare gives a name in the innermost scope.
DeclaredIdent(name) ==
    IF IsGlobal(scope) THEN TextIdent(name) ELSE AutoIdent(identCount)

\* declare(name); the unit that binds the identifier is updated by the caller.
Declare(name) ==
    /\ scopes[scope].vars[name] = NULL
    /\ scopes' = [scopes EXCEPT ![scope].vars[name] = DeclaredIdent(name)]
    /\ IF IsGlobal(scope)
       THEN UNCHANGED identCount
       ELSE identCount < MaxIdent /\ identCount' = identCount + 1

\* logFatal ends the program.
Fatal ==
    /\ status' = "fatal"
    /\ UNCHANGED <<scopes, scope, identCount, declarations, frames, units,
                   pc, current, wanted, oldScope>>

-----------------------------------------------------------------------------
Parsing == status = "run" /\ pc = "parse"

In(kinds) == Parsing /\ frames # <<>> /\ Top.kind \in kinds

\* parseTerm has been called and more of the term may follow.
InTerm == In({"global", "local", "block", "lambda"})

Push(kind, at, unit, old) ==
    frames' = Append(frames, [kind |-> kind, at |-> at, unit |-> unit, old |-> old])

Become(kind) == frames' = [frames EXCEPT ![Len(frames)].kind = kind]

\* The identifiers ids join the tree of the unit being parsed.
Bind(ids) == units' = [units EXCEPT ![Len(units)].binds = @ \cup ids]
UseIdent(id) == units' = [units EXCEPT ![Len(units)].uses = @ \cup {id}]

NewUnit(id) == [name |-> id, binds |-> {id}, uses |-> {}]

Emit(d) ==
    /\ Len(declarations) < MaxDeclarations
    /\ declarations' = Append(declarations, d)

Init ==
    /\ scopes = [s \in {Global} |-> [parent |-> NULL, vars |-> NoVars]]
    /\ scope = Global
    /\ identCount = 0
    /\ declarations = <<>>
    /\ frames = <<>>
    /\ units = <<>>
    /\ pc = "parse"
    /\ current = NULL
    /\ wanted = NULL
    /\ oldScope = NULL
    /\ status = "run"

\* A top-level declaration or function, up to its declare.
StartGlobal(kind, name) ==
    /\ Parsing
    /\ frames = <<>>
    /\ Declare(name)
    /\ units' = <<NewUnit(DeclaredIdent(name))>>
    /\ Push(kind, scope, 1, NULL)
    /\ UNCHANGED <<scope, declarations, pc, current, wanted, oldScope, status>>

\* A declaration in a block: the name is declared before its initialiser.
StartLocal(name) ==
    /\ In({"block"})
    /\ Declare(name)
    /\ Bind({DeclaredIdent(name)})
    /\ Push("local", scope, Len(units), NULL)
    /\ UNCHANGED <<scope, declarations, pc, current, wanted, oldScope, status>>

\* One formal of a top-level function or of a lambda.
DeclareFormal(name) ==
    /\ In({"funHeader", "lambdaHeader"})
    /\ Declare(name)
    /\ Bind({DeclaredIdent(name)})
    /\ UNCHANGED <<scope, declarations, frames, pc, current, wanted, oldScope, status>>

\* A second declaration of a name in the same scope.
Redeclare(name) ==
    /\ \/ Parsing /\ frames = <<>>
       \/ In({"block", "funHeader", "lambdaHeader"})
    /\ scopes[scope].vars[name] # NULL
    /\ Fatal

FinishLocal ==
    /\ In({"local"})
    /\ frames' = Pop(frames)
    /\ UNCHANGED <<scopes, scope, identCount, declarations, units,
                   pc, current, wanted, oldScope, status>>

\* The end of a top-level declaration or function: parse appends it.
FinishGlobal ==
    /\ In({"global", "fun"})
    /\ Emit(units[Len(units)])
    /\ frames' = Pop(frames)
    /\ units' = Pop(units)
    /\ UNCHANGED <<scopes, scope, identCount, pc, current, wanted, oldScope, status>>

-----------------------------------------------------------------------------
(* parseBracedBlock; an empty block in a term changes nothing. *)

EnterScope(s, parent, itsVars) ==
    /\ s \in ScopeId \ DOMAIN scopes
    /\ scopes' = Entered(s, parent, itsVars)
    /\ scope' = s

EnterBlock(s) ==
    /\ InTerm
    /\ EnterScope(s, scope, NoVars)
    /\ Push("block", s, Len(units), NULL)
    /\ UNCHANGED <<identCount, declarations, units, pc, current, wanted, oldScope, status>>

\* The body of a top-level function, once its formals are declared.
EnterBody(s) ==
    /\ In({"funHeader"})
    /\ EnterScope(s, scope, NoVars)
    /\ frames' = Append([frames EXCEPT ![Len(frames)].kind = "fun"],
                        [kind |-> "block", at |-> s, unit |-> Len(units), old |-> NULL])
    /\ UNCHANGED <<identCount, declarations, units, pc, current, wanted, oldScope, status>>

EnterEmptyBody ==
    /\ In({"funHeader"})
    /\ Become("fun")
    /\ UNCHANGED <<scopes, scope, identCount, declarations, units,
                   pc, current, wanted, oldScope, status>>

\* A mutation of LeaveBlock: the block returns without calling leaveScope.
LeaveBlockInScope ==
    /\ In({"block"})
    /\ frames' = Pop(frames)
    /\ UNCHANGED <<scopes, scope, identCount, declarations, units,
                   pc, current, wanted, oldScope, status>>

LeaveBlock ==
    /\ In({"block"})
    /\ scopes' = Left(scope)
    /\ scope' = scopes[scope].parent
    /\ frames' = Pop(frames)
    /\ UNCHANGED <<identCount, declarations, units, pc, current, wanted, oldScope, status>>

-----------------------------------------------------------------------------
(* lookup, called by parseAtom for a variable. *)

StartLookup(name) ==
    /\ InTerm
    /\ pc' = "lookup"
    /\ current' = scope
    /\ wanted' = name
    /\ UNCHANGED <<scopes, scope, identCount, declarations, frames, units, oldScope, status>>

LookingUp == status = "run" /\ pc = "lookup"

\* A mutation of LookupStep: the loop tests the same scope again.
LookupStepStuck ==
    /\ LookingUp
    /\ current # NULL
    /\ scopes[current].vars[wanted] = NULL
    /\ UNCHANGED vars

\* No such name in this scope: on to its parent.
LookupStep ==
    /\ LookingUp
    /\ current # NULL
    /\ scopes[current].vars[wanted] = NULL
    /\ current' = scopes[current].parent
    /\ UNCHANGED <<scopes, scope, identCount, declarations, frames, units,
                   pc, wanted, oldScope, status>>

\* A mutation of LookupFound: the name of the source text is kept.
LookupFoundName ==
    /\ LookingUp
    /\ current # NULL
    /\ scopes[current].vars[wanted] # NULL
    /\ UseIdent(wanted)
    /\ pc' = "parse"
    /\ current' = NULL
    /\ wanted' = NULL
    /\ UNCHANGED <<scopes, scope, identCount, declarations, frames, oldScope, status>>

LookupFound ==
    /\ LookingUp
    /\ current # NULL
    /\ scopes[current].vars[wanted] # NULL
    /\ UseIdent(scopes[current].vars[wanted])
    /\ pc' = "parse"
    /\ current' = NULL
    /\ wanted' = NULL
    /\ UNCHANGED <<scopes, scope, identCount, declarations, frames, oldScope, status>>

\* "Undefined variable"
LookupFailed ==
    /\ LookingUp
    /\ current = NULL
    /\ Fatal

-----------------------------------------------------------------------------
(* parseControlFlow of a lambda. *)

StartLambda ==
    /\ InTerm
    /\ pc' = "climb"
    /\ oldScope' = scope
    /\ UNCHANGED <<scopes, scope, identCount, declarations, frames, units,
                   current, wanted, status>>

Climbing == status = "run" /\ pc = "climb"

\* One iteration of the loop that leads to the global scope.
Climb ==
    /\ Climbing
    /\ ~IsGlobal(scope)
    /\ scope' = scopes[scope].parent
    /\ UNCHANGED <<scopes, identCount, declarations, frames, units,
                   pc, current, wanted, oldScope, status>>

\* A mutation of EnterLambda: the lambda's scope is entered from the scope the
\* lambda is written in.
EnterLambdaInPlace(s, itsVars) ==
    /\ Climbing
    /\ IsGlobal(scope)
    /\ identCount < MaxIdent
    /\ identCount' = identCount + 1
    /\ EnterScope(s, oldScope, itsVars)
    /\ Push("lambdaHeader", s, Len(units) + 1, oldScope)
    /\ units' = Append(units, NewUnit(AutoIdent(identCount)))
    /\ pc' = "parse"
    /\ oldScope' = NULL
    /\ UNCHANGED <<declarations, current, wanted, status>>

\* The lambda's own scope, with its own name declared in it or with a new
\* identifier for a lambda without one.
EnterLambda(s, itsVars) ==
    /\ Climbing
    /\ IsGlobal(scope)
    /\ identCount < MaxIdent
    /\ identCount' = identCount + 1
    /\ EnterScope(s, scope, itsVars)
    /\ Push("lambdaHeader", s, Len(units) + 1, oldScope)
    /\ units' = Append(units, NewUnit(AutoIdent(identCount)))
    /\ pc' = "parse"
    /\ oldScope' = NULL
    /\ UNCHANGED <<declarations, current, wanted, status>>

EnterAnonymous(s) == EnterLambda(s, NoVars)

EnterNamed(s, name) == EnterLambda(s, [NoVars EXCEPT ![name] = AutoIdent(identCount)])

BeginLambdaBody ==
    /\ In({"lambdaHeader"})
    /\ Become("lambda")
    /\ UNCHANGED <<scopes, scope, identCount, declarations, units,
                   pc, current, wanted, oldScope, status>>

\* The function that a finished lambda is lifted to.
Lifted(lambdaIdent) ==
    LET lambda == units[Len(units)]
    IN  [lambda EXCEPT !.name = lambdaIdent, !.binds = @ \cup {lambdaIdent}]

\* A mutation of LeaveLambda: continues in the parent of the lambda's scope.
LeaveLambdaToParent ==
    /\ In({"lambda"})
    /\ identCount < MaxIdent
    /\ identCount' = identCount + 1
    /\ Emit(Lifted(AutoIdent(identCount)))
    /\ scopes' = Left(scope)
    /\ scope' = scopes[scope].parent
    /\ frames' = Pop(frames)
    /\ units' = [Pop(units) EXCEPT ![Len(units) - 1].uses = @ \cup {AutoIdent(identCount)}]
    /\ UNCHANGED <<pc, current, wanted, oldScope, status>>

\* A mutation of LeaveLambda: the identifier of the lifted function is not counted,
\* so the next one that is asked for is the same.
LeaveLambdaSameIdent ==
    /\ In({"lambda"})
    /\ UNCHANGED identCount
    /\ Emit(Lifted(AutoIdent(identCount)))
    /\ scopes' = Left(scope)
    /\ scope' = Top.old
    /\ frames' = Pop(frames)
    /\ units' = [Pop(units) EXCEPT ![Len(units) - 1].uses = @ \cup {AutoIdent(identCount)}]
    /\ UNCHANGED <<pc, current, wanted, oldScope, status>>

\* The end of a lambda: it becomes a declaration under a new identifier, which
\* stands for it in the enclosing term, and its scope is left.
LeaveLambda ==
    /\ In({"lambda"})
    /\ identCount < MaxIdent
    /\ identCount' = identCount + 1
    /\ Emit(Lifted(AutoIdent(identCount)))
    /\ scopes' = Left(scope)
    /\ scope' = Top.old
    /\ frames' = Pop(frames)
    /\ units' = [Pop(units) EXCEPT ![Len(units) - 1].uses = @ \cup {AutoIdent(identCount)}]
    /\ UNCHANGED <<pc, current, wanted, oldScope, status>>

-----------------------------------------------------------------------------
\* The end of the source text: parse leaves the global scope.
EndOfFile ==
    /\ Parsing
    /\ frames = <<>>
    /\ scopes' = Left(scope)
    /\ scope' = scopes[scope].parent
    /\ status' = "done"
    /\ UNCHANGED <<identCount, declarations, frames, units, pc, current, wanted, oldScope>>

\* The next token is not one that the running function accepts.
SyntaxError == Parsing /\ Fatal

Loop ==
    \/ LookupStep
    \/ LookupFound
    \/ LookupFailed
    \/ Climb

Next ==
    \/ \E name \in Declared :
        \/ StartGlobal("global", name)
        \/ StartGlobal("funHeader", name)
        \/ StartLocal(name)
        \/ DeclareFormal(name)
        \/ Redeclare(name)
    \/ \E name \in Name : StartLookup(name)
    \/ \E s \in ScopeId :
        \/ EnterBlock(s)
        \/ EnterBody(s)
        \/ EnterAnonymous(s)
        \/ \E name \in Declared : EnterNamed(s, name)
    \/ EnterEmptyBody
    \/ LeaveBlock
    \/ FinishLocal
    \/ FinishGlobal
    \/ StartLambda
    \/ BeginLambdaBody
    \/ LeaveLambda
    \/ Loop
    \/ EndOfFile
    \/ SyntaxError

\* The loops of the one thread run on; nothing obliges the source to end.
Spec == Init /\ [][Next]_vars /\ WF_vars(Loop)

-----------------------------------------------------------------------------
Autos(ids) == {id \in ids : id.isAuto}

TypeOK ==
    /\ DOMAIN scopes \subseteq ScopeId
    /\ scopes \in [DOMAIN scopes -> Scope]
    /\ scope \in ScopeId \cup {NULL}
    /\ identCount \in 0 .. MaxIdent
    /\ declarations \in Seq(Unit)
    /\ frames \in Seq(Frame)
    /\ units \in Seq(Unit)
    /\ pc \in {"parse", "lookup", "climb"}
    /\ current \in ScopeId \cup {NULL}
    /\ wanted \in Name \cup {NULL}
    /\ oldScope \in ScopeId \cup {NULL}
    /\ status \in {"run", "done", "fatal"}

\* No scope that is still pointed at has been freed: not the innermost scope,
\* the parent of an allocated one, the oldScope a lambda goes back to, nor the
\* scope lookup has come to (enterScope, leaveScope and the three places that
\* assign `scope` in parseControlFlow).
ScopesAlive ==
    status # "done" =>
        /\ scope \in DOMAIN scopes
        /\ \A s \in DOMAIN scopes : scopes[s].parent \in DOMAIN scopes \cup {NULL}
        /\ \A i \in 1 .. Len(frames) : frames[i].old \in DOMAIN scopes \cup {NULL}
        /\ current \in DOMAIN scopes \cup {NULL}
        /\ oldScope \in DOMAIN scopes \cup {NULL}

\* Between top-level declarations the global scope is the innermost and the
\* only one, and at the end of the file every scope has been freed, whatever
\* blocks and lambdas were opened inside one another.
ScopesBalanced ==
    /\ status = "run" /\ frames = <<>> => scope = Global /\ DOMAIN scopes = {Global}
    /\ status = "done" => scope = NULL /\ DOMAIN scopes = {}

\* Lambda lifting leaves no free variable: an automatic identifier used in a
\* finished declaration is bound in that same declaration or is the name of
\* one emitted before it, so a lifted function never refers to a local of the
\* function it was written in, and never to a function emitted later.
LiftedClosed ==
    \A i \in 1 .. Len(declarations) :
        Autos(declarations[i].uses) \subseteq
            declarations[i].binds \cup {declarations[j].name : j \in 1 .. i - 1}

\* No automatic identifier is bound in two declarations, finished or not, and
\* all are below identCount, the size the type checker gives its tables
\* (getMaxId): there, an identifier stands for one variable of the program.
IdentsUnique ==
    LET all == declarations \o units
    IN  \A i \in 1 .. Len(all) :
            /\ \A id \in Autos(all[i].binds) : id.data < identCount
            /\ \A j \in 1 .. Len(all) :
                i # j => Autos(all[i].binds) \cap Autos(all[j].binds) = {}

\* A function's formals are known in its body alone, as in the typing rule for
\* abstractions (spec/syntax.typ): the text identifiers a finished declaration
\* uses are names of top-level declarations or bound by that declaration.  It
\* does not hold: the formals of a top-level `fun` are declared in the global
\* scope.
FormalsAreLocal ==
    LET names == {declarations[i].name : i \in 1 .. Len(declarations)}
                    \cup {units[i].name : i \in 1 .. Len(units)}
    IN  \A i \in 1 .. Len(declarations) :
            declarations[i].uses \ Autos(declarations[i].uses) \subseteq
                declarations[i].binds \cup names

\* Every walk up the scopes, of lookup and of a lambda's way to the global
\* scope, comes to its end.
LoopsEnd ==
    /\ LookingUp ~> ~LookingUp
    /\ Climbing /\ ~IsGlobal(scope) ~> ~Climbing \/ IsGlobal(scope)

=============================================================================
