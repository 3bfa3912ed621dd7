------------------------------ MODULE Emitter -------------------------------
(***************************************************************************)
(* scc/src/emitter.c: from a typed program to the lines of QBE's           *)
(* intermediate language.                                                  *)
(*                                                                         *)
(* The recursion of emitExpression is a stack, as in Typer: in a frame,    *)
(* `at` is how many parts of the term have been dealt with.  The three     *)
(* buffers are the lines, and two counters for the types and the data.     *)
(* Classes of values (w, l, ...) and the layout of the text are left out.  *)
(***************************************************************************)
EXTENDS Terms, FiniteSets

VARIABLES
    program,
    heap,       \* types and what they stand for, as Typer has left them
    typed,      \* term->type
    declType,   \* the types of the declarations
    frames,     \* the running calls of emitExpression, the last one first
    symbol,     \* what emitExpression has returned for a term, or NULL
    lines,
    max,        \* maxLocal, maxLabel, maxStruct and maxGlobal
    emitted,    \* how many declarations have been emitted
    status      \* "typed" while the emitter runs, then "emitted" or "fatal"

vars == <<program, heap, typed, declType, frames, symbol, lines, max, emitted, status>>

-----------------------------------------------------------------------------
(* Symbols and lines *)

\* A local is a temporary, a global a name of the source, and data what
\* newGlobal makes.  The symbol can be indeterminate, and where the code passes
\* a symbol to printf that expects a number, garbage is printed.
Symbol ==
    [space : {"local", "global", "data", "type", "indeterminate", "garbage"},
     id : Nat, text : Text]

Local(n) == [space |-> "local", id |-> n, text |-> ""]
Global(text) == [space |-> "global", id |-> 0, text |-> text]
Data(n) == [space |-> "data", id |-> n, text |-> ""]
Indeterminate == [space |-> "indeterminate", id |-> 0, text |-> ""]
Garbage == [space |-> "garbage", id |-> 0, text |-> ""]

idToSymbol(name) == IF name.isAuto THEN Local(name.id) ELSE Global(name.text)

\* A line: the temporaries before its `=`, the symbols it reads, and the labels
\* it defines or jumps to.  `of` is, auxiliary, the term it was written for.
Line ==
    [op : BinaryOp \cup {"function", "end", "label", "jnz", "jmp", "ret", "copy", "call"},
     to : Seq(Symbol), from : Seq(Symbol), labels : Seq(Nat),
     name : identifier, value : Int, of : Nat]

NoName == TextIdent("")

Op(op, term) ==
    [op |-> op, to |-> <<>>, from |-> <<>>, labels |-> <<>>,
     name |-> NoName, value |-> 0, of |-> term]

Copy(to, from, term) == [Op("copy", term) EXCEPT !.to = <<to>>, !.from = <<from>>]
CopyNumber(to, value, term) == [Op("copy", term) EXCEPT !.to = to, !.value = value]
Label(n, term) == [Op("label", term) EXCEPT !.labels = <<n>>]
Jump(n, term) == [Op("jmp", term) EXCEPT !.labels = <<n>>]
Branch(on, yes, no, term) ==
    [Op("jnz", term) EXCEPT !.from = <<on>>, !.labels = <<yes, no>>]

-----------------------------------------------------------------------------
(* Types *)

\* The type that the term has: a variable remains one, though it may have come
\* to stand for another type after the term was typed.
TypeOf(t) == heap.type[typed[t]]

IsUnit(t) == isUnitType(TypeOf(t))

\* convertType, which fails for the others.
Convertible(type) ==
    type.kind \in Numeric \cup {"bool"} \/ (type.kind \in Structs /\ ~isUnitType(type))

\* newStructType, each time that a struct is converted.
CountStructs(types) == Cardinality({i \in DOMAIN types : types[i].kind \in Structs})

-----------------------------------------------------------------------------
Init ==
    /\ frames = <<>>
    /\ symbol = [t \in DOMAIN program.terms |-> NULL]
    /\ lines = <<>>
    /\ max = [local |-> program.maxId, label |-> 0, struct |-> 0, global |-> 0]
    /\ emitted = 0

\* result and label are those of an operator or a call, once made: the
\* temporary, and the last label before its own.
Frame(t) == [term |-> t, at |-> 0, result |-> NULL, label |-> 0]

Top == Head(frames)
This == program.terms[Top.term]
Kid == This.kids[Top.at + 1]

Turn(kinds) == status = "typed" /\ frames # <<>> /\ This.kind \in kinds

\* An operator or a call makes its temporary before its parts are emitted.
Begun == This.kind \in {"binary", "application"} => Top.result # NULL

Complete(kinds) == Turn(kinds) /\ Begun /\ Top.at = Len(This.kids)
Calls(kinds) == Turn(kinds) /\ Begun /\ Top.at < Len(This.kids) /\ symbol[Kid] = NULL
Returned(kinds) == Turn(kinds) /\ Begun /\ Top.at < Len(This.kids) /\ symbol[Kid] # NULL

\* What emitExpression has returned for the i-th part.
Value(i) == symbol[This.kids[i]]

Write(text) == lines' = lines \o text

TakeKid == frames' = [frames EXCEPT ![1].at = @ + 1] /\ UNCHANGED symbol

\* The end of emitExpression.
Return(result) ==
    /\ frames' = Tail(frames)
    /\ symbol' = [symbol EXCEPT ![Top.term] = result]

Typed == UNCHANGED <<program, heap, typed, declType>>
Same == Typed /\ UNCHANGED <<emitted, status>>

Fatal ==
    /\ status' = "fatal"
    /\ Typed /\ UNCHANGED <<frames, symbol, lines, max, emitted>>

Require(condition, step) == IF condition THEN step ELSE Fatal

-----------------------------------------------------------------------------
(* emitExpression *)

\* The exp of a return that is unit is not emitted.
EmitKid ==
    /\ Calls({"return", "binary", "application", "assignment", "block"})
    /\ This.kind = "return" => ~IsUnit(Kid)
    /\ frames' = <<Frame(Kid)>> \o frames
    /\ Same /\ UNCHANGED <<symbol, lines, max>>

EmitReturnUnit ==
    /\ Calls({"return"}) /\ IsUnit(Kid)
    /\ Write(<<Op("ret", Top.term)>>)
    /\ Return(Indeterminate)
    /\ Same /\ UNCHANGED max

\* The symbol is written as if it were that of a type.
EmitReturn ==
    /\ Returned({"return"})
    /\ Write(<<[Op("ret", Top.term) EXCEPT !.from = <<[symbol[Kid] EXCEPT !.space = "type"]>>]>>)
    /\ Return(symbol[Kid])
    /\ Same /\ UNCHANGED max

\* newLocal.
NewLocal == Local(max.local + 1)

\* A mutation of EmitBoolean: the temporary is made, not counted.
EmitBooleanUncounted ==
    /\ Complete({"boolean"})
    /\ Write(<<CopyNumber(<<NewLocal, Garbage>>, This.value, Top.term)>>)
    /\ UNCHANGED max
    /\ Return(NewLocal)
    /\ Same

\* The temporary is written twice, the second time as garbage.
EmitBoolean ==
    /\ Complete({"boolean"})
    /\ Write(<<CopyNumber(<<NewLocal, Garbage>>, This.value, Top.term)>>)
    /\ max' = [max EXCEPT !.local = @ + 1]
    /\ Return(NewLocal)
    /\ Same

EmitConstant ==
    /\ Complete({"constant"})
    /\ Write(<<CopyNumber(<<NewLocal>>, This.value, Top.term)>>)
    /\ max' = [max EXCEPT !.local = @ + 1]
    /\ Return(NewLocal)
    /\ Same

\* The members are not emitted.
EmitStructure ==
    /\ Turn({"structure"})
    /\ IF IsUnit(Top.term)
       THEN Return(Indeterminate) /\ UNCHANGED max
       ELSE Return(Data(max.global + 1)) /\ max' = [max EXCEPT !.global = @ + 1]
    /\ Same /\ UNCHANGED lines

\* A variable is not copied: its symbol stands for what it will hold when read.
EmitVar ==
    /\ Complete({"var"})
    /\ Return(idToSymbol(This.names[1]))
    /\ Same /\ UNCHANGED <<lines, max>>

\* A mutation of EnterBinary: of the four labels three are counted.
EnterBinaryThree ==
    /\ Turn({"binary"}) /\ Top.result = NULL
    /\ frames' = [frames EXCEPT ![1].result = NewLocal, ![1].label = max.label]
    /\ max' = [max EXCEPT !.local = @ + 1, !.label = @ + (IF This.op \in Logical THEN 3 ELSE 0)]
    /\ Same /\ UNCHANGED <<symbol, lines>>

\* newLocal, and newLabel four times for `and` and `or`.
EnterBinary ==
    /\ Turn({"binary"}) /\ Top.result = NULL
    /\ frames' = [frames EXCEPT ![1].result = NewLocal, ![1].label = max.label]
    /\ max' = [max EXCEPT !.local = @ + 1, !.label = @ + (IF This.op \in Logical THEN 4 ELSE 0)]
    /\ Same /\ UNCHANGED <<symbol, lines>>

bLabel == Top.label + 1
falseLabel == Top.label + 2
trueLabel == Top.label + 3
endLabel == Top.label + 4

\* A mutation of EmitLeft: the left operand of `or` decides the other way round.
EmitLeftSwapped ==
    /\ Returned({"binary"}) /\ Top.at = 0 /\ This.op \in Logical
    /\ Write(<<IF This.op = "and"
               THEN Branch(symbol[Kid], bLabel, falseLabel, Top.term)
               ELSE Branch(symbol[Kid], bLabel, trueLabel, Top.term),
               Label(bLabel, Top.term)>>)
    /\ TakeKid
    /\ Same /\ UNCHANGED max

\* Between the operands of `and` and `or`.
EmitLeft ==
    /\ Returned({"binary"}) /\ Top.at = 0 /\ This.op \in Logical
    /\ Write(<<IF This.op = "and"
               THEN Branch(symbol[Kid], bLabel, falseLabel, Top.term)
               ELSE Branch(symbol[Kid], trueLabel, bLabel, Top.term),
               Label(bLabel, Top.term)>>)
    /\ TakeKid
    /\ Same /\ UNCHANGED max

\* A mutation of LogicalLines: the result is written on one of the two paths.
LogicalLinesHalf(result) ==
    <<Branch(Value(2), trueLabel, falseLabel, Top.term),
      Label(falseLabel, Top.term),
      Jump(endLabel, Top.term),
      Label(trueLabel, Top.term),
      CopyNumber(result, 1, Top.term),
      Label(endLabel, Top.term)>>

\* The result of `and` is passed to printf, that of `or` is written.
LogicalLines(result) ==
    <<Branch(Value(2), trueLabel, falseLabel, Top.term),
      Label(falseLabel, Top.term),
      CopyNumber(result, 0, Top.term),
      Jump(endLabel, Top.term),
      Label(trueLabel, Top.term),
      CopyNumber(result, 1, Top.term),
      Label(endLabel, Top.term)>>

EmitLogical ==
    /\ Complete({"binary"}) /\ This.op \in Logical
    /\ Write(LogicalLines(IF This.op = "and" THEN <<Garbage>> ELSE <<Top.result>>))
    /\ Return(Top.result)
    /\ Same /\ UNCHANGED max

EmitOperator ==
    /\ Complete({"binary"}) /\ This.op \notin Logical
    /\ Write(<<[Op(This.op, Top.term) EXCEPT !.to = <<Top.result, Garbage>>,
                                             !.from = <<Value(1), Value(2)>>]>>)
    /\ Return(Top.result)
    /\ Same /\ UNCHANGED max

\* An operand, an argument, or a statement that declares nothing.
TakeEmitted ==
    /\ \/ Returned({"application"})
       \/ Returned({"binary"}) /\ (Top.at = 1 \/ This.op \notin Logical)
       \/ Returned({"block"}) /\ (Top.at < Len(This.names) => This.names[Top.at + 1] = NULL)
    /\ TakeKid
    /\ Same /\ UNCHANGED <<lines, max>>

\* emitDeclaration, once the value is emitted.
EmitDeclaration(name, value, step) ==
    IF IsUnit(value)
    THEN step /\ Same /\ UNCHANGED <<lines, max>>
    ELSE Require(Convertible(TypeOf(value)),
            /\ Write(<<Copy(idToSymbol(name), symbol[value], Top.term)>>)
            /\ max' = [max EXCEPT !.struct = @ + CountStructs(<<TypeOf(value)>>)]
            /\ step /\ Same)

\* The lvalue is a variable: the type checker knows no other.
EmitAssignment ==
    /\ Returned({"assignment"})
    /\ EmitDeclaration(program.terms[This.kids[2]].names[1], Kid, Return(Indeterminate))

EmitLocal ==
    /\ Returned({"block"}) /\ Top.at < Len(This.names) /\ This.names[Top.at + 1] # NULL
    /\ EmitDeclaration(This.names[Top.at + 1], Kid, TakeKid)

\* If the value is unit the result remains as it was.
EmitBlock ==
    /\ Complete({"block"})
    /\ Return(IF Len(This.kids) > Len(This.names) /\ ~IsUnit(This.kids[Len(This.kids)])
              THEN Value(Len(This.kids)) ELSE Indeterminate)
    /\ Same /\ UNCHANGED <<lines, max>>

\* newLocal, whether or not the call has a result.  The callee is not emitted.
EnterCall ==
    /\ Turn({"application"}) /\ Top.result = NULL
    /\ frames' = [frames EXCEPT ![1].result = NewLocal, ![1].at = 1]
    /\ max' = [max EXCEPT !.local = @ + 1]
    /\ Same /\ UNCHANGED <<symbol, lines>>

\* toString takes an automatic identifier for a text, and gets none.  What it
\* gets of a callee that is no variable is garbage.
toString(callee) ==
    IF callee.kind = "var" /\ ~callee.names[1].isAuto THEN callee.names[1] ELSE NoName

\* The arguments that are no unit, and the types that are written in the line.
Proper(kids) ==
    LET proper[i \in DOMAIN kids] ==
            IF i = 1 THEN <<>>
            ELSE IF IsUnit(kids[i]) THEN proper[i - 1] ELSE Append(proper[i - 1], kids[i])
    IN  proper[Len(kids)]
Written == [i \in DOMAIN Proper(This.kids) |-> TypeOf(Proper(This.kids)[i])]
            \o (IF IsUnit(Top.term) THEN <<>> ELSE <<TypeOf(Top.term)>>)

EmitCall ==
    /\ Complete({"application"})
    /\ Require(\A i \in DOMAIN Written : Convertible(Written[i]),
        /\ Write(<<[Op("call", Top.term) EXCEPT
                    !.to = IF IsUnit(Top.term) THEN <<>> ELSE <<Top.result>>,
                    !.from = [i \in DOMAIN Proper(This.kids) |-> symbol[Proper(This.kids)[i]]],
                    !.name = toString(program.terms[This.kids[1]])]>>)
        /\ max' = [max EXCEPT !.struct = @ + CountStructs(Written)]
        /\ Return(Top.result) /\ Same)

\* The kinds that the type checker knows and the emitter does not.
NotImplemented == Turn({"conditional", "break", "continue"}) /\ Fatal

-----------------------------------------------------------------------------
(* emitGlobalDeclaration *)

NextDecl == program.decls[emitted + 1]

AtDecl == status = "typed" /\ frames = <<>> /\ emitted < Len(program.decls)

IsFunction == NextDecl.exp # NULL /\ program.terms[NextDecl.exp].kind = "function"
Body == program.terms[NextDecl.exp].kids[1]

\* The second loop of type has resolved the result type.
ResultType ==
    heap.type[heap.is[LastType(heap.type[declType[emitted + 1]].parts)]]

SkipDecl ==
    /\ AtDecl /\ ~IsFunction
    /\ emitted' = emitted + 1
    /\ Typed /\ UNCHANGED <<frames, symbol, lines, max, status>>

\* The formals are not written.
StartFunction ==
    /\ AtDecl /\ IsFunction /\ symbol[Body] = NULL
    /\ Require(isUnitType(ResultType) \/ Convertible(ResultType),
        /\ Write(<<[Op("function", 0) EXCEPT !.name = NextDecl.name]>>)
        /\ max' = [max EXCEPT !.struct =
                        @ + (IF isUnitType(ResultType) THEN 0 ELSE CountStructs(<<ResultType>>))]
        /\ frames' = <<Frame(Body)>>
        /\ Same /\ UNCHANGED symbol)

FinishFunction ==
    /\ AtDecl /\ IsFunction /\ symbol[Body] # NULL
    /\ Write(<<[Op("ret", 0) EXCEPT !.from = IF isUnitType(ResultType) THEN <<>>
                                             ELSE <<symbol[Body]>>],
               Op("end", 0)>>)
    /\ emitted' = emitted + 1
    /\ Typed /\ UNCHANGED <<frames, symbol, max, status>>

\* emitProgram writes the buffers.
Finish ==
    /\ status = "typed" /\ frames = <<>> /\ emitted = Len(program.decls)
    /\ status' = "emitted"
    /\ Typed /\ UNCHANGED <<frames, symbol, lines, max, emitted>>

Next ==
    \/ EmitKid \/ EmitReturnUnit \/ EmitReturn
    \/ EmitBoolean \/ EmitConstant \/ EmitStructure \/ EmitVar
    \/ EnterBinary \/ EmitLeft \/ EmitLogical \/ EmitOperator
    \/ TakeEmitted \/ EmitAssignment \/ EmitLocal \/ EmitBlock
    \/ EnterCall \/ EmitCall
    \/ NotImplemented
    \/ SkipDecl \/ StartFunction \/ FinishFunction \/ Finish

=============================================================================
