------------------------------ MODULE Meaning -------------------------------
(***************************************************************************)
(* What a program and the lines emitted for it do, and that it is the same *)
(* thing: the calls they make, with their arguments, and their result.     *)
(*                                                                         *)
(* A value is a number: a boolean is 0 or 1, unit and a struct are 0.      *)
(***************************************************************************)
EXTENDS Backend

CONSTANT Answer     \* what a call of each function returns

\* Operators are the same on both sides, so numbers without a width serve.
Bit(b) == IF b THEN 1 ELSE 0

Apply(op, a, b) ==
    CASE op = "+" -> a + b
      [] op = "-" -> a - b
      [] op = "*" -> a * b
      [] op = "/" -> IF b > 0 THEN a \div b ELSE 0
      [] op = "%" -> IF b > 0 THEN a % b ELSE 0
      [] op = "==" -> Bit(a = b)
      [] op = "!=" -> Bit(a # b)
      [] op = "<" -> Bit(a < b)
      [] op = "<=" -> Bit(a <= b)
      [] op = ">" -> Bit(a > b)
      [] op = ">=" -> Bit(a >= b)

\* A run: the variables, the calls made, and whether it has returned.
Start == [env |-> [n \in 0 .. max.local |-> 0], calls |-> <<>>, returned |-> FALSE, value |-> 0]

Yield(s, value) == IF s.returned THEN s ELSE [s EXCEPT !.value = value]

Store(s, n, value) ==
    IF s.returned THEN s ELSE [s EXCEPT !.env = [@ EXCEPT ![n] = value], !.value = 0]

Record(s, name, args, isUnit) ==
    IF s.returned THEN s
    ELSE [s EXCEPT !.calls = Append(@, <<name, args>>),
                   !.value = IF isUnit THEN 0 ELSE Answer[name]]

-----------------------------------------------------------------------------
(* The meaning of a term, its parts being evaluated from left to right. *)

RECURSIVE Evaluate(_, _), EvaluateArgs(_, _), EvaluateBlock(_, _, _)

\* The arguments, with the values of those that are no unit.
EvaluateArgs(kids, s) ==
    IF kids = <<>> THEN [run |-> s, args |-> <<>>]
    ELSE LET run == Evaluate(Head(kids), s)
             rest == EvaluateArgs(Tail(kids), run)
         IN  [rest EXCEPT !.args = IF E!IsUnit(Head(kids)) THEN @ ELSE <<run.value>> \o @]

EvaluateBlock(term, i, s) ==
    IF i > Len(term.kids) THEN (IF i > Len(term.names) + 1 THEN s ELSE Yield(s, 0))
    ELSE LET run == Evaluate(term.kids[i], s)
         IN  EvaluateBlock(term, i + 1,
                IF i <= Len(term.names) /\ term.names[i] # NULL
                THEN Store(run, term.names[i].id, run.value) ELSE run)

Evaluate(t, s) ==
    LET term == program.terms[t]
        first == Evaluate(term.kids[1], s)
        second == Evaluate(term.kids[2], first)
    IN  IF s.returned THEN s
        ELSE CASE term.kind \in {"constant", "boolean"} -> Yield(s, term.value)
               [] term.kind = "structure" -> Yield(s, 0)
               [] term.kind = "var" -> Yield(s, s.env[term.names[1].id])
               [] term.kind = "return" -> [first EXCEPT !.returned = TRUE]
               [] term.kind = "assignment" ->
                    Store(first, program.terms[term.kids[2]].names[1].id, first.value)
               [] term.kind = "binary" /\ term.op = "or" ->
                    IF first.value = 1 THEN first ELSE second
               [] term.kind = "binary" /\ term.op # "or" ->
                    Yield(second, Apply(term.op, first.value, second.value))
               [] term.kind = "application" ->
                    LET args == EvaluateArgs(Tail(term.kids), s)
                    IN  Record(args.run, program.terms[term.kids[1]].names[1], args.args,
                               E!IsUnit(t))
               [] term.kind = "block" -> EvaluateBlock(term, 1, s)

-----------------------------------------------------------------------------
(* The meaning of the lines *)

Read(s, sym) == IF sym.space = "local" THEN s.env[sym.id] ELSE 0

Target(label) == CHOOSE i \in LineAt : Defines(i, label)

RECURSIVE Execute(_, _)
Execute(i, s) ==
    LET line == lines[i]
        read(k) == Read(s, line.from[k])
        write(run) == IF line.to = <<>> THEN run ELSE Store(run, line.to[1].id, run.value)
    IN  CASE line.op \in {"function", "label"} -> Execute(i + 1, s)
          [] line.op = "jmp" -> Execute(Target(line.labels[1]), s)
          [] line.op = "jnz" ->
                Execute(Target(line.labels[IF read(1) # 0 THEN 1 ELSE 2]), s)
          [] line.op = "copy" ->
                Execute(i + 1, write(Yield(s, IF line.from = <<>> THEN line.value ELSE read(1))))
          [] line.op = "call" ->
                Execute(i + 1, write(Record(s, line.name, [k \in DOMAIN line.from |-> read(k)],
                                            line.to = <<>>)))
          [] line.op \in BinaryOp -> Execute(i + 1, write(Yield(s, Apply(line.op, read(1), read(2)))))
          [] line.op = "ret" ->
                [s EXCEPT !.returned = line.of # 0,
                          !.value = IF line.from = <<>> THEN 0 ELSE read(1)]

-----------------------------------------------------------------------------
Has(t, kinds) == \E k \in Below(t) : program.terms[k].kind \in kinds

Local(names, t) ==
    \E k \in Below(t) : program.terms[k].kind = "block" /\ names[1] \in Range(program.terms[k].names)

\* A variable that is assigned while a sum or a call is being put together is
\* read as it is then, and the exp of a return is lost if it is unit.
KeptByEmitter(t) ==
    LET term == program.terms[t]
    IN  /\ term.kind \in {"binary", "application"} => ~Has(t, {"assignment"})
        /\ term.kind = "return" /\ E!IsUnit(term.kids[1]) =>
            ~Has(t, {"application", "assignment"})
        /\ term.kind = "structure" => term.kids = <<>>
        /\ term.op # "and"

\* The functions that use nothing but what is local to them and what has a name.
Closed(body) ==
    \A t \in Below(body) :
        LET name == program.terms[t].names
            called == \E k \in Below(body) :
                program.terms[k].kind = "application" /\ program.terms[k].kids[1] = t
        IN  program.terms[t].kind = "var" =>
                IF called THEN ~name[1].isAuto
                ELSE name[1].isAuto /\ name[1] \notin SelfInitialised /\ Local(name, body)

Comparable(d) ==
    LET body == program.terms[program.decls[d].exp].kids[1]
    IN  Closed(body) /\ \A t \in Below(body) : KeptByEmitter(t)

\* The lines of a function make the calls that its body makes, in their order and
\* with their arguments, and have its result unless a return says otherwise.
MeaningKept ==
    status = "emitted" /\ ~ignored => \A i \in LineAt, d \in DOMAIN program.decls :
        lines[i].op = "function" /\ lines[i].name = program.decls[d].name /\ Comparable(d) =>
            LET meant == Evaluate(program.terms[program.decls[d].exp].kids[1], Start)
                done == Execute(i, Start)
            IN  /\ done.calls = meant.calls
                /\ done.returned = meant.returned
                /\ meant.returned \/ done.value = meant.value

=============================================================================
