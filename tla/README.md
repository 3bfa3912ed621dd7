# A verification of the Sonnet compiler

`scc` (under `src/scc`) compiles Sonnet, a small language with inferred types,
to QBE's intermediate language and calls `qbe` and `gcc` on the result.  It is a
sequential C program; its phases run one after the other over one source text:

    main -> loadProgram -> parse (which calls the lexer token by token)
         -> type -> emitProgram -> qbe, gcc

## The parts of the system

| Part | State it keeps | Operations | Model |
| --- | --- | --- | --- |
| Lexer (`lexer.c`) | `start`, `current`, `line`, the lookahead | `nextToken`, `peekToken`, `skipWhitespace`, `lexNumber`, ... | `Lexer`, refining `TokenStream` |
| Number literals (`parser.c`) | base, type, value of one literal | `parseNumber`, `parseDigit`, `parseFloatingPoint` | `NumberLiteral` |
| Operator precedence (`parser.c`) | the call stack, the next token | `parseTerm`, `parseBinary`, `parsePrefix` | `Precedence` |
| Scopes and lambda lifting (`parser.c`, `syntax.c`) | linked scopes, `scope`, `identCount`, `declarations` | `enterScope`, `leaveScope`, `declare`, `lookup`, `newIdent` and the parse functions that call them | `Scopes` |
| Rest of the parser | `type` of `parse`, type definitions | `parsePostfix`, `parseType`, ... | none |
| Hash map (`hashmap.c`) | slots, capacity, count | `mapInit`, `mapPut`, `mapGet`, `mapHas`, `mapRemove`, `mapFree` | `HashMap`, refining `Dictionary` |
| Syntax trees (`syntax.c`) | trees; the identifier counter | constructors, tests of types, printing | `Terms` (data types), `Scopes` (identifiers) |
| Type checker (`typer.c`) | shared types, the substitution of type variables, the type of each identifier, the current return type | `constrainTypes`, `constrainTypeTo`; `type`, `typeTerm` | `Unification`; `Typer` |
| Emitter (`emitter.c`) | three buffers, counters of temporaries, labels, structs and globals | `emitProgram`, `emitGlobalDeclaration`, `emitExpression`, `emitDeclaration` | `Emitter` |
| Dynamic array (`dynarray.c`) | items, count, capacity | `initArray`, `appendArray` | sequences in the modules |
| Driver (`main.c`) | the options | reads the file, calls the phases, `qbe` and `gcc` | the order of the last two phases: `Backend`, with `Meaning` |
| Logging (`log.c`), flags (`flag.c`) | none | terminal output; `logFatal` exits | the status `"fatal"` of the modules |

How they interact.  The parser calls the lexer for one token at a time and looks
one token ahead.  Every scope owns a hash map from names to identifiers.
`declare` gives a local name an automatic identifier, a number from
`identCount`; the type checker later allocates tables of `getMaxId()` entries
and indexes them by these numbers, so their uniqueness and bound matter to two
other phases.  A `fun` inside an expression is lifted: the parser appends it to
the array `declarations` which the type checker and the emitter then walk from
front to back.  The type checker keeps one type for each identifier and gives
the same type, by pointer, to all its uses.  Any phase that finds an error calls
`logFatal`, which ends the program; there is no recovery.

What is hard here.  Nothing runs concurrently and nothing is persisted, so there
are no interleavings and no crash recovery.  What a test hardly reaches is:
long sequences of legal calls (insertions, removals and resizes of a table with
colliding keys; blocks and lambdas nested in one another; constraints on types
that share their parts), pointers to freed scopes, loops and recursions whose
end rests on an invariant of a data structure, off-by-ones in the climbing of
operator levels and at the edges of the source text, and state left over from
one declaration to the next.  `PROJECT.json` lists these hazards at the lines
where they bite.

What makes each part correct:

* Lexer: the tokens are the longest matches, in order, none lost by peeking;
  the line of a token is right; a block comment ends where it should; every call
  ends; the cursor never passes the terminating null character (it does).
* Number literals: the value is that of the digits, modulo the width; the type
  is told from the digits (not of `0xf32`, nor of `110`).
* Precedence: the tree is the one the levels prescribe; no operand is lost (one
  is); the recursion is bounded and the loop ends.
* Scopes: no freed scope is used; what is entered is left; an identifier stands
  for one variable; a lifted function has no free local; formals are local (not
  those of a top-level `fun`).
* Hash map: it is a dictionary; a stored key is always found; `count` is the
  number of keys; the load stays at most a half, so every probe ends.
* Type checker: unification ends; it answers whether the constraints can hold
  together; what it has made equal stays equal; no type contains itself; it binds
  nothing that need not be.  What the walk accepts is well typed in the end,
  although it looks at each term once, with the constraints known by then.
* Emitter: temporaries are not shared and labels are unique; every jump lands in
  its function; what a line reads has been written on every way to it; and the
  lines do what the program says.

## The modules

### Dictionary, HashMap, HashMapProofs, MCHashMap

`Dictionary` is what the header promises: a function from keys to values with
put, get, has, remove and free.  `HashMap` is the code: `entries`, `capacity`
and `count` are the fields of `Map`, a slot is never used, a tombstone, or holds
a key and its value.  A probe (`findEntry`) is an operator: `ProbeEnd` is the
first slot on the cyclic path from the home slot at which the loop leaves, and
`Loops` says that there is none.  `mapPut` takes several steps, since its resize
is a loop: `CallPut`, one `MoveEntry` for every slot of the old table,
`FinishGrow` and `Store`.  The hash function is a constant, any function from
keys to numbers.  `ret` is the result of the last call.  The key's bytes, the
comparison of lengths and the copies are abstracted to the identity of the key.
`Next` has the calls the compiler makes (it never calls `mapRemove`); `ApiNext`
has every function of the header.

Runs.  `hashmap` checks `Next` from two slots through two resizes with hashes
that meet and wrap around the end of the table.  `LoadBounded`, `NeverDiverges`
and the liveness property `PutReturns` (under weak fairness of the steps of a
running `mapPut`: one thread runs it) hold only without `mapRemove`, since
`mapPut` counts live keys and not tombstones when it decides to grow.
`hashmap_api` checks all functions: a stored key is found, the count is right,
and the table implements `Dictionary` by the refinement mapping `Contents`.
Three keys suffice for a path that passes a tombstone and another key, and the
capacities 2, 4 and 8 for two resizes in a row.

Proved in `HashMapProofs`, for every set of keys, hash function and initial
capacity, and without a bound on the capacity: type correctness, `CountMatches`,
`StoredKeysAreFound`, the refinement of `Dictionary`, and, for the calls the
compiler makes, `LoadBounded` and `NeverDiverges`.  The inductive invariant adds
to these properties what they rest on: each key is in one slot, every slot on
the path from a key's home to its slot is not unused (so that a probe cannot
stop early), and during a resize the new table holds exactly the keys of the
slots that were moved, which is what makes `count` right in the middle of it.

### Scopes, ScopesProofs

`scopes` is the heap of allocated scopes; `enterScope` takes any free address
(malloc may return a freed one again, which is what makes a dangling pointer
dangerous), `leaveScope` removes it.  The parse functions call each other
recursively and `frames` is their call stack: a frame per running `parse` case
("global", "fun"), `parseDeclaration` ("local"), `parseBracedBlock` ("block")
and lambda case of `parseControlFlow` ("lambda"); the header kinds are the part
before the body, in which formals are declared.  The source text is the
environment.  Of the trees, `units` keeps what each unfinished declaration
binds and uses.  `lookup` and a lambda's way up to the global scope are loops,
one action an iteration.  `frames[i].at` and `.unit` are auxiliary.

Runs.  `scopes` has four addresses, three automatic identifiers and three
declarations: enough for a lambda with a block of its own within the block of a
function and for a freed address to be used again.  A lambda takes two
identifiers, one when it is entered and one when it is left, so behind or within
one that is finished another can be begun or a local be declared.  One name is declared, since its declarations in different scopes
shadow each other; a second one is only looked up, so that a lookup passes every
scope and fails.  `LoopsEnd` is checked under weak fairness of the loops' steps:
one thread runs them.  `scopes_formals` finds that the formals of a top-level
`fun` are visible in later declarations.

Proved in `ScopesProofs`, for any names, addresses and bounds: `TypeOK`,
`ScopesAlive`, `ScopesBalanced`, `LiftedClosed` and `IdentsUnique`.  The inductive invariant
describes the stack: the scope of each frame is the parent chain's next element
or hangs off the global scope, the scopes allocated are exactly those of the
frames and the global one, and the identifiers reachable from the scope of a
frame are bound in that frame's unit or global; the last part is what makes
lifting sound and the first what makes `leaveScope` free the right scope.
For `IdentsUnique` a second invariant, `IdentsApart`, rests on the first: what
the declarations and the unfinished units bind is disjoint, in each of the two
and between them, and all of it was made by `newIdent`.  A step that binds puts
the identifier that it makes into one unit, and at a lambda's end the unit itself
moves, so the identifier that the lifted function gets has to be a new one.

### Precedence, PrecedenceProofs, MCPrecedence

A behaviour is one call of `parseTerm` over tokens the environment chooses; a
postfix expression and a type are one token each, and operators that the code
treats alike are one token.  `frames` is the call stack, `ret` the term being
returned.  Of a term the model keeps whether it is a modifiable lvalue, its
first and last token and how many operands it has; `nodes` collects the binary
nodes with their spans.  The control-flow terms (`if`, `for`, `return`, `fun`
and blocks), which `parseTerm` takes instead of operators, are not in this
module.

Runs.  `precedence` goes over every source of up to nine tokens, with one
operator for each of five levels, prefixes and assignments: the tree is the one
of the levels (`GrammarTree`), within one `parseTerm` the recursion climbs
(`LevelsClimb`), no operand but that of a prefix `+` is lost, and at the end of
the term the parser stops (`EndIsReached`, under weak fairness of the next step:
one thread runs it).  Nine tokens are five operands and four operators, which can
climb twice and fall twice.  `precedence_plus` finds that the operand of a prefix
`+` is dropped.

Proved in `PrecedenceProofs`, for any tokens and sources of any length: `TypeOK`,
`GrammarTree`, `LevelsClimb` and `OnlyPlusLosesOperands`.  `GrammarTree` speaks of
the nodes that are finished, and that a new one fits among them depends on what
the calls that wait hold: the invariant (`TreeInv`) follows the call stack.

* `StackOK`: which call waits for which, and with what `minPrec`; a `parseBinary`
  below another has a lower one, which is `LevelsClimb`.
* `PlacesOK`: operands and pending operators of the calls stand in the source in the
  order of the calls, and the term of the innermost one ends before the next token.
* `PendingOK`: of an operator whose right operand is being parsed, the finished
  nodes to its left bind at least as strong, and no node goes across it.
* `BehindOK`: nodes behind a pending operator lie within what the call above holds
  as its left operand, so they will be within the right operand; they bind stronger.
* `TopOK`: what the innermost call knows of the token it looks at.

`OnlyPlusLosesOperands` needs a count (`CountInv`): while no prefix `+` was
read, each term counts the operands from its first to its last token, terms and
operators of the calls follow each other without a gap, and so the numbers add up.
`EndIsReached` is liveness and stays model-checked.

### Characters, TokenStream, Lexer, LexerProofs, MCLexer

`Characters` has the classes of characters and the record of a token, shared by
the other two.  `TokenStream` is what the parser may expect of `nextToken` for a
source without comments: `output`, the tokens returned so far, grows by the
longest match behind the white space, with its line, and by `EOF` at the end;
peeking is not visible.  It has the types behind numbers as the lexer takes them:
a letter and two characters more, whatever these are, the null character at the
end of the source included (`Buffer`) and a newline not counted (`TokenAt`).  `Lexer` is the code: `source` is the buffer
(the null character behind it is the place `Len(source) + 1`), `start`,
`current`, `line` and the peeked token are the static variables, and each loop of
the C functions is one action an iteration, `pc` saying which one runs.
`scc/build.sh` builds with the address sanitizer, so a read behind the buffer
ends the program: the status `"overrun"`.

Runs.  `lexer` has all sources of up to four characters of ten kinds (a newline,
two letters one of which is a digit too and which together are a keyword, an `i`,
a digit, the dot, a symbol that can be doubled, a quote, `@`, and one that starts
no token): two tokens of any kinds with white space between them and the longest
match of each, or a number with its type, which may be cut off by the end of the
source.  The lexer refines `TokenStream` (`ImplementsTokenStream`), however
calls of `peekToken` are mixed in.  It also has all sources of up to seven
characters with comments: a block comment takes two, its content one, its end
two, and a token follows; of these the refinement says nothing (`Plain`), since
`TokenStream` has no comments.  `CallsEnd` is checked under weak fairness of the
lexer's steps (one thread runs it).  `lexer_end` finds that a comment at the end
of the source is read past it.

Proved in `LexerProofs`, for every source, set of characters and of keywords:
`TypeOK` and `TokensInOrder`, from an invariant that says where the cursor may be
in each loop and that all tokens made, the peeked one included, end before it.
`BlockCommentsMatch`, from `CommentsInv`: until the first token is made, the
cursor is in the comment that opens the source, of which each loop has read what
`Opened` says (the delimiters counted, no run behind them that is long enough,
the run at the cursor that may close it), or a run of exactly that length lies
behind it.  And the refinement, `ImplementsTokenStream`, for every source without
a `#` (`Plain`), from `StreamInv`: each loop has read the beginning of its kind of token
(`ReadSoFar`), all between the tokens returned and `start` is white space
(`Starts`), `line` is the line of the last token and the newlines since, and a
peeked token is still
the one that `TokenStream` has next (`Promised`).  That a token is the longest
match is a lemma for each kind (`WordEnds`, `IntegerEnds`, `FractionEnds`,
`UntypedEnds`, `TypedEnds`, `BuiltinEnds`, `StringEnds`, `SymbolEnds`).  Both invariants hold in the runs'
instances too.  `CallsEnd` is liveness and only model-checked.

### NumberLiteral, NumberLiteralProofs, MCNumberLiteral

A behaviour is one call of `parseNumber` with a token that `lexNumber` can make.
The prefix, the type at the end and then the digits are taken one after the
other, a digit a step, `pc` saying which.  Floats are exact: `value` and `part`
are the digits before and behind the dot, and `partSize` how many there are of
the latter; the rounding of `double` is left out.  The widths of the integer types
are a constant, since TLC's own integers are narrower than `i64`.

Runs.  `numbers` has all literals of up to five characters before the dot and
one behind it, digits of three bases, the prefixes of two, and the types `i32`,
`u32` and `f32`, the last of which consists of digits in base 16: five
characters are a prefix and that type.  With five bits a two-digit literal
overflows and the wrapping must still be that of the whole value
(`ValueIsRight`).  A literal without a digit has the value 0; it is accepted
with a type.  `TypeIsRight` says where the type begins without looking at the end
of the text as the code does: at the first letter that is no digit of the base.
Hexadecimal literals that end in `f32` or `f64` are excepted (`EndsInHexFloat`),
since there the code departs from it.  `numbers_rejected` asks of the same
literals whether the numbers of `syntax.typ` are accepted with all their digits
(`NumbersAreTaken`).  Its counterexample is a decimal number of three digits that
is refused; `0xf32`, of which no digit counts, is another that is longer.

Proved in `NumberLiteralProofs`, for literals of any length and any widths, those
of the code among them: `TypeOK`, `TypeIsRight` and `ValueIsRight`.  The invariant
(`IInv`) says what the digits read so far are worth: `value` is `Wrapped` of their
`Sum`, of a float `value` and `part` are the sums before and behind the one dot
(`ValueSoFar`); and that the type was cut off from the end of the text without
touching the prefix (`TypeFound`, `from <= to + 1`).  That no letter stands before
the type is known when the digits have been read: each of them was a digit of the
base (`InBase`).  A step needs two facts.
Wrapping at each digit is wrapping once (`WrappedStep`), as `Wrapped` changes a
number by a multiple of the type's size; and a further digit makes what stands
before it count for base times as much (`SumStep`).  `Sum` and `Power` are
recursive functions; what they compute is shown by induction over the place,
as the first place at which it fails (`RecurrenceExists`, `StepsAgree`), so that
no theorem with an operator parameter is needed.  That `2 ^ n` is positive and
doubles is the count of the sets of numbers up to n (`TwoPowerDoubles`).

### Unification, UnificationProofs, MCUnification

`heap` are the types, nodes that point to each other and are shared, and `subst`
is the substitution.  A call of `constrainTypes` is a list of pairs, `todo`:
each action is one (recursive) call, which takes the first pair, resolves both
types and applies one case of the function.  Resolving writes: `resolveType`
replaces every part it comes to by the type it stands for, and shortens the
chains of variables; `ResolvedParts` and `ResolvedVars` are what it leaves,
`Chain` and `Reach` what it walks over, stated as least closed sets.
`constrainTypeTo` is one action.  `built` (the types at the beginning), `asked`
(the calls) and `granted` (those that answered true) are auxiliary.  A type that
the code builds between two calls is there from the beginning; nothing points to
it before.  Abstracted: the parameters of a function are parts like others,
where the code copies them, and the numeric types, which `constrainTypes` treats
like `bool`, are kinds.

The reference for the answers is a definition by equalities: `Satisfying(E)` are
the equalities of types under which the pairs `E` are equal, and `E` is
`Solvable` if one of them mixes no kinds and no names and makes no type a part of
itself.  `AnswersAreRight` says that a call answers true exactly when the calls so
far are solvable together; `OnlyWhatFollows`, that a variable stands only for a
type it is equal to under each of those equalities; `GrantedStaysEqual`, that
types once made equal are equal after every later call too, those included that
answer false (an assignment ignores the answer, `typer.c:620`).

Run.  `unification` has two variables, `bool`, and two compound types in 15
arrangements (pointers and structs, that share parts, that have other names, and
that can come to contain each other through a variable), and any two calls.
Two calls suffice for a binding to be used, for an occurs check to fail through
the binding of the first, and for a call after one that was refused.  The target
of `constrainTypeTo` is `bool`: with the unit type it grants what is not equal
(see below).  `CallsEnd` holds under weak fairness of the steps of a running call.

Proved in `UnificationProofs`, for all types the calls may begin with and any
number of calls: `TypeOK`, `Acyclic`, that no type comes to contain itself, on
which the end of all three recursions rests, and `OnlyWhatFollows`.  For the
first two the invariant adds that variables have no parts and the target types
nothing to bind.  The argument: what `resolveType` returns is the one end of a
chain, which lies in every set of types that is closed under "comes to"; so
resolving a part adds no way that was not there (`AcyclicStep`), and a new
binding leads only into the closed set of the types below the bound one, in
which the occurs check found no such variable.  For `OnlyWhatFollows` the
invariant (`FollowInv`) says of every equality that satisfies the calls that it
agrees with the bindings, with what the parts were replaced by, and with the
pairs still to do; each case of `constrainTypes` keeps it, the binding of a
variable because the pair in turn is equal.  Both rest on
`UnificationAssumption`: a type is built after its parts, as the trees of the
parser and the types that `typeTerm` makes are.

Proved in the second half of `UnificationProofs`, again for all types and any
number of calls: `GrantedStaysEqual` and `AnswersAreRight`, so that
`constrainTypes` decides its constraints, as long as no call was refused before:
it accepts no contradiction and refuses nothing that has a solution.  The theorems assume `BoolTargets`:
`constrainTypeTo` is called for a type that equals every other of its kind, as
`boolType` does.  The code calls it for `unitType` too, which is a struct, and
there its answer is not right (see below).

* `GrantInv` says that what was granted is equal under every equality of types
  that passes to the parts and follows the bindings (`Congruence`, `Follows`), and
  that the pair of the running call will be, once the pairs still to do are.  That
  a type may be rewritten while a call runs is the part `PartsKept`: to such an
  equality a part is still the part that was built.
* An equality has then to be exhibited.  It is not defined along the types, which
  would be an induction over data, but as the largest relation that is
  consistent with the bindings (`Alikes`): two types are equal if some consistent
  relation holds them.  The class of a type is named by its first node.
* `AnswerInv` adds that a refused call cannot be solved.  A solution would agree
  with the bindings (`FollowInv`), so it would make a type equal to one of another
  kind (`ClashUnsolvable`), or a part of itself (`OccursUnsolvable`); and two types
  whose parts do not agree in number or names are refused where they are
  compared or have been marked before (`DescendAgrees`).  In the other direction
  the equality above is a solution (`EqSolves`): it makes no type a part of itself
  since none is in the heap (`Acyclic`).

`CallsEnd` is liveness and model-checked only.

### Terms, Typer, Emitter, Backend, BackendProofs, BackendTypes, Meaning, MCBackend

`Terms` has the data types of `syntax.c`.  The terms of a program are a sequence
in which a term comes behind its parts, the types another, and a pointer is a
place in one of them.  The terms of a declaration lie together, in the order of the
declarations, and there are no others (`LaidOut`): the parser makes them one
declaration after the other, and the type checker goes through all it gets.  `kids` are the parts in the order in which the code
evaluates them, `names` and `notes` the identifiers and the types that are
written down.

`Typer` is the walk of `type` and `typeTerm`.  `stack` is the recursion: a frame
counts the parts it has dealt with, a part is called by one action (`EvaluateKid`)
and what the code does with its type when it returns is another, so that each
case of the switch is one or a few actions named after it.  `typed` is
`term->type`, `constraint` the table of `getConstraint`, `declType` the `type`
field of the declarations.  `constrainTypes` is an operator here, on the types and
on what each of them stands for (`heap.is`, which `Unification` has step by step
as chains and written parts).  `ignored` is auxiliary: an answer was false and
nobody looked at it.  Two things of the heap are kept because the emitter depends
on them: a term has the type it had when it was typed, a variable perhaps, and is
not brought up to date later; but a parameter in a function's type is a copy that
`resolveType` overwrites, and a term whose type came to be that copy is up to date
after all.  Which terms these are depends on the order of earlier calls, so
`ResolveDecls` chooses among those that can be (`Overwritten`).

`Emitter` is `emitter.c` in the same form.  A line of QBE is a record: operator,
the symbols before its `=`, those it reads, and labels; `of` (auxiliary) is the
term it was written for.  The counters are `max`.  Where the code passes a symbol,
a structure, to `printf` for a number, the line has the symbol `Garbage`; the
labels that follow it in the same call are right, since the x86-64 calling
convention passes such a structure in memory and the numbers in registers.  The
result of `emitExpression` that a case does not set is `Indeterminate`.

`Backend` composes the two as `main` does; they share the types.  `Meaning` has
what a term and what a sequence of lines does: the calls it makes, with their
arguments, and its result, where a call returns a constant `Answer`.

Run.  `backend` has some 2700 programs.  A program has six declarations (an
extern function, two functions to call, a lifted lambda, a declaration that uses
it, a function with a formal) and `main`.  `Mains` vary the body of `main`: a
variable, then a statement with one of 14 values in it, then a value; they have
`or` within arguments, operands and initialisers, blocks, assignments and
returns.  `Operations` are the operators over operands of equal and other types,
`Accepted` terms that the emitter knows or does not, and `Functions` vary the
lambda, its use and the function: without types, recursive, with returns, with
pointers, with uses before the definition.  Every case of both switches is
taken, each refusal but two included (a declaration without initialiser and a jump
cannot be refused).  Two functions and one nesting of `or` suffice for counters to
go wrong between terms and between functions.

* `WellTyped`: when all constraints are in, each term agrees with its parts under
  the final substitution by the typing rules, stated separately from the walk.
  Excepted are programs with an ignored answer.
* `JumpsLand`, `LocalsDistinct`: a jump goes forward to a label of the same
  function that is defined once in the text; a temporary is written for one term,
  or belongs to a variable, and the two numberings do not meet.
* `ReadsFollowWrites`: on no path does a line read what was not written, nor an
  indeterminate symbol.  Excepted are the symbols that the code never writes:
  formals, names used in their own initialiser, results of `and`.
* `MeaningKept`: the lines of a function make the calls of its body, with the same
  arguments and result.  Excepted is what the emitter is known to lose or change
  (`KeptByEmitter`), listed below.

Proved in `BackendProofs`, for all programs the parser may return: `LocalsDistinct`,
`JumpsLand`, and that the emitter comes only to terms that the type checker has
gone through (`EmitterMeetsOnlyTypable`).  The only assumption is
`BackendAssumption`, that programs are `WellFormed`: terms and types come behind
their parts, terms have the parts, names and operators of their kind, and the
number of an automatic identifier is below `maxId`.  The inductive invariant,
`Invariant`, has one part for each phase:

* `Walk`, of the type checker: the terms that have a type are closed under taking
  parts, and the running calls go from a term to one of its parts.  When the
  checker accepts a program the declarations are among them, which is `Checked`,
  the one thing that the emitter needs to know: without it a missing initialiser or
  a term of an unknown kind could reach a case that assumes its parts.
* `Owned`: there is one function from temporaries to terms such that each line
  that writes a temporary was written for its term, and each running call that
  holds one runs for it.  The calls have to be in it, since a call makes its
  temporary long before it writes it.
* `LabelsOK`: each label marks at most one line (`LabelsOnce`); the labels of two
  running `and` or `or` do not overlap (`LabelsApart`) and, but for the first, are
  not yet defined (`LabelsOpen`); and a jump goes to a label behind it or to one
  that a running call will define (`JumpsOK`), with no end of a function between.
  When the emitter ends no call runs, and what is left of `JumpsOK` is `JumpsLand`.

`EmitterStep` says once, for all actions, what a step of the emitter can do to the
calls, the counters and the lines; the parts of the invariant are kept by that.

Proved in `BackendTypes`, from the same assumption: `TypeOK` and `WellTyped`.  That
the state of a type checker has its type is less obvious than it sounds: the types
grow and are bound while terms refer to them, an answer can be false in the middle
of a call, and what `constrainTypes` returns is defined by a recursion over types
that are not trees.  The invariant is `TypesInvariant`; what it says of types alone,
and what is equal under them, is in the second half of `BackendProofs`.

* `Good`: a type that stands for itself leads to no part that stands for it again
  (`Founded`: every set of such types has a member without a successor in it), and
  only a variable stands for another type.  Binding a variable keeps this because
  of the occurs check (`InsertionFounded`), a new type because it comes behind its
  parts (`NewTypeGood`).  It holds after refused calls too, and is a theorem of its
  own, `NoTypeContainsItself`.
* The end of `constrainTypes` (`ConstrainingEnds`) is by two least counterexamples
  inside each other: a call that does not end makes a binding, and so leaves one
  variable less, or goes only from types to their parts, in a graph that is
  founded.  What a recursive function returns then has a meaning for the provers:
  `ComesTo` is the least relation that follows the steps, a function that follows
  it exists and is the only one there (`ContinuationExists`, `ContinuationIs`), and
  what the steps keep, the whole call keeps (`RunInduction`).  `EveryCallEnds`
  states the end for all calls.
* `TyperOK`: every action of `Typer` does one of a few things to the calls
  (`TakesPart`, `ReturnsType`, `CallsTerm`, `EntersFunction`, `DeclaresType`) and at
  the same time any number of calls of `constrainTypes` (`Constrains`).  `StackFits`
  is what the later steps of a case rely on: the type of a function, once made,
  has a result; and when the arguments come, the callee has as many parameters.
* `EmitterOK`: the parts that a running call has behind it have symbols (`Given`),
  all but the callee, which is not emitted; so no line has a part without one.

`WellTyped` looks at the types when all constraints are in, and a term was looked
at long before.  Between the two other variables were bound, types were added, the
term's own type may have been overwritten by what it stands for, and a function
is dealt with in pieces, before and after its body.  The proof has three parts.

* Equality.  `Equal` compares types as deep as they go, by a recursion over a
  graph; it is a relation only because the graph is founded (`EqualUnfolds`).  What
  is equal stays equal when types are added and variables are bound (`Later`,
  `EqualsLater`), and an answer that is true means that the two types are equal from
  then on (`ConstrainTypesEqual`): the pairs that are left of a call, if they come
  to be equal, make the first pair equal.  An answer that is false stops the checker
  or sets `ignored`.
* The rules while the checker runs (`RulesHold`).  A term that has a type is typed
  by the rule for it (`RuleIn`), one that is being dealt with is so as far as that
  has come (`PartlyIn`).  Each action is a step of the checker that also does what
  the rule asks for next (`RuleStep`); what the rules say is kept by all other
  steps (`Moves`, `RuleKept`), since a type of a term only ever gives way to the one
  it stands for.  A `return` needs more, because its rule is about a function that
  is not among its parts: the running calls lie in one declaration (`Nested`), the
  function is at their bottom since the parser has lifted the others, and
  `currentReturnType` is the result of that function's type (`ReturnsBy`).
* When `type` ends, all terms have been dealt with (`AllTyped`): the calls are over
  and a term that is no declaration's is a part of another.  Then `RuleIn` is
  `Agrees` (`AllTypedAgree`).  `RulesInvariant` puts the phases together.

`ReadsFollowWrites` and `MeaningKept` are model-checked only: the one speaks of all
paths through the lines, the other of what terms and lines mean, by recursive
operators.
For all programs `ReadsFollowWrites` also needs more of the parser than `WellFormed`
says: that a name is used in the scope of its declaration only (`LiftedClosed` is
the part of it that `Scopes` shows), and that no two terms share a part.

### Deadlock, and what is left to TLC

The configurations say `CHECK_DEADLOCK FALSE` where the program stops: after
`logFatal`, at the end of the source, or at a bound.  Liveness is
model-checked only.  The library's induction theorems cannot be used: they take
an operator as a parameter.  The call stacks are therefore sequences, and where a
recursion remains (`NumberLiteral`, `BackendTypes`) the proofs take the least
counterexample, or the least relation that is closed under the steps.

## Where the code and its documents differ

The four runs that end in a counterexample are `scopes_formals`,
`precedence_plus`, `lexer_end` and `numbers_rejected`; `PROJECT.json` quotes both
sides of each.  Other differences that were met while modelling, without a run:

* `and` and `or` have levels of their own (`parser.c:1001`); in `grammar.y` they
  are one level.
* Prefix operators do not nest, `- - x` (`parser.c:888`), as they do in
  `grammar.y`.
* A `#` at the end of a line takes the newline into the comment, and so the next
  line is one (`lexer.c:161`); newlines that `isNext` consumes are not counted.
* The type behind a number takes one character too many for `i8` and `u8`
  (`lexer.c:267` compares with the number 8, not with the character).
* `0xf32`, a number in base 16, is read as a float without digits (the last three
  characters are compared with a type whatever the base, `parser.c:369`); its value
  is 0.
* `0xi32` is accepted: a number without digits, of value 0 (`parser.c:335` looks at
  the length before the type is taken off).
* `constrainTypeTo` compares kinds only (`typer.c:324`), so that a statement whose
  value is a struct with members passes as unit, where `typeTerm` means to report
  "Expression in block does not return unit, possibly ignoring a value.".
* The answer of `constrainTypes` is ignored for an assignment (`typer.c:620`) and
  that of `insertConstraint` for a formal (`typer.c:396`).
* A local declaration may have no initialiser (`syntax.c:390`, "nullable"), but
  `typeTerm` reads it unconditionally (`typer.c:629`), unlike `type`.
* A term keeps a type variable that is bound later (`typer.c:672`), and
  `convertType` then stops an accepted program (`emitter.c:270`).  A function value
  stops it too: "All lambdas are already lifted." (`emitter.c:266`).
* A conditional without `else` has the type of its branch (`typer.c:612`).
* The emitter drops the calls in the `exp` of a `return` that is unit
  (`emitter.c:299`), writes another `return`'s symbol as the name of a type
  (`emitter.c:306`), and goes on behind it without a label.
* For `true`, `false` and operators a second temporary of garbage is written
  before the `=` (`emitter.c:317`, `:438`); the result of `and` is written as garbage
  only: `inst` prints the symbol as a number (`:403`), where `or` writes it (`:425`).
* A variable is not copied when it is read (`emitter.c:380`): in `x + { x = 1; x }`
  both operands are the new value.
* A call of a lifted function has no name (`toString` of an automatic identifier,
  `emitter.c:534`), while its definition is `$auto_n` (`:628`).
* Functions are written without their formals (`emitter.c:628`), values of the
  top level are not written at all (`:616`), nor the members of a struct (`:374`).
* "0 is an invalid temporary" (`emitter.c:138`), but the automatic identifier 0 is
  the temporary 0.
* Conditionals and jumps are typed and not emitted (`emitter.c:594`).
* `parseType` copies the result of `mapGet` for a name that may not be a type
  (`parser.c:1322`), and stores an array's size as an `int` that is later read as
  a `size` (`parser.c:1329`).

## What is not modelled

Allocation failure (it ends the program), printing, the texts of messages, file
and process I/O, and the components marked so in `PROJECT.json`.  Of `parser.c`,
postfix expressions and factors, types and the type definitions.  Of the emitter,
the classes of QBE's values: `convertType` uses classes for `bool` and the small
integers that are not those of a temporary, so their text is a matter of QBE's
grammar more than of a state.  The 512 characters of `declf` and the growth of the
buffers; `initArray` is only called with 4 and 16, so doubling makes room.
`isEqualType` is called by nothing.

## Plan

1. Done: `HashMap`, `Scopes`, `Precedence`, `Lexer` (with the refinement of
   `TokenStream`), `NumberLiteral` and `Unification` with the proofs of all their
   safety properties, `Typer`, `Emitter` and `Backend` with `Meaning`, and the
   proofs of the temporaries, the jumps, the types of the state and `WellTyped`.
2. `Types`: `parseType`, the type definitions and the stale `type` of `parse`.
3. Proofs: `ReadsFollowWrites`, for which an invariant has to say, of every line
   that the emitter can continue at, what has been written on all paths to it, and
   `WellFormed` the scopes of the names.
