----------------------------- MODULE MirLower -------------------------------
(***************************************************************************)
(* From typed source to verified MIR (crates/syllog-compiler, mir_lower):  *)
(* the expressions of a function become blocks, drops of owned values are  *)
(* inserted, the result is verified and executed.                          *)
(*                                                                         *)
(* A source program is a sequence of functions [params, result, body], its *)
(* last function the entry; a parameter is <<name, type>> and names are    *)
(* unique in a function.  Statements and expressions are tagged tuples:    *)
(*                                                                         *)
(*   statement   <<"let", name, type, e>>, <<"return", <<e>> or <<>>>>,    *)
(*               <<"expr", e>>                                             *)
(*   expression  <<"int", n>>, <<"bool", b>>, <<"text", bytes>>,           *)
(*               <<"ref", name>>, <<"variant", enum, tag>>,                *)
(*               <<"borrow", mutable, name, type>>, <<"await", e>>,        *)
(*               <<"binary", operator, e, e>>, <<"call", f, es, type>>,    *)
(*               <<"match", e, arms, type>>, <<"block", statements>>,      *)
(*               <<"other">> for what has no executable form               *)
(*                                                                         *)
(* An arm is [pattern, guarded, body]; its pattern is the discriminant it  *)
(* closes on, or Open.  A comparison without a MIR operator is "other".    *)
(***************************************************************************)
EXTENDS MirInterpreter, TLC

CONSTANTS
    Sources         \* a sequence of source programs

VARIABLES
    source          \* the index in Sources of the program being compiled, or 0

lowerVars == <<machineVars, source>>

Open == -1
NoType == <<>>

RECURSIVE LowerBlock(_, _, _), LowerExpression(_, _, _)

\* The sequence of Op(i) for i in 1..n, computed once.
Each(n, Op(_)) == FoldLeft(LAMBDA done, i : Append(done, Op(i)), <<>>, [i \in 1 .. n |-> i])

(***************************************************************************)
(* The builder: [locals, blocks, current, bindings, ok].                   *)
(***************************************************************************)
OpenBlock == [statements |-> <<>>, terminator |-> <<"none">>]

NewBuilder ==
    [locals |-> <<>>, blocks |-> <<OpenBlock>>, current |-> 1, bindings |-> <<>>, ok |-> TRUE]

NewLocal(b, type) == [b EXCEPT !.locals = Append(@, type)]
LastLocal(b) == Len(b.locals)

NewBlock(b) == [b EXCEPT !.blocks = Append(@, OpenBlock)]

AppendAssign(b, local, value) ==
    [b EXCEPT !.blocks[b.current].statements = Append(@, <<"assign", <<"local", local>>, value>>)]

\* Mutant: a block keeps its first terminator.
TerminateOnce(b, terminator) ==
    [b EXCEPT !.blocks[b.current].terminator = IF @[1] = "none" THEN terminator ELSE @]

\* terminate: the last terminator given to a block is the one it keeps.
Terminate(b, terminator) == [b EXCEPT !.blocks[b.current].terminator = terminator]

Terminated(b) == b.blocks[b.current].terminator[1] # "none"

Bind(b, name, local) == [b EXCEPT !.bindings = (name :> local) @@ @]

\* error: a diagnostic; the operand stands in for the expression.
UnitOperand == <<"const", <<"Unit">>>>
Unsupported(b) == [b |-> [b EXCEPT !.ok = FALSE], operand |-> UnitOperand]

\* The value computed into a local of its own, moved from there.
Into(b, type, value) ==
    [b |-> AppendAssign(NewLocal(b, type), LastLocal(b) + 1, value),
     operand |-> <<"move", LastLocal(b) + 1>>]

BuilderType(b, operand) ==
    IF operand[1] = "const" THEN ConstantType(operand[2]) ELSE b.locals[operand[2]]

(***************************************************************************)
(* Expressions.                                                            *)
(***************************************************************************)
\* An integer literal is unsigned unless a signed type is expected of it.
LowerLiteral(b, e, expected) ==
    [b |-> b,
     operand |-> <<"const",
        CASE e[1] = "text" -> <<"String", e[2]>>
          [] e[1] = "bool" -> <<"Bool", e[2]>>
          [] e[1] = "int" /\ (expected = <<"I64">> \/ e[2] < 0) -> <<"I64", e[2]>>
          [] e[1] = "int" /\ expected # <<"I64">> /\ e[2] >= 0 -> <<"U64", e[2]>> >>]

LowerReference(b, name) ==
    IF name \notin DOMAIN b.bindings THEN Unsupported(b)
    ELSE LET local == b.bindings[name]
         IN [b |-> b, operand |-> <<IF IsCopy(b.locals[local]) THEN "copy" ELSE "move", local>>]

LowerBorrow(b, e) ==
    IF e[3] \notin DOMAIN b.bindings THEN Unsupported(b)
    ELSE Into(b, e[4], <<"borrow", e[2], <<"local", b.bindings[e[3]]>> >>)

BinaryInto(left, right, operator) ==
    Into(right.b, IF operator \in {"Equal", "Less"} THEN <<"Bool">>
                  ELSE BuilderType(left.b, left.operand),
         <<"binary", operator, left.operand, right.operand>>)

\* The left operand's type is expected of the right one.
LowerRight(left, e) ==
    BinaryInto(left, LowerExpression(left.b, e[4], BuilderType(left.b, left.operand)), e[2])

LowerBinary(b, e, expected) == LowerRight(LowerExpression(b, e[3], expected), e)

\* The call ends the current block; its result is moved from a fresh local.
CallInto(b, callee, operands) ==
    [b |-> [Terminate(b, <<"call", callee, operands, <<"local", LastLocal(b)>>, Len(b.blocks)>>)
                EXCEPT !.current = Len(b.blocks)],
     operand |-> <<"move", LastLocal(b)>>]

LowerArgument(r, e) == [b |-> r.b, operand |-> Append(e, r.operand)]

LowerArguments(b, arguments) ==
    FoldLeft(LAMBDA acc, e : LowerArgument(LowerExpression(acc.b, e, NoType), acc.operand),
             [b |-> b, operand |-> <<>>], arguments)

PlaceCall(arguments, callee, type) ==
    CallInto(NewBlock(NewLocal(arguments.b, type)), callee, arguments.operand)

LowerCall(b, e, expected) ==
    PlaceCall(LowerArguments(b, e[3]), e[2], IF expected = NoType THEN e[4] ELSE expected)

\* One arm: its value goes to the result local, its last block on to the join.
FinishArm(value, result, join) ==
    Terminate(AppendAssign(value.b, result, <<"use", value.operand>>), <<"goto", join>>)

LowerArm(b, arm, block, result, join) ==
    FinishArm(LowerExpression([b EXCEPT !.current = block, !.ok = @ /\ ~arm.guarded],
                              arm.body, b.locals[result]), result, join)

LowerArms(b, arms, result, join) ==
    [b |-> [FoldLeft(LAMBDA acc, k : LowerArm(acc, arms[k], join + k, result, join),
                     b, [k \in 1 .. Len(arms) |-> k]) EXCEPT !.current = join],
     operand |-> <<"move", result>>]

\* The arms but the last that close on a discriminant, with their blocks.
ClosedArms(arms, join) ==
    SelectSeq([k \in 1 .. Len(arms) - 1 |-> <<arms[k].pattern, join + k>>],
              LAMBDA target : target[1] # Open)

\* A switch on the discriminant in local tag; the last arm takes every other
\* value.  The join and a block for each arm follow the blocks made so far.
LowerSwitch(b, arms, tag, join) ==
    [Terminate([b EXCEPT !.blocks = @ \o [k \in 1 .. Len(arms) + 1 |-> OpenBlock]],
               <<"switch", <<"copy", tag>>, ClosedArms(arms, join), join + Len(arms)>>)
        EXCEPT !.ok = @ /\ \A k \in 1 .. Len(arms) - 1 : arms[k].pattern # Open]

MatchInto(b, arms, tag) ==
    LowerArms(LowerSwitch(b, arms, tag, Len(b.blocks) + 1), arms, LastLocal(b), Len(b.blocks) + 1)

MatchOn(tagged, arms, type) == MatchInto(NewLocal(tagged.b, type), arms, tagged.operand[2])

Discriminant(value) == Into(value.b, <<"U64">>, <<"discriminant", value.operand>>)

LowerMatch(b, e, expected) ==
    IF e[3] = <<>> THEN Unsupported(b)
    ELSE MatchOn(Discriminant(LowerExpression(b, e[2], NoType)), e[3],
                 IF expected = NoType THEN e[4] ELSE expected)

LowerExpression(b, e, expected) ==
    CASE e[1] \in {"int", "bool", "text"} -> LowerLiteral(b, e, expected)
      [] e[1] = "ref" -> LowerReference(b, e[2])
      [] e[1] = "variant" -> Into(b, <<"Aggregate", e[2]>>, <<"aggregate", e[2], e[3], <<>> >>)
      [] e[1] = "borrow" -> LowerBorrow(b, e)
      [] e[1] = "await" -> LowerExpression(b, e[2], expected)
      [] e[1] = "binary" -> LowerBinary(b, e, expected)
      [] e[1] = "call" -> LowerCall(b, e, expected)
      [] e[1] = "match" -> LowerMatch(b, e, expected)
      [] e[1] = "block" -> [b |-> LowerBlock(b, e[2], IF expected = NoType THEN <<"Unit">>
                                                                         ELSE expected),
                            operand |-> <<"copy", 1>>]
      [] e[1] = "other" -> Unsupported(b)

(***************************************************************************)
(* Statements and functions.                                               *)
(***************************************************************************)
\* The return place receives the operand and the current block returns.
ReturnValue(r) == Terminate(AppendAssign(r.b, 1, <<"use", r.operand>>), <<"return">>)

ReturnUnit(b, result) ==
    Terminate(IF result = <<"Unit">> THEN AppendAssign(b, 1, <<"use", UnitOperand>>) ELSE b, <<"return">>)

\* The local of a let comes after the temporaries of its value.
BindValue(r, name, type) ==
    Bind(AppendAssign(NewLocal(r.b, type), LastLocal(r.b) + 1, <<"use", r.operand>>),
         name, LastLocal(r.b) + 1)

\* A statement after a return is not lowered.
LowerStatement(b, statement, last, result) ==
    CASE Terminated(b) -> b
      [] ~Terminated(b) /\ statement[1] = "let" ->
            BindValue(LowerExpression(b, statement[4], statement[3]), statement[2], statement[3])
      [] ~Terminated(b) /\ statement[1] = "return" ->
            IF statement[2] = <<>> THEN ReturnUnit(b, result)
            ELSE ReturnValue(LowerExpression(b, statement[2][1], result))
      [] ~Terminated(b) /\ statement[1] = "expr" ->
            IF last THEN ReturnValue(LowerExpression(b, statement[2], result))
            ELSE LowerExpression(b, statement[2], NoType).b

LowerBlock(b, statements, result) ==
    FoldLeft(LAMBDA acc, k : LowerStatement(acc, statements[k], k = Len(statements), result),
             b, [k \in 1 .. Len(statements) |-> k])

EnterFunction(function) ==
    FoldLeft(LAMBDA b, p : Bind(NewLocal(b, p[2]), p[1], LastLocal(b) + 1),
             NewLocal(NewBuilder, function.result), function.params)

FinishFunction(b, result) == IF Terminated(b) THEN b ELSE ReturnUnit(b, result)

\* FunctionBuilder::lower, with whether it met no error.
LoweredFunction(function, b) ==
    [ok |-> b.ok,
     mir |-> [params |-> Len(function.params), result |-> function.result,
              locals |-> b.locals, blocks |-> b.blocks]]

LowerFunction(function) ==
    LoweredFunction(function,
        FinishFunction(LowerBlock(EnterFunction(function), function.body, function.result),
                       function.result))

(***************************************************************************)
(* Drops.                                                                  *)
(***************************************************************************)
\* mir_transfer and its helpers repeat the verifier's transfer functions.
MirTransfer(block, state) == TransferBlock(block, state)

NeedsDrop(type) == type[1] \in {"String", "Aggregate"} \/ (type[1] = "Ref" /\ type[2])

\* Mutant: values held on only one side of a join are forgotten there.
DropCandidatesAtReturn(block, state, incoming) ==
    IF block.terminator[1] = "return" THEN state ELSE {}

\* The locals a block drops before it ends: all that hold a value at a return,
\* those the other paths into the join do not hold at a jump.
DropCandidates(block, state, incoming) ==
    CASE block.terminator[1] = "return" -> state
      [] block.terminator[1] = "goto" ->
            IF block.terminator[2] \in DOMAIN incoming
            THEN state \ incoming[block.terminator[2]] ELSE {}
      [] OTHER -> {}

Dropped(function, b, incoming) ==
    {l \in DropCandidates(function.blocks[b],
                          TransferStatements(function.blocks[b].statements, incoming[b]), incoming) :
        l # 1 /\ NeedsDrop(function.locals[l])}

\* The drops follow the statements, latest local first; the return place is kept.
AppendDrops(block, locals) ==
    [block EXCEPT !.statements =
        @ \o [k \in DOMAIN locals |-> <<"drop", <<"local", locals[k]>>>>]]

WithDrops(function, incoming) ==
    [function EXCEPT !.blocks =
        Each(Len(@), LAMBDA b :
            IF b \notin DOMAIN incoming THEN function.blocks[b]
            ELSE AppendDrops(function.blocks[b],
                             Reverse(SetToSortSeq(Dropped(function, b, incoming), <))))]

InsertFunctionDrops(function) == WithDrops(function, Flow(function, MirTransfer, {}))

\* lower_to_mir: drops are inserted only when every function lowered.
LowerToMir(lowered) ==
    [functions |-> Each(Len(lowered), LAMBDA i : InsertFunctionDrops(lowered[i].mir)),
     entry |-> Len(lowered)]

RunLowered(lowered) ==
    IF \A i \in DOMAIN lowered : lowered[i].ok THEN ExecuteProgram(LowerToMir(lowered))
    ELSE /\ mir = [functions |-> <<>>, entry |-> 0]
         /\ stack = <<>>
         /\ spent = [instructions |-> 0, bytes |-> 0, drops |-> 0]
         /\ ending = Ended("unsupported")

\* A source program is lowered and, when accepted, executed.
Compile(i) ==
    /\ source = i
    /\ RunLowered(Each(Len(Sources[i]), LAMBDA k : LowerFunction(Sources[i][k])))

LowerInit == (source = 0 /\ MachineInit) \/ (\E i \in DOMAIN Sources : Compile(i))

LowerNext == MachineNext /\ UNCHANGED source

LowerSpec == LowerInit /\ [][LowerNext]_lowerVars

(***************************************************************************)
(* What a source program means, by evaluation of its expressions: a        *)
(* [kind, value] whose kind is "value", "return" for a return under way,   *)
(* or the name of the trap that ended the evaluation.                      *)
(***************************************************************************)
RECURSIVE Meaning(_, _, _, _), BlockMeaning(_, _, _, _)

Means(value) == [kind |-> "value", value |-> value]

\* A meaning that evaluation goes on from.
HasValue(m) == m.kind = "value"

Environment(params, arguments) ==
    [name \in {p[1] : p \in ToSet(params)} |->
        arguments[CHOOSE k \in DOMAIN params : params[k][1] = name]]

Returned(m) == IF m.kind = "return" THEN Means(m.value) ELSE m

\* A call means its function's body, with the parameters bound to the arguments.
CallMeaning(program, function, arguments) ==
    Returned(BlockMeaning(program, Environment(function.params, arguments),
                          function.body, function.result))

\* The arguments in order, up to the first that has no value.
ArgumentMeanings(program, env, arguments) ==
    FoldLeft(LAMBDA done, e :
                IF \A k \in DOMAIN done : HasValue(done[k])
                THEN Append(done, Meaning(program, env, e, NoType)) ELSE done,
             <<>>, arguments)

CallOn(program, function, arguments) ==
    IF \A k \in DOMAIN arguments : HasValue(arguments[k])
    THEN CallMeaning(program, function, [k \in DOMAIN arguments |-> arguments[k].value])
    ELSE arguments[Len(arguments)]

Checked(result) ==
    IF result.error = NoError THEN Means(result.value)
    ELSE [kind |-> result.error[1], value |-> Empty]

BinaryOn(operator, left, right) ==
    IF HasValue(right) THEN Checked(Binary(operator, left.value, right.value)) ELSE right

RightMeaning(program, env, e, left) ==
    IF HasValue(left)
    THEN BinaryOn(e[2], left, Meaning(program, env, e[4], ConstantType(left.value)))
    ELSE left

\* The arm of a match that the value selects.
Selected(arms, tag) ==
    LET k == SelectInSeq(SubSeq(arms, 1, Len(arms) - 1), LAMBDA arm : arm.pattern = tag)
    IN IF k = 0 THEN arms[Len(arms)] ELSE arms[k]

MatchMeaning(program, env, e, expected, m) ==
    IF HasValue(m)
    THEN Meaning(program, env,
                 Selected(e[3], IF m.value[1] = "Bool" THEN (IF m.value[2] THEN 1 ELSE 0)
                                ELSE m.value[2]).body,
                 IF expected = NoType THEN e[4] ELSE expected)
    ELSE m

Meaning(program, env, e, expected) ==
    CASE e[1] \in {"int", "bool", "text"} -> Means(LowerLiteral(NewBuilder, e, expected).operand[2])
      [] e[1] = "ref" -> Means(env[e[2]])
      [] e[1] = "variant" -> Means(<<"Aggregate", e[3], <<>>>>)
      [] e[1] = "borrow" -> Means(<<"Ref", env[e[3]]>>)
      [] e[1] = "await" -> Meaning(program, env, e[2], expected)
      [] e[1] = "binary" -> RightMeaning(program, env, e, Meaning(program, env, e[3], expected))
      [] e[1] = "call" -> CallOn(program, program[e[2]], ArgumentMeanings(program, env, e[3]))
      [] e[1] = "match" ->
            MatchMeaning(program, env, e, expected, Meaning(program, env, e[2], NoType))
      [] e[1] = "block" -> BlockMeaning(program, env, e[2], expected)

\* The expression a statement evaluates and the type expected of it.
Evaluated(statement) ==
    CASE statement[1] = "let" -> statement[4]
      [] statement[1] = "expr" -> statement[2]
      [] statement[1] = "return" -> statement[2][1]

ExpectedOf(statement, last, expected) ==
    CASE statement[1] = "let" -> statement[3]
      [] statement[1] = "expr" -> IF last THEN expected ELSE NoType
      [] statement[1] = "return" -> expected

\* The rest of a block, once its first statement means m.
RestMeaning(program, env, statements, expected, m) ==
    CASE ~HasValue(m) -> m
      [] HasValue(m) /\ statements[1][1] = "return" -> [m EXCEPT !.kind = "return"]
      [] HasValue(m) /\ statements[1][1] = "expr" /\ Len(statements) = 1 -> m
      [] OTHER ->
            BlockMeaning(program,
                         IF statements[1][1] = "let" THEN (statements[1][2] :> m.value) @@ env ELSE env,
                         Tail(statements), expected)

BlockMeaning(program, env, statements, expected) ==
    CASE statements = <<>> -> Means(<<"Unit">>)
      [] statements # <<>> /\ statements[1] = <<"return", <<>>>> -> [kind |-> "return", value |-> <<"Unit">>]
      [] OTHER ->
            RestMeaning(program, env, statements, expected,
                        Meaning(program, env, Evaluated(statements[1]),
                                ExpectedOf(statements[1], Len(statements) = 1, expected)))

(***************************************************************************)
(* Properties.                                                             *)
(***************************************************************************)
\* A compiled program that runs to its end, or traps on a checked operation, does
\* what its source means: lowering into blocks, the join of match arms, the
\* moves through temporaries and the inserted drops change nothing.
RunsAsWritten ==
    source # 0 /\ ending[1] \in {"done", "arithmetic", "type"} =>
        LET program == Sources[source]
            m == CallMeaning(program, program[Len(program)], <<>>)
        IN IF ending[1] = "done" THEN m = Means(ending[2]) ELSE m.kind = ending[1]

\* Whenever a function compiled from source returns, every owned value it still
\* held has been dropped: no path through a match or a call leaves a string, an
\* aggregate or a mutable reference behind in a local.
OwnedValuesDropped ==
    source # 0 /\ AtEnd("return") =>
        \A l \in DOMAIN Frame.locals \ {1} :
            NeedsDrop(Function.locals[l]) => Frame.locals[l] = Empty
=============================================================================
