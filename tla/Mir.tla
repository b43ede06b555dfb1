-------------------------------- MODULE Mir ---------------------------------
(***************************************************************************)
(* The control-flow representation of a compiled program and the verifier  *)
(* that every program must pass before it is interpreted or emitted        *)
(* (crates/syllog-ir).                                                      *)
(*                                                                         *)
(* A program is [functions, entry]; a function is [params, result, locals, *)
(* blocks], a block [statements, terminator].  Functions, locals and       *)
(* blocks are numbered from 1: local 1 is the return place, locals         *)
(* 2..params+1 hold the parameters, block 1 is the entry.  Types, places,  *)
(* operands, right-hand sides and terminators are tagged tuples:           *)
(*                                                                         *)
(*   type        <<"U64">>, <<"I64">>, <<"Bool">>, <<"Unit">>,             *)
(*               <<"String">>, <<"Aggregate", d>>, <<"Ref", mutable, t>>   *)
(*   place       <<"local", l>>, <<"field", l, i>>                         *)
(*   operand     <<"const", v>>, <<"copy", l>>, <<"move", l>>              *)
(*   rvalue      <<"use", o>>, <<"borrow", mutable, p>>,                   *)
(*               <<"discriminant", o>>, <<"aggregate", d, tag, os>>,       *)
(*               <<"binary", operator, o, o>>                              *)
(*   statement   <<"assign", p, r>>, <<"drop", p>>                         *)
(*   terminator  <<"return">>, <<"goto", b>>,                              *)
(*               <<"switch", o, <<<<n, b>>, ...>>, b>>,                    *)
(*               <<"call", f, os, p, b>>, <<"none">>                       *)
(*                                                                         *)
(* The verifier reports every error it meets; only whether it meets one    *)
(* matters to its callers, so Verify is the conjunction of the checks.     *)
(***************************************************************************)
EXTENDS Integers, Sequences, FiniteSets, SequencesExt

RECURSIVE Solve(_, _, _, _)

\* The type of a constant, carried by the tag of its value.
ConstantType(value) == <<value[1]>>

PlaceLocal(place) == place[2]

\* The local a place or a destination names when it is a whole local.
WholeLocal(place) == IF place[1] = "local" THEN {place[2]} ELSE {}

\* The operands a right-hand side evaluates, in evaluation order.
RvalueOperands(value) ==
    CASE value[1] \in {"use", "discriminant"} -> <<value[2]>>
      [] value[1] = "aggregate" -> value[4]
      [] value[1] = "binary" -> <<value[3], value[4]>>
      [] value[1] = "borrow" -> <<>>

\* The operands a terminator evaluates, in evaluation order.
TerminatorOperands(terminator) ==
    CASE terminator[1] = "switch" -> <<terminator[2]>>
      [] terminator[1] = "call" -> terminator[3]
      [] OTHER -> <<>>

\* The blocks a terminator may continue in.
BlockSuccessors(terminator) ==
    CASE terminator[1] = "goto" -> {terminator[2]}
      [] terminator[1] = "switch" ->
            {terminator[3][k][2] : k \in DOMAIN terminator[3]} \cup {terminator[4]}
      [] terminator[1] = "call" -> {terminator[5]}
      [] OTHER -> {}

\* The locals assigned by a statement, and by the return of a call.
Assigned(statement) == IF statement[1] = "assign" THEN WholeLocal(statement[2]) ELSE {}

CallAssigned(terminator) ==
    IF terminator[1] = "call" THEN WholeLocal(terminator[4]) ELSE {}

\* Values of these types are copied, all others are moved.
IsCopy(type) == type[1] \in {"Unit", "Bool", "I64", "U64"} \/ (type[1] = "Ref" /\ ~type[2])

(***************************************************************************)
(* Data flow.  Both analyses start from the parameters at the entry and    *)
(* from every local elsewhere, and intersect over the incoming edges until *)
(* nothing changes.  The code visits the blocks in order and updates in    *)
(* place; the greatest fixed point does not depend on the order.           *)
(***************************************************************************)
ReachableBlocks(function) ==
    LET Step(blocks) ==
            blocks \cup (DOMAIN function.blocks
                         \cap UNION {BlockSuccessors(function.blocks[b].terminator) : b \in blocks})
        Reach[n \in 0 .. Len(function.blocks)] ==
            IF n = 0 THEN {1} ELSE Step(Reach[n - 1])
    IN Reach[Len(function.blocks)]

Parameters(function) == 2 .. (function.params + 1)

\* One round of the loop: the state entering each block of incoming meets what
\* leaves the predecessors; the blocks in fixed keep their state.
Solve(function, Transfer(_, _), fixed, incoming) ==
    LET Predecessors(b) ==
            {p \in DOMAIN incoming : b \in BlockSuccessors(function.blocks[p].terminator)}
        next == [b \in DOMAIN incoming |->
                    IF b \in fixed THEN incoming[b]
                    ELSE {l \in incoming[b] :
                            \A p \in Predecessors(b) :
                                l \in Transfer(function.blocks[p], incoming[p])}]
    IN IF next = incoming THEN incoming ELSE Solve(function, Transfer, fixed, next)

Flow(function, Transfer(_, _), fixed) ==
    Solve(function, Transfer, fixed,
          [b \in ReachableBlocks(function) |->
              IF b = 1 THEN Parameters(function) ELSE DOMAIN function.locals])

\* Evaluating an operand list empties the locals it moves from.
ConsumeOperands(operands, state) ==
    state \ {operands[k][2] : k \in {i \in DOMAIN operands : operands[i][1] = "move"}}

TransferStatement(statement, state) ==
    IF statement[1] = "drop"
    THEN state \ {PlaceLocal(statement[2])}
    ELSE ConsumeOperands(RvalueOperands(statement[3]), state) \cup Assigned(statement)

TransferStatements(statements, state) ==
    FoldLeft(LAMBDA s, statement : TransferStatement(statement, s), state, statements)

\* transfer_block: the locals that hold a value when the block is left.
TransferBlock(block, state) ==
    ConsumeOperands(TerminatorOperands(block.terminator),
                    TransferStatements(block.statements, state))
        \cup CallAssigned(block.terminator)

\* The locals defined when the block is left; a move leaves a local defined.
DefineBlock(block, state) ==
    state \cup UNION {Assigned(block.statements[k]) : k \in DOMAIN block.statements}
          \cup CallAssigned(block.terminator)

\* definite_initialization: the entry block keeps the parameters alone.
DefiniteInitialization(function) == Flow(function, DefineBlock, {1})

(***************************************************************************)
(* verify_affine_ownership: an owned value is used at most once, and not   *)
(* overwritten while it is held.                                           *)
(***************************************************************************)
EverInitialized(function) ==
    Parameters(function)
        \cup UNION {DefineBlock(function.blocks[b], {}) : b \in DOMAIN function.blocks}

\* check_read: a local that is never initialized is left to the other analysis.
CheckRead(local, state, initialized) == local \in state \/ local \notin initialized

Owned(function, local) ==
    local \in DOMAIN function.locals /\ ~IsCopy(function.locals[local])

\* The operands are read in order, each after the moves of those before it.
CheckOperands(function, operands, state, initialized) ==
    \A k \in DOMAIN operands :
        operands[k][1] # "const" =>
            /\ CheckRead(operands[k][2], ConsumeOperands(SubSeq(operands, 1, k - 1), state),
                         initialized)
            /\ operands[k][1] = "copy" => ~Owned(function, operands[k][2])

CheckStatement(function, statement, state, initialized) ==
    IF statement[1] = "drop"
    THEN CheckRead(PlaceLocal(statement[2]), state, initialized)
    ELSE LET value == statement[3]
             read == ConsumeOperands(RvalueOperands(value), state)
         IN /\ CheckOperands(function, RvalueOperands(value), state, initialized)
            /\ value[1] = "borrow" => CheckRead(PlaceLocal(value[3]), state, initialized)
            /\ \A l \in Assigned(statement) \cap read : ~Owned(function, l)

CheckTerminator(function, terminator, state, initialized) ==
    /\ terminator[1] = "return" => CheckRead(1, state, initialized)
    /\ CheckOperands(function, TerminatorOperands(terminator), state, initialized)

\* Mutant: as in the other analysis, a loop back to the entry block is not followed.
FlowOwnershipFixedEntry(function) == Flow(function, TransferBlock, {1})

\* The state each reachable block is entered in; unlike the other analysis, a
\* loop back to the entry block counts.
FlowOwnership(function) == Flow(function, TransferBlock, {})

VerifyAffineOwnership(function) ==
    LET incoming == FlowOwnership(function)
        initialized == EverInitialized(function)
    IN \A b \in DOMAIN incoming :
        LET block == function.blocks[b]
            Before(k) == TransferStatements(SubSeq(block.statements, 1, k - 1), incoming[b])
        IN /\ \A k \in DOMAIN block.statements :
                CheckStatement(function, block.statements[k], Before(k), initialized)
           /\ CheckTerminator(function, block.terminator,
                              Before(Len(block.statements) + 1), initialized)

(***************************************************************************)
(* verify_function: shape, targets, definite initialization and types.     *)
(***************************************************************************)
\* verify_targets: every block ends, in blocks and functions that exist.
VerifyTargets(program, function) ==
    \A b \in DOMAIN function.blocks :
        LET terminator == function.blocks[b].terminator
        IN /\ terminator[1] # "none"
           /\ BlockSuccessors(terminator) \subseteq DOMAIN function.blocks
           /\ terminator[1] = "call" => terminator[2] \in DOMAIN program.functions

VerifyLocalUse(function, local, defined) == local \in DOMAIN function.locals /\ local \in defined

VerifyOperands(function, operands, defined) ==
    \A k \in DOMAIN operands :
        operands[k][1] # "const" => VerifyLocalUse(function, operands[k][2], defined)

\* operand_type, for an operand that VerifyOperands accepts.
OperandType(function, operand) ==
    IF operand[1] = "const" THEN ConstantType(operand[2]) ELSE function.locals[operand[2]]

\* place_type: the types of fields are not tracked.
PlaceTypes(function, place) ==
    IF place[1] = "local" THEN {function.locals[place[2]]} ELSE {}

\* The type rules of an operator: equal operands, Booleans for a connective.
VerifyBinary(operator, left, right) ==
    /\ left = right
    /\ operator \in {"And", "Or"} => left = <<"Bool">>

VerifyRvalue(function, value, defined) ==
    /\ VerifyOperands(function, RvalueOperands(value), defined)
    /\ value[1] = "borrow" => VerifyLocalUse(function, PlaceLocal(value[3]), defined)
    /\ value[1] = "binary" => VerifyBinary(value[2], OperandType(function, value[3]),
                                           OperandType(function, value[4]))

\* The type a right-hand side has, if the verifier knows it.
RvalueTypes(function, value) ==
    CASE value[1] = "borrow" -> {<<"Ref", value[2], t>> : t \in PlaceTypes(function, value[3])}
      [] value[1] = "use" -> {OperandType(function, value[2])}
      [] value[1] = "discriminant" -> {<<"U64">>}
      [] value[1] = "aggregate" -> {<<"Aggregate", value[2]>>}
      [] value[1] = "binary" -> IF value[2] \in {"Equal", "Less", "And", "Or"}
                                THEN {<<"Bool">>} ELSE {OperandType(function, value[3])}

VerifyStatement(function, statement, defined) ==
    IF statement[1] = "drop"
    THEN VerifyLocalUse(function, PlaceLocal(statement[2]), defined)
    ELSE /\ VerifyRvalue(function, statement[3], defined)
         /\ PlaceLocal(statement[2]) \in DOMAIN function.locals
         /\ \A d \in PlaceTypes(function, statement[2]) :
                \A v \in RvalueTypes(function, statement[3]) : d = v

VerifyTerminator(program, function, terminator, defined) ==
    /\ VerifyOperands(function, TerminatorOperands(terminator), defined)
    /\ terminator[1] = "return" => VerifyLocalUse(function, 1, defined)
    /\ terminator[1] = "switch" =>
        OperandType(function, terminator[2]) \in {<<"Bool">>, <<"I64">>, <<"U64">>}
    /\ terminator[1] = "call" =>
        LET callee == program.functions[terminator[2]]
        IN /\ Len(terminator[3]) = callee.params
           /\ \A k \in DOMAIN terminator[3] :
                k + 1 \in DOMAIN callee.locals =>
                    OperandType(function, terminator[3][k]) = callee.locals[k + 1]
           /\ PlaceLocal(terminator[4]) \in DOMAIN function.locals
           /\ \A d \in PlaceTypes(function, terminator[4]) : d = callee.result

VerifyFunction(program, function) ==
    /\ function.locals # <<>> /\ function.blocks # <<>>
    /\ function.locals[1] = function.result
    /\ function.params + 1 <= Len(function.locals)
    /\ VerifyTargets(program, function)
    /\ LET incoming == DefiniteInitialization(function)
       IN \A b \in DOMAIN incoming :
            LET block == function.blocks[b]
                Before(k) == incoming[b] \cup UNION {Assigned(block.statements[j]) : j \in 1 .. k - 1}
            IN /\ \A k \in DOMAIN block.statements :
                    VerifyStatement(function, block.statements[k], Before(k))
               /\ VerifyTerminator(program, function, block.terminator,
                                   Before(Len(block.statements) + 1))

Verify(program) ==
    \A i \in DOMAIN program.functions :
        VerifyFunction(program, program.functions[i])
            /\ VerifyAffineOwnership(program.functions[i])
=============================================================================
