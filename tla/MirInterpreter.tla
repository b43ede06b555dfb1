--------------------------- MODULE MirInterpreter ---------------------------
(***************************************************************************)
(* The reference interpreter of verified programs (crates/syllog-          *)
(* interpreter).  One step executes one statement or one terminator of the *)
(* innermost call, after charging it against the instruction limit.        *)
(*                                                                         *)
(* A value is a tagged tuple: <<"U64", n>>, <<"I64", n>>, <<"Bool", b>>,   *)
(* <<"Unit">>, <<"String", bytes>>, <<"Aggregate", tag, fields>> or        *)
(* <<"Ref", v>>; a string is known by its length.  Integers have Width     *)
(* bits.  A trap is named for what the machine found.                      *)
(***************************************************************************)
EXTENDS Mir

CONSTANTS
    Bodies,         \* a sequence of programs, as handed to execute
    Limits,         \* [instructions, depth, bytes]: the limits of a run
    Width           \* bits of an integer

VARIABLES
    mir,            \* the program under execution
    stack,          \* the open calls, innermost first: [function, locals, block, at]
    spent,          \* [instructions, bytes, drops] used so far
    ending          \* <<"running">>, <<"done", value>> or the error that ended the run

machineVars == <<mir, stack, spent, ending>>

\* An empty slot of a frame.
Empty == <<"Empty">>

Unsigned == 0 .. 2^Width - 1
Signed == -(2^(Width - 1)) .. 2^(Width - 1) - 1

Ended(name) == <<name>>
MachineRunning == ending[1] = "running"

(***************************************************************************)
(* Expressions.  Evaluation yields the frame's slots afterwards, the value *)
(* and the error, if any: Ended("none") stands for no error.               *)
(***************************************************************************)
NoError == Ended("none")

\* Division truncates towards zero.
Quotient(left, right) ==
    LET Abs(n) == IF n < 0 THEN -n ELSE n
        magnitude == Abs(left) \div Abs(right)
    IN IF (left < 0) = (right < 0) THEN magnitude ELSE -magnitude

\* The checked operations: no value when the result does not fit, or divides by 0.
Arithmetic(operator, range, left, right) ==
    {n \in CASE operator = "Add" -> {left + right}
             [] operator = "Subtract" -> {left - right}
             [] operator = "Multiply" -> {left * right}
             [] operator = "Divide" -> IF right = 0 THEN {} ELSE {Quotient(left, right)}
        : n \in range}

Yields(v) == [value |-> v, error |-> NoError]
Traps(name) == [value |-> Empty, error |-> Ended(name)]

\* Of the at most one result, or the trap.
OneOf(tag, results) ==
    IF results = {} THEN Traps("arithmetic") ELSE Yields(<<tag, CHOOSE n \in results : TRUE>>)

\* binary: the value of an operation, or the trap it ends in.
Binary(operator, left, right) ==
    CASE operator = "Equal" -> Yields(<<"Bool", left = right>>)
      [] operator # "Equal" /\ left[1] # right[1] -> Traps("type")
      [] operator = "And" /\ left[1] = "Bool" -> Yields(<<"Bool", left[2] /\ right[2]>>)
      [] operator = "Or" /\ left[1] = "Bool" -> Yields(<<"Bool", left[2] \/ right[2]>>)
      [] operator = "Less" /\ left[1] \in {"U64", "I64"} -> Yields(<<"Bool", left[2] < right[2]>>)
      [] operator \in {"Add", "Subtract", "Multiply", "Divide"} /\ left[1] \in {"U64", "I64"} ->
            OneOf(left[1], Arithmetic(operator, IF left[1] = "U64" THEN Unsigned ELSE Signed,
                                      left[2], right[2]))
      [] OTHER -> Traps("type")

\* charge_allocation: the bytes are counted even when they exceed the limit.
Charge(e, amount) ==
    [e EXCEPT !.bytes = @ + amount,
              !.error = IF e.bytes + amount > Limits.bytes THEN Ended("allocation") ELSE @]

\* A move takes the value out of its local.
ReadLocal(e, operand, slot) ==
    IF slot = Empty
    THEN [e EXCEPT !.error = Ended(IF operand[1] = "copy" THEN "empty" ELSE "moved")]
    ELSE [e EXCEPT !.values = Append(@, slot),
                   !.locals[operand[2]] = IF operand[1] = "copy" THEN @ ELSE Empty]

\* operand: a string constant allocates.
Operand(operand, e) ==
    CASE e.error # NoError -> e
      [] e.error = NoError /\ operand[1] = "const" ->
            Charge([e EXCEPT !.values = Append(@, operand[2])],
                   IF operand[2][1] = "String" THEN operand[2][2] ELSE 0)
      [] OTHER ->
            IF operand[2] \in DOMAIN e.locals THEN ReadLocal(e, operand, e.locals[operand[2]])
            ELSE [e EXCEPT !.error = Ended("local")]

\* The operands in order; the first error ends the evaluation.
Operands(operands, locals, bytes) ==
    FoldLeft(LAMBDA e, operand : Operand(operand, e),
             [values |-> <<>>, locals |-> locals, bytes |-> bytes, error |-> NoError], operands)

\* Why a place cannot be read or written, if it cannot.
FieldError(base, field) ==
    CASE base = Empty -> Ended("field base")
      [] base # Empty /\ base[1] # "Aggregate" -> Ended("type")
      [] OTHER -> IF field \in DOMAIN base[3] THEN NoError ELSE Ended("type")

PlaceError(place, locals) ==
    CASE place[2] \notin DOMAIN locals -> Ended("local")
      [] place[2] \in DOMAIN locals /\ place[1] = "local" -> NoError
      [] OTHER -> FieldError(locals[place[2]], place[3])

\* A read does not tell an empty base from an empty local.
ReadError(place, locals) ==
    IF place[2] \in DOMAIN locals /\ locals[place[2]] = Empty THEN Ended("empty")
    ELSE PlaceError(place, locals)

ReadPlace(place, locals) ==
    IF place[1] = "local" THEN locals[place[2]] ELSE locals[place[2]][3][place[3]]

WritePlace(place, locals, value) ==
    IF place[1] = "local" THEN [locals EXCEPT ![place[2]] = value]
    ELSE [locals EXCEPT ![place[2]][3][place[3]] = value]

\* What a place holds, or the error: an empty local gives the error named.
Contents(place, locals, empty, error) ==
    CASE error # NoError -> [value |-> Empty, error |-> error]
      [] error = NoError /\ ReadPlace(place, locals) = Empty -> Traps(empty)
      [] OTHER -> Yields(ReadPlace(place, locals))

\* An evaluation e that ends in the value or the error of r.
Ending(e, r) == [e EXCEPT !.values = <<r.value>>, !.error = r.error]

Borrowed(r) == [r EXCEPT !.value = <<"Ref", r.value>>]

\* rvalue, its operands evaluated to e.
RvalueOf(value, e) ==
    CASE e.error # NoError -> e
      [] e.error = NoError /\ value[1] = "use" -> e
      [] e.error = NoError /\ value[1] = "borrow" ->
            Ending(e, Borrowed(Contents(value[3], e.locals, "empty", ReadError(value[3], e.locals))))
      [] e.error = NoError /\ value[1] = "discriminant" ->
            Ending(e, IF e.values[1][1] = "Aggregate" THEN Yields(<<"U64", e.values[1][2]>>)
                      ELSE Traps("type"))
      [] e.error = NoError /\ value[1] = "aggregate" ->
            Charge(Ending(e, Yields(<<"Aggregate", value[3], e.values>>)), 16 * Len(e.values))
      [] e.error = NoError /\ value[1] = "binary" ->
            Ending(e, Binary(value[2], e.values[1], e.values[2]))

Rvalue(value, locals, bytes) ==
    RvalueOf(value, Operands(RvalueOperands(value), locals, bytes))

(***************************************************************************)
(* Statements: the slots and the resources afterwards, and the error.      *)
(***************************************************************************)
Stored(place, e, used, error) ==
    [locals |-> IF error = NoError THEN WritePlace(place, e.locals, e.values[1]) ELSE e.locals,
     used |-> [used EXCEPT !.bytes = e.bytes], error |-> error]

\* assign: the destination is looked up once the value is known.
Assigning(place, e, used) ==
    Stored(place, e, used, IF e.error # NoError THEN e.error ELSE PlaceError(place, e.locals))

\* drop_place: a dropped field is replaced by the unit value.
Dropping(place, locals, used, contents) ==
    IF contents.error # NoError
    THEN [locals |-> locals, used |-> used, error |-> contents.error]
    ELSE [locals |-> WritePlace(place, locals, IF place[1] = "local" THEN Empty ELSE <<"Unit">>),
          used |-> [used EXCEPT !.drops = @ + 1], error |-> NoError]

ExecuteStatement(statement, locals, used) ==
    IF statement[1] = "drop"
    THEN Dropping(statement[2], locals, used,
                  Contents(statement[2], locals, "drop", PlaceError(statement[2], locals)))
    ELSE Assigning(statement[2], Rvalue(statement[3], locals, used.bytes), used)

(***************************************************************************)
(* The machine.                                                            *)
(***************************************************************************)
Frame == stack[1]
Function == mir.functions[Frame.function]
Block == Function.blocks[Frame.block]
AtTerminator == Frame.at > Len(Block.statements)

\* tick: the instruction is counted, then the limit is compared.
Tick == [spent EXCEPT !.instructions = @ + 1]
InBudget == Tick.instructions <= Limits.instructions

\* A new call: its frame, or why it cannot be entered.
EnterError(program, callee, arguments, depth) ==
    CASE depth > Limits.depth -> Ended("depth")
      [] callee \notin DOMAIN program.functions -> Ended("missing")
      [] Len(arguments) # program.functions[callee].params -> Ended("arguments")
      [] OTHER -> NoError

NewFrame(program, callee, arguments) ==
    [function |-> callee, block |-> 1, at |-> 1,
     locals |-> [l \in DOMAIN program.functions[callee].locals |->
                    IF l - 1 \in DOMAIN arguments THEN arguments[l - 1] ELSE Empty]]

Loaded(program, error) ==
    /\ mir = program
    /\ spent = [instructions |-> 0, bytes |-> 0, drops |-> 0]
    /\ stack = IF error = NoError THEN <<NewFrame(program, program.entry, <<>>)>> ELSE <<>>
    /\ ending = IF error = NoError THEN Ended("running") ELSE error

\* execute: verification first, then the call of the entry at depth 1.
ExecuteProgram(program) ==
    Loaded(program, IF Verify(program) THEN EnterError(program, program.entry, <<>>, 1)
                    ELSE Ended("invalid"))

Fail(error, used) ==
    /\ ending' = error
    /\ spent' = used
    /\ UNCHANGED <<mir, stack>>

\* The call frame goes on, above the frames in below.
Continue(frame, below, used) ==
    /\ stack' = <<frame>> \o below
    /\ spent' = used
    /\ UNCHANGED <<mir, ending>>

InstructionLimit ==
    /\ MachineRunning /\ ~InBudget
    /\ Fail(Ended("instructions"), Tick)

AfterStatement(r) ==
    IF r.error # NoError THEN Fail(r.error, r.used)
    ELSE Continue([Frame EXCEPT !.locals = r.locals, !.at = @ + 1], Tail(stack), r.used)

StepStatement ==
    /\ MachineRunning /\ ~AtTerminator /\ InBudget
    /\ AfterStatement(ExecuteStatement(Block.statements[Frame.at], Frame.locals, Tick))

\* The terminators of the current block, of one kind.
AtEnd(kind) ==
    /\ MachineRunning /\ AtTerminator /\ InBudget
    /\ Block.terminator[1] = kind

\* A verified jump leads to a block that exists.
Jump(frame, below, target, used) ==
    IF target \notin DOMAIN mir.functions[frame.function].blocks THEN Fail(Ended("target"), used)
    ELSE Continue([frame EXCEPT !.block = target, !.at = 1], below, used)

Goto == AtEnd("goto") /\ Jump(Frame, Tail(stack), Block.terminator[2], Tick)

\* The first target for the number, or the last block of the switch.
TargetFor(chosen) ==
    IF chosen = 0 THEN Block.terminator[4] ELSE Block.terminator[3][chosen][2]

SwitchTo(e, number, used) ==
    IF number < 0 THEN Fail(Ended("type"), used)
    ELSE Jump([Frame EXCEPT !.locals = e.locals], Tail(stack),
              TargetFor(SelectInSeq(Block.terminator[3], LAMBDA t : t[1] = number)), used)

\* integer_operand: a Boolean counts as 0 or 1, a negative number traps.
AfterOperand(e, used) ==
    CASE e.error # NoError -> Fail(e.error, used)
      [] e.error = NoError /\ e.values[1][1] = "Bool" ->
            SwitchTo(e, IF e.values[1][2] THEN 1 ELSE 0, used)
      [] e.error = NoError /\ e.values[1][1] \in {"U64", "I64"} -> SwitchTo(e, e.values[1][2], used)
      [] OTHER -> Fail(Ended("type"), used)

Charged(e) == [Tick EXCEPT !.bytes = e.bytes]

SwitchOn(e) == AfterOperand(e, Charged(e))

SwitchInt ==
    /\ AtEnd("switch")
    /\ SwitchOn(Operands(<<Block.terminator[2]>>, Frame.locals, spent.bytes))

Enter(e, error) ==
    IF error # NoError THEN Fail(error, Charged(e))
    ELSE Continue(NewFrame(mir, Block.terminator[2], e.values),
                  <<[Frame EXCEPT !.locals = e.locals]>> \o Tail(stack), Charged(e))

CallWith(e) ==
    Enter(e, IF e.error # NoError THEN e.error
             ELSE EnterError(mir, Block.terminator[2], e.values, Len(stack) + 1))

\* The caller stays below, at its call, until the callee returns.
Call ==
    /\ AtEnd("call")
    /\ CallWith(Operands(Block.terminator[3], Frame.locals, spent.bytes))

\* A value for the destination of the caller's call.
HandBack(value, caller, call) ==
    IF PlaceError(call[4], caller.locals) # NoError
    THEN Fail(PlaceError(call[4], caller.locals), Tick)
    ELSE Jump([caller EXCEPT !.locals = WritePlace(call[4], @, value)],
              SubSeq(stack, 3, Len(stack)), call[5], Tick)

FinishRun(value) ==
    /\ ending' = <<"done", value>>
    /\ stack' = <<>>
    /\ spent' = Tick
    /\ UNCHANGED mir

\* The value of the return place goes to the caller's destination, or is the result.
ReturnFromCall ==
    /\ AtEnd("return")
    /\ IF Frame.locals[1] = Empty THEN Fail(Ended("return"), Tick)
       ELSE IF Len(stack) = 1 THEN FinishRun(Frame.locals[1])
       ELSE HandBack(Frame.locals[1], stack[2],
                     mir.functions[stack[2].function].blocks[stack[2].block].terminator)

MachineInit == \E i \in DOMAIN Bodies : ExecuteProgram(Bodies[i])

MachineNext ==
    InstructionLimit \/ StepStatement \/ Goto \/ SwitchInt \/ Call \/ ReturnFromCall

MachineSpec == MachineInit /\ [][MachineNext]_machineVars

(***************************************************************************)
(* Properties.                                                             *)
(***************************************************************************)
\* A program the verifier accepted never finds a local that was moved out of,
\* dropped, or never written when it reads, drops or returns it, nor a block,
\* local or argument that is not there, on any path through its loops and joins.
\* (A field assignment into an emptied aggregate is not among them: the verifier
\* does not look at the base of an assigned field.)
VerifiedProgramsRun ==
    ending[1] \notin {"moved", "empty", "drop", "return", "target", "local", "arguments", "missing"}
=============================================================================
