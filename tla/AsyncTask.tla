------------------------------ MODULE AsyncTask ------------------------------
(***************************************************************************)
(* Async functions from lowering to execution: the state machine that      *)
(* crates/syllog-compiler/src/async_lower.rs builds, verify_async_machine  *)
(* of crates/syllog-ir/src/lib.rs, and the runners of                      *)
(* crates/syllog-runtime/src/task.rs, which drive it with a control that   *)
(* cancels it or makes it panic at one await.                              *)
(*                                                                         *)
(* An async function is abstracted to its parameters, the locals its body  *)
(* binds at the top level, which of them have a type that holds a str, and *)
(* its number of awaits.                                                   *)
(***************************************************************************)
EXTENDS Integers, FiniteSets, Sequences

CONSTANTS
  Functions,   \* [parameters, lets, borrowed, awaits]
  Controls     \* [kind |-> "run" | "cancel" | "panic", await]

ASSUME TaskAssumption ==
  /\ \A f \in Functions : f.awaits \in Nat
  /\ \A c \in Controls : c.kind \in {"run", "cancel", "panic"} /\ c.await \in Nat

VARIABLES
  function, control,
  machine,     \* sequence of states, state i at position i + 1
  phase,       \* "lower", "run", "running", "pending" or "end"
  at,          \* index of the current state
  lastAwait,   \* the await last woken, or NoAwait
  suspension,  \* the resume state of a suspended task
  taskEvents,
  outcome      \* "none", "complete", "panicked", "invalid" or "rejected"

NoAwait == -1

taskVars == <<function, control, machine, phase, at, lastAwait, suspension, taskEvents, outcome>>

-----------------------------------------------------------------------------
(***************************************************************************)
(* Lowering.                                                               *)
(***************************************************************************)
Locals(f) == f.parameters \cup f.lets

\* Mutant: the last resume continues behind the complete state.
BuildMachinePastEnd(f) ==
  LET complete == 1 + 2 * f.awaits
      cancel == complete + 1
      Transition(i) ==
        IF i = 0 THEN [kind |-> "start", next |-> IF f.awaits = 0 THEN complete ELSE 1]
        ELSE IF i = complete THEN [kind |-> "complete"]
        ELSE IF i = cancel THEN [kind |-> "cancel", drops |-> Locals(f)]
        ELSE IF i % 2 = 1 THEN [kind |-> "suspend", await |-> (i - 1) \div 2, resume |-> i + 1,
                                cancel |-> cancel]
        ELSE [kind |-> "resume", next |-> i + 2, panic |-> cancel]
  IN [scoped |-> TRUE, states |-> [k \in 1 .. cancel + 1 |-> Transition(k - 1)]]

\* Start, a suspend and a resume state per await, complete and cancel.
BuildMachine(f) ==
  LET complete == 1 + 2 * f.awaits
      cancel == complete + 1
      Transition(i) ==
        IF i = 0 THEN [kind |-> "start", next |-> IF f.awaits = 0 THEN complete ELSE 1]
        ELSE IF i = complete THEN [kind |-> "complete"]
        ELSE IF i = cancel THEN [kind |-> "cancel", drops |-> Locals(f)]
        ELSE IF i % 2 = 1 THEN [kind |-> "suspend", await |-> (i - 1) \div 2, resume |-> i + 1,
                                cancel |-> cancel]
        ELSE [kind |-> "resume", next |-> i + 1, panic |-> cancel]
  IN [scoped |-> TRUE, states |-> [k \in 1 .. cancel + 1 |-> Transition(k - 1)]]

StateTargets(s) == CASE s.kind = "start" -> {s.next}
                     [] s.kind = "suspend" -> {s.resume, s.cancel}
                     [] s.kind = "resume" -> {s.next, s.panic}
                     [] OTHER -> {}

Count(m, kind) == Cardinality({k \in DOMAIN m.states : m.states[k].kind = kind})

VerifyAsyncMachine(m) ==
  /\ m.states # <<>> /\ m.scoped
  /\ \A k \in DOMAIN m.states : StateTargets(m.states[k]) \subseteq 0 .. Len(m.states) - 1
  /\ Count(m, "complete") = 1 /\ Count(m, "cancel") = 1

\* No borrow is kept in a frame that suspends.
Lower ==
  /\ phase = "lower"
  /\ LET rejected == \/ function.awaits > 0 /\ function.borrowed # {}
                     \/ ~VerifyAsyncMachine(BuildMachine(function))
     IN /\ machine' = BuildMachine(function)
        /\ phase' = IF rejected THEN "end" ELSE "run"
        /\ outcome' = IF rejected THEN "rejected" ELSE "none"
  /\ UNCHANGED <<function, control, at, lastAwait, suspension, taskEvents>>

-----------------------------------------------------------------------------
(***************************************************************************)
(* The runner: one action per transition of advance.                       *)
(***************************************************************************)
\* Runner::new
NewRunner ==
  /\ phase = "run"
  /\ phase' = IF VerifyAsyncMachine(machine) THEN "running" ELSE "end"
  /\ outcome' = IF VerifyAsyncMachine(machine) THEN "none" ELSE "invalid"
  /\ taskEvents' = <<<<"started">>>>
  /\ UNCHANGED <<function, control, machine, at, lastAwait, suspension>>

Running(kind) == phase = "running" /\ machine.states[at + 1].kind = kind
State == machine.states[at + 1]
Injected(kind, i) == control.kind = kind /\ control.await = i

Start ==
  /\ Running("start")
  /\ at' = State.next
  /\ UNCHANGED <<function, control, machine, phase, lastAwait, suspension, taskEvents, outcome>>

Suspend ==
  /\ Running("suspend")
  /\ IF Injected("cancel", State.await)
     THEN /\ taskEvents' = taskEvents \o <<<<"suspended", State.await>>, <<"cancelled">>>>
          /\ at' = State.cancel /\ UNCHANGED <<phase, suspension>>
     ELSE /\ taskEvents' = Append(taskEvents, <<"suspended", State.await>>)
          /\ phase' = "pending" /\ suspension' = <<State.await, State.resume>> /\ UNCHANGED at
  /\ UNCHANGED <<function, control, machine, lastAwait, outcome>>

\* wake: at once in the deterministic runner, after a yield in the other.
Wake ==
  /\ phase = "pending" /\ phase' = "running"
  /\ taskEvents' = Append(taskEvents, <<"woken", suspension[1]>>)
  /\ lastAwait' = suspension[1] /\ at' = suspension[2] /\ suspension' = <<>>
  /\ UNCHANGED <<function, control, machine, outcome>>

Resume ==
  /\ Running("resume")
  /\ IF lastAwait = NoAwait
     THEN phase' = "end" /\ outcome' = "invalid" /\ UNCHANGED <<at, taskEvents>>
     ELSE /\ taskEvents' = taskEvents \o <<<<"resumed", lastAwait>>>>
                              \o (IF Injected("panic", lastAwait) THEN <<<<"panicked">>>> ELSE <<>>)
          /\ at' = IF Injected("panic", lastAwait) THEN State.panic ELSE State.next
          /\ UNCHANGED <<phase, outcome>>
  /\ UNCHANGED <<function, control, machine, lastAwait, suspension>>

Complete ==
  /\ Running("complete")
  /\ taskEvents' = Append(taskEvents, <<"completed">>)
  /\ phase' = "end" /\ outcome' = "complete"
  /\ UNCHANGED <<function, control, machine, at, lastAwait, suspension>>

Panicked == \E k \in DOMAIN taskEvents : taskEvents[k] = <<"panicked">>

\* The shared drop path of cancellation and panic.
DropFrame ==
  /\ Running("cancel")
  /\ taskEvents' = Append(taskEvents, <<"dropped", State.drops>>)
  /\ phase' = "end" /\ outcome' = IF Panicked THEN "panicked" ELSE "complete"
  /\ UNCHANGED <<function, control, machine, at, lastAwait, suspension>>

TaskInit ==
  /\ function \in Functions /\ control \in Controls
  /\ machine = [scoped |-> FALSE, states |-> <<>>] /\ phase = "lower" /\ at = 0 /\ lastAwait = NoAwait
  /\ suspension = <<>> /\ taskEvents = <<>> /\ outcome = "none"

TaskNext == Lower \/ NewRunner \/ Start \/ Suspend \/ Wake \/ Resume \/ Complete \/ DropFrame

TaskSpec == TaskInit /\ [][TaskNext]_taskVars

-----------------------------------------------------------------------------
\* Reference: the events of a task, written down without a machine.
Uninterrupted(n) ==
  [k \in 1 .. 3 * n |-> <<CASE k % 3 = 1 -> "suspended" [] k % 3 = 2 -> "woken"
                            [] OTHER -> "resumed", (k - 1) \div 3>>]

ExpectedEvents(f, c) ==
  LET hit == c.kind # "run" /\ c.await < f.awaits
  IN <<<<"started">>>> \o
     (IF ~hit THEN Append(Uninterrupted(f.awaits), <<"completed">>)
      ELSE IF c.kind = "cancel"
        THEN Uninterrupted(c.await)
             \o <<<<"suspended", c.await>>, <<"cancelled">>, <<"dropped", Locals(f)>>>>
      ELSE Uninterrupted(c.await + 1) \o <<<<"panicked">>, <<"dropped", Locals(f)>>>>)

\* Every async function that lowers runs to its end with the events its
\* control calls for: each await suspends, wakes and resumes in order,
\* nothing happens after a cancellation or a panic but one drop of all its
\* locals, and only a panic is a failure (build_machine, advance).
TaskRunsAsWritten ==
  outcome \notin {"none", "rejected"} =>
    /\ taskEvents = ExpectedEvents(function, control)
    /\ (outcome = "panicked") <=> (control.kind = "panic" /\ control.await < function.awaits)
=============================================================================
