--------------------------- MODULE CircuitBreaker ---------------------------
(***************************************************************************)
(* One entry of the circuit table that all executions of a                 *)
(* ProductionPipelineExecutor share, keyed by stage name (CircuitState in  *)
(* crates/syllog-runtime/src/pipeline.rs).  `opened' stands for opened_at  *)
(* and the time passed since: "closed" is None, "open" is Some(t) with     *)
(* less than reset_after gone by, "expired" is Some(t) after that.         *)
(***************************************************************************)
EXTENDS Naturals

CircuitState == [failures: Nat, opened: {"closed", "open", "expired"}]

Closed == [failures |-> 0, opened |-> "closed"]

\* check_circuit denies the invocation: opened_at.elapsed() < reset_after.
Denies(c) == c.opened = "open"

\* check_circuit admits the invocation: an expired entry is reset first.
Admit(c) == IF c.opened = "expired" THEN Closed ELSE c

\* record_circuit_success resets the entry, whoever opened it.
RecordSuccess(c) == Closed

\* A threshold test that needs one failure too many.
RecordFailureLate(c, failure_threshold) ==
  [failures |-> c.failures + 1,
   opened   |-> IF c.failures >= failure_threshold THEN "open" ELSE c.opened]

\* record_circuit_failure: count, and (re)open at the threshold.
RecordFailure(c, failure_threshold) ==
  [failures |-> c.failures + 1,
   opened   |-> IF c.failures + 1 >= failure_threshold THEN "open" ELSE c.opened]

\* Time passes: reset_after has elapsed since the circuit opened.
Elapse(c) == [c EXCEPT !.opened = "expired"]
=============================================================================
