----------------------------- MODULE MCPipeline -----------------------------
(* Small instances of Pipeline.                                            *)
EXTENDS Pipeline, SequencesExt

MCNames == {"a", "b", "slow"}

MCHanging == {"slow"}

A == NewStage("a")
B == NewStage("b")
Slow == NewStage("slow")

\* One scope at a time: retries and a circuit in a serial group, a fan-out
\* wider than the semaphore that feeds another group, both join policies,
\* groups without stages, and an operation that hangs with and without a
\* deadline.
ScopePlans == {
  <<Serial(<<WithCircuit(WithRetry(A, 2), 1), B>>)>>,
  <<FanOut(<<A, B, WithDeadline(Slow)>>, "PreserveInputOrder")>>,
  <<FanOut(<<WithCircuit(A, 2), WithCircuit(A, 2)>>, "CompletionOrder"), Serial(<<B>>)>>,
  <<FanOut(<<>>, "CompletionOrder"), Serial(<<A>>)>>,
  <<Serial(<<>>), FanOut(<<A, Slow>>, "PreserveInputOrder")>> }

\* A child that waits for a permit behind a retry and a deadline, and a plan
\* that never returns by itself.
LivenessPlans == {
  <<FanOut(<<WithRetry(A, 2), WithDeadline(Slow)>>, "CompletionOrder")>>,
  <<FanOut(<<WithDeadline(Slow)>>, "CompletionOrder"), Serial(<<B>>)>>,
  <<Serial(<<A, Slow>>)>> }

\* Executions that share a circuit.
CircuitPlans == { <<Serial(<<WithDeadline(WithCircuit(A, 1))>>)>>,
                  <<Serial(<<WithCircuit(A, 2)>>)>> }

\* Any plan by itself, or two executions of CircuitPlans side by side; the
\* caller of the second one does not cancel.
AllPlans == ScopePlans \cup CircuitPlans

SideBySide(p) == plan[1] \in CircuitPlans /\ Execute(2, p)

ScopesNext ==
  \/ \E p \in Plans : Execute(1, p)
  \/ \E p \in CircuitPlans : SideBySide(p)
  \/ Cancel(1)
  \/ \E h \in Handles :
       \/ RootStep(h) \/ Wait(h) \/ CallerStep(h) \/ Reap(h)
       \/ \E i \in Branch : StageStep(h, i) \/ Operation(h, i) \/ DeadlineElapsed(h, i)
  \/ \E n \in Names : ResetElapsed(n)

ScopesSpec == Init /\ [][ScopesNext]_vars

\* Executions of one stage with a deadline, and a fan-out whose second branch
\* never returns.
DeadlinePlans == { <<Serial(<<WithDeadline(WithCircuit(A, 2))>>)>> }
StuckPlans == { <<FanOut(<<A, Slow>>, "PreserveInputOrder")>> }

\* LifecycleLog::extend as the loop over push that the code is.
ExtendLoop(old, incoming) == FoldLeft(Push, old, incoming)

ShortLogs == UNION {[1 .. n -> {1, 2}] : n \in 0 .. EventCapacity}

ASSUME ExtendIsRepeatedPush ==
  EventCapacity <= 3 =>
    \A old \in ShortLogs, new \in UNION {[1 .. n -> {3, 4}] : n \in 0 .. 4} :
      Extend(old, new) = ExtendLoop(old, new)
=============================================================================
