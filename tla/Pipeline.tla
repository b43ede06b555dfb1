------------------------------ MODULE Pipeline ------------------------------
(***************************************************************************)
(* ProductionPipelineExecutor of crates/syllog-runtime/src/pipeline.rs:    *)
(* root scopes that run the groups of a plan, serial stages, bounded       *)
(* fan-out with a join, retries, deadlines, circuits shared by all         *)
(* executions, cooperative cancellation, and the handle that waits for a   *)
(* root and hands a root that ignores cancellation to a supervisor.        *)
(*                                                                         *)
(* Each execute() is one element of Handles.  Its actors are the root task *)
(* (root), the stage executions of the group it is in (pc, one per stage   *)
(* of the group; a fan-out runs them as child tasks, a serial group one    *)
(* after the other inside the root task) and the caller that holds the     *)
(* PipelineHandle (waiter).  Time is not a number: a deadline, a backoff,  *)
(* the grace period and reset_after each end in an action of their own.    *)
(* An output is named by the position of the stage that produced it; the   *)
(* plan's input is 0.                                                      *)
(***************************************************************************)
EXTENDS Naturals, Sequences, FiniteSets, LifecycleLog, CircuitBreaker

CONSTANTS
  Handles,     \* calls of execute() on one executor
  Plans,       \* the plans a caller may execute
  Names,       \* stage names, the keys of the circuit table
  Hanging,     \* names of stages whose operation may never return
  MaxFanOut,   \* max_fan_out of the executor, rejected when zero
  MaxStages    \* bound: no group of Plans has more stages

Branch == 1 .. MaxStages

Stage == [name: Names, max_attempts: Nat \ {0}, deadline: BOOLEAN, circuit: Nat]

Group == [kind: {"Serial", "FanOut"},
          join: {"PreserveInputOrder", "CompletionOrder"},
          stages: Seq(Stage)]

ASSUME PlansAssumption ==
  \A p \in Plans : /\ p \in Seq(Group)
                   /\ \A g \in DOMAIN p : Len(p[g].stages) <= MaxStages

ASSUME BoundsAssumption == MaxFanOut \in Nat \ {0} /\ MaxStages \in Nat

ASSUME NamesAssumption == Hanging \subseteq Names /\ "" \notin Names

-----------------------------------------------------------------------------
(* Building a plan.  circuit is the failure threshold, 0 without a policy. *)

NewStage(name) ==
  [name |-> name, max_attempts |-> 1, deadline |-> FALSE, circuit |-> 0]

AtLeastOne(n) == IF n = 0 THEN 1 ELSE n

WithRetry(stage, max_attempts) ==
  [stage EXCEPT !.max_attempts = AtLeastOne(max_attempts)]

WithDeadline(stage) == [stage EXCEPT !.deadline = TRUE]

WithCircuit(stage, failure_threshold) ==
  [stage EXCEPT !.circuit = AtLeastOne(failure_threshold)]

Serial(stages) ==
  [kind |-> "Serial", join |-> "PreserveInputOrder", stages |-> stages]

FanOut(stages, join) == [kind |-> "FanOut", join |-> join, stages |-> stages]

-----------------------------------------------------------------------------
VARIABLES
  plan,        \* the plan passed to execute()
  root,        \* control point of the root task
  group,       \* index of the group the root task is at
  outputs,     \* outputs of the last completed group
  joined,      \* results of the fan-out in join order
  failure,     \* first failure the fan-out joined, "None" before
  verdict,     \* what the root task returns
  pc,          \* control point of each stage execution of the group
  attempt,     \* attempts each stage execution has started
  result,      \* what each stage execution returned
  childLog,    \* the private event log of each fan-out child
  permits,     \* free permits of the fan-out's semaphore
  cancelled,   \* the scope's cancellation flag
  log,         \* the root's event log
  waiter,      \* control point of the caller
  answer,      \* what wait() returned
  evidence,    \* the events returned with it
  supervised,  \* the root task was handed to the supervisor and not yet reaped
  circuits,    \* the circuit table shared by all executions
  asked        \* history: the caller, or an operation by itself, asked to cancel

rootVars   == <<root, group, outputs, joined, failure, verdict>>
stageVars  == <<pc, attempt, result, childLog, permits>>
callerVars == <<waiter, answer, supervised>>
vars == <<plan, rootVars, stageVars, cancelled, log, callerVars, evidence,
          circuits, asked>>

StageErrors == {"Retryable", "Fatal", "Cancelled", "Deadline", "CircuitOpen", "Join"}

StageEvents == {"StageAttempt", "StageSucceeded", "StageFailed"}

ScopeEvents == {"Started", "FanOutStarted", "Joined", "Cancelled",
                "CancellationGraceElapsed", "TaskDetached", "Completed"}

Events == [kind: StageEvents \cup ScopeEvents, stage: Names \cup {""},
           number: Nat, error: StageErrors \cup {""}]

RootPoints == {"unborn", "spawned", "group", "entering", "serial", "fanout",
               "finishing", "snapshot", "done", "panicked"}

WaiterPoints == {"holding", "waiting", "grace", "leaving", "returned", "detached"}

StagePoints == {"idle", "queued", "enter", "check", "call", "running", "backoff",
                "finished", "joined"}

RootOK ==
  /\ plan \in [Handles -> Plans \cup {<<>>}]
  /\ root \in [Handles -> RootPoints]
  /\ group \in [Handles -> Nat \ {0}]
  /\ outputs \in [Handles -> Seq(Nat)]
  /\ joined \in [Handles -> Seq(Branch)]
  /\ failure \in [Handles -> StageErrors \cup {"None"}]
  /\ verdict \in [Handles -> StageErrors \cup {"None", "Ok"}]

StageOK ==
  /\ pc \in [Handles -> [Branch -> StagePoints]]
  /\ attempt \in [Handles -> [Branch -> Nat]]
  /\ result \in [Handles -> [Branch -> StageErrors \cup {"None", "Ok"}]]
  /\ permits \in [Handles -> 0 .. MaxFanOut]

Bounded(buffer) == Len(buffer) <= EventCapacity

LogOK ==
  /\ log \in [Handles -> Seq(Events)]
  /\ evidence \in [Handles -> Seq(Events)]
  /\ childLog \in [Handles -> [Branch -> Seq(Events)]]
  /\ \A h \in Handles : /\ Bounded(log[h])
                        /\ \A i \in Branch : Bounded(childLog[h][i])

CallerOK ==
  /\ cancelled \in [Handles -> BOOLEAN]
  /\ asked \in [Handles -> BOOLEAN]
  /\ waiter \in [Handles -> WaiterPoints]
  /\ answer \in [Handles -> StageErrors \cup {"None", "Ok"}]
  /\ supervised \in [Handles -> BOOLEAN]
  /\ circuits \in [Names -> CircuitState]

\* What every variable ranges over; no buffer outgrows its capacity.
TypeOK == RootOK /\ StageOK /\ LogOK /\ CallerOK

Init ==
  /\ plan = [h \in Handles |-> <<>>]
  /\ root = [h \in Handles |-> "unborn"]
  /\ group = [h \in Handles |-> 1]
  /\ outputs = [h \in Handles |-> <<0>>]
  /\ joined = [h \in Handles |-> <<>>]
  /\ failure = [h \in Handles |-> "None"]
  /\ verdict = [h \in Handles |-> "None"]
  /\ pc = [h \in Handles |-> [i \in Branch |-> "idle"]]
  /\ attempt = [h \in Handles |-> [i \in Branch |-> 0]]
  /\ result = [h \in Handles |-> [i \in Branch |-> "None"]]
  /\ childLog = [h \in Handles |-> [i \in Branch |-> <<>>]]
  /\ permits = [h \in Handles |-> MaxFanOut]
  /\ cancelled = [h \in Handles |-> FALSE]
  /\ log = [h \in Handles |-> <<>>]
  /\ waiter = [h \in Handles |-> "holding"]
  /\ answer = [h \in Handles |-> "None"]
  /\ evidence = [h \in Handles |-> <<>>]
  /\ supervised = [h \in Handles |-> FALSE]
  /\ circuits = [n \in Names |-> Closed]
  /\ asked = [h \in Handles |-> FALSE]

-----------------------------------------------------------------------------
(* The root task: run, run_groups and the parent half of run_fan_out.      *)

Current(h) == plan[h][group[h]]

Width(h) == Len(Current(h).stages)

StageOf(h, i) == Current(h).stages[i]

\* execute: build the scope's token, log and handle and spawn the root task.
Execute(h, p) ==
  /\ root[h] = "unborn"
  /\ plan' = [plan EXCEPT ![h] = p]
  /\ root' = [root EXCEPT ![h] = "spawned"]
  /\ UNCHANGED <<group, outputs, joined, failure, verdict, stageVars, cancelled,
                 log, callerVars, evidence, circuits, asked>>

Start(h) ==
  /\ root[h] = "spawned"
  /\ root' = [root EXCEPT ![h] = "group"]
  /\ log' = [log EXCEPT ![h] = Push(@, ScopeEvent("Started"))]
  /\ UNCHANGED <<plan, group, outputs, joined, failure, verdict, stageVars,
                 cancelled, callerVars, evidence, circuits, asked>>

\* run_groups returns v.
Conclude(h, v) ==
  /\ root' = [root EXCEPT ![h] = "finishing"]
  /\ verdict' = [verdict EXCEPT ![h] = v]
  /\ UNCHANGED <<plan, group, outputs, joined, failure, stageVars, cancelled, log,
                 callerVars, evidence, circuits, asked>>

ObserveCancellation(h) ==
  /\ root[h] = "group"
  /\ group[h] <= Len(plan[h])
  /\ cancelled[h]
  /\ Conclude(h, "Cancelled")

GroupsExhausted(h) ==
  /\ root[h] = "group"
  /\ group[h] > Len(plan[h])
  /\ Conclude(h, "Ok")

\* A way into the group without a look at the token.
AdmitGroupUnchecked(h) ==
  /\ root[h] = "group"
  /\ group[h] <= Len(plan[h])
  /\ root' = [root EXCEPT ![h] = "entering"]
  /\ UNCHANGED <<plan, group, outputs, joined, failure, verdict, stageVars, cancelled,
                 log, callerVars, evidence, circuits, asked>>

\* The look at the token finds the scope not cancelled.  It may be cancelled
\* from another thread before the group starts.
AdmitGroup(h) ==
  /\ root[h] = "group"
  /\ group[h] <= Len(plan[h])
  /\ ~cancelled[h]
  /\ root' = [root EXCEPT ![h] = "entering"]
  /\ UNCHANGED <<plan, group, outputs, joined, failure, verdict, stageVars, cancelled,
                 log, callerVars, evidence, circuits, asked>>

\* outputs.pop() finds nothing: the group before was an empty fan-out.
MissingInput(h) ==
  /\ root[h] = "entering"
  /\ outputs[h] = <<>>
  /\ Conclude(h, "Fatal")

EnterGroup(h, kind) ==
  /\ root[h] = "entering"
  /\ outputs[h] # <<>>
  /\ Current(h).kind = kind

\* The group's stage executions start afresh, each i at control point at[i].
EnterStages(h, at) ==
  /\ pc' = [pc EXCEPT ![h] = at]
  /\ attempt' = [attempt EXCEPT ![h] = [i \in Branch |-> 0]]
  /\ result' = [result EXCEPT ![h] = [i \in Branch |-> "None"]]
  /\ childLog' = [childLog EXCEPT ![h] = [i \in Branch |-> <<>>]]

\* A serial group without stages passes its input on.
EmptySerial(h) ==
  /\ EnterGroup(h, "Serial")
  /\ Width(h) = 0
  /\ outputs' = [outputs EXCEPT ![h] = <<@[Len(@)]>>]
  /\ root' = [root EXCEPT ![h] = "group"]
  /\ group' = [group EXCEPT ![h] = @ + 1]
  /\ UNCHANGED <<plan, joined, failure, verdict, stageVars, cancelled, log,
                 callerVars, evidence, circuits, asked>>

StartSerial(h) ==
  /\ EnterGroup(h, "Serial")
  /\ Width(h) > 0
  /\ root' = [root EXCEPT ![h] = "serial"]
  /\ EnterStages(h, [i \in Branch |-> IF i = 1 THEN "enter" ELSE "idle"])
  /\ UNCHANGED <<plan, group, outputs, joined, failure, verdict, permits, cancelled,
                 log, callerVars, evidence, circuits, asked>>

StartFanOut(h) ==
  /\ EnterGroup(h, "FanOut")
  /\ root' = [root EXCEPT ![h] = "fanout"]
  /\ EnterStages(h, [i \in Branch |-> IF i <= Width(h) THEN "queued" ELSE "idle"])
  /\ permits' = [permits EXCEPT ![h] = MaxFanOut]
  /\ joined' = [joined EXCEPT ![h] = <<>>]
  /\ failure' = [failure EXCEPT ![h] = "None"]
  /\ log' = [log EXCEPT ![h] = Push(@, Event("FanOutStarted", "", Width(h), ""))]
  /\ UNCHANGED <<plan, group, outputs, verdict, cancelled, callerVars, evidence,
                 circuits, asked>>

\* A serial stage succeeded: its output is the next stage's input.
SerialContinue(h, i) ==
  /\ root[h] = "serial"
  /\ pc[h][i] = "finished"
  /\ result[h][i] = "Ok"
  /\ i < Width(h)
  /\ pc' = [pc EXCEPT ![h] = [@ EXCEPT ![i] = "joined", ![i + 1] = "enter"]]
  /\ UNCHANGED <<plan, rootVars, attempt, result, childLog, permits, cancelled, log,
                 callerVars, evidence, circuits, asked>>

SerialDone(h, i) ==
  /\ root[h] = "serial"
  /\ pc[h][i] = "finished"
  /\ result[h][i] = "Ok"
  /\ i = Width(h)
  /\ pc' = [pc EXCEPT ![h][i] = "joined"]
  /\ root' = [root EXCEPT ![h] = "group"]
  /\ group' = [group EXCEPT ![h] = @ + 1]
  /\ outputs' = [outputs EXCEPT ![h] = <<i>>]
  /\ UNCHANGED <<plan, joined, failure, verdict, attempt, result, childLog, permits,
                 cancelled, log, callerVars, evidence, circuits, asked>>

SerialFailed(h, i) ==
  /\ root[h] = "serial"
  /\ pc[h][i] = "finished"
  /\ result[h][i] # "Ok"
  /\ pc' = [pc EXCEPT ![h][i] = "joined"]
  /\ root' = [root EXCEPT ![h] = "finishing"]
  /\ verdict' = [verdict EXCEPT ![h] = result[h][i]]
  /\ UNCHANGED <<plan, group, outputs, joined, failure, attempt, result, childLog,
                 permits, cancelled, log, callerVars, evidence, circuits, asked>>

\* A join that drops the child's events.
JoinChildSilently(h, i) ==
  /\ root[h] = "fanout"
  /\ pc[h][i] = "finished"
  /\ pc' = [pc EXCEPT ![h][i] = "joined"]
  /\ childLog' = [childLog EXCEPT ![h][i] = <<>>]
  /\ UNCHANGED <<plan, root, group, outputs, verdict, attempt, result, permits, log,
                 callerVars, evidence, circuits, asked>>

\* join_next: the child's events are appended to the root's log.
JoinChild(h, i) ==
  /\ root[h] = "fanout"
  /\ pc[h][i] = "finished"
  /\ pc' = [pc EXCEPT ![h][i] = "joined"]
  /\ log' = [log EXCEPT ![h] = Extend(@, childLog[h][i])]
  /\ childLog' = [childLog EXCEPT ![h][i] = <<>>]
  /\ UNCHANGED <<plan, root, group, outputs, verdict, attempt, result, permits,
                 callerVars, evidence, circuits, asked>>

\* A success after a failure is dropped.
JoinOk(h, i) ==
  /\ JoinChild(h, i)
  /\ result[h][i] = "Ok"
  /\ joined' = [joined EXCEPT ![h] = IF failure[h] = "None" THEN Append(@, i) ELSE @]
  /\ UNCHANGED <<failure, cancelled>>

\* A join that cancels the siblings and forgets why.
JoinErrorForgotten(h, i) ==
  /\ JoinChild(h, i)
  /\ result[h][i] # "Ok"
  /\ cancelled' = [cancelled EXCEPT ![h] = TRUE]
  /\ UNCHANGED <<failure, joined>>

\* A join that keeps the failure it saw last.
JoinErrorLatest(h, i) ==
  /\ JoinChild(h, i)
  /\ result[h][i] # "Ok"
  /\ cancelled' = [cancelled EXCEPT ![h] = TRUE]
  /\ failure' = [failure EXCEPT ![h] = result[h][i]]
  /\ UNCHANGED joined

\* A failure cancels the whole scope; the first one joined is kept.
JoinError(h, i) ==
  /\ JoinChild(h, i)
  /\ result[h][i] # "Ok"
  /\ cancelled' = [cancelled EXCEPT ![h] = TRUE]
  /\ failure' = [failure EXCEPT ![h] = IF @ = "None" THEN result[h][i] ELSE @]
  /\ UNCHANGED joined

AllJoined(h) == \A i \in 1 .. Width(h) : pc[h][i] = "joined"

\* A fan-out that returns at the first failure.
FanOutFailedEarly(h) ==
  /\ root[h] = "fanout"
  /\ failure[h] # "None"
  /\ Conclude(h, failure[h])

FanOutFailed(h) ==
  /\ root[h] = "fanout"
  /\ AllJoined(h)
  /\ failure[h] # "None"
  /\ Conclude(h, failure[h])

\* sort_by_key: the results by branch index.
IsSortOf(t, s) ==
  /\ {t[k] : k \in DOMAIN t} = {s[k] : k \in DOMAIN s}
  /\ \A j, k \in DOMAIN t : j < k => t[j] < t[k]

\* A merge that ignores the join policy.
MergedUnsorted(h) == {joined[h]}

\* The results as the join policy orders them.
MergedResults(h) ==
  IF Current(h).join = "CompletionOrder"
  THEN {joined[h]}
  ELSE {t \in [DOMAIN joined[h] -> Branch] : IsSortOf(t, joined[h])}

FanOutJoined(h) ==
  /\ root[h] = "fanout"
  /\ AllJoined(h)
  /\ failure[h] = "None"
  /\ \E t \in MergedResults(h) : outputs' = [outputs EXCEPT ![h] = t]
  /\ root' = [root EXCEPT ![h] = "group"]
  /\ group' = [group EXCEPT ![h] = @ + 1]
  /\ log' = [log EXCEPT ![h] = Push(@, Event("Joined", "", Len(joined[h]), ""))]
  /\ UNCHANGED <<plan, joined, failure, verdict, stageVars, cancelled, callerVars,
                 evidence, circuits, asked>>

\* run: record the end of the scope...
Finish(h) ==
  /\ root[h] = "finishing"
  /\ root' = [root EXCEPT ![h] = "snapshot"]
  /\ log' = [log EXCEPT ![h] = CASE verdict[h] = "Ok" -> Push(@, ScopeEvent("Completed"))
                                 [] verdict[h] = "Cancelled" -> Cancelled(@)
                                 [] OTHER -> @]
  /\ UNCHANGED <<plan, group, outputs, joined, failure, verdict, stageVars, cancelled,
                 callerVars, evidence, circuits, asked>>

\* ... and return the events seen so far.  Nobody reads them once wait() has
\* answered for a detached root.
Snapshot(h) ==
  /\ root[h] = "snapshot"
  /\ root' = [root EXCEPT ![h] = "done"]
  /\ evidence' = [evidence EXCEPT ![h] = IF answer[h] = "None" THEN log[h] ELSE @]
  /\ UNCHANGED <<plan, group, outputs, joined, failure, verdict, stageVars, cancelled,
                 log, callerVars, circuits, asked>>

-----------------------------------------------------------------------------
(* A stage execution: the child half of run_fan_out, run_stage and         *)
(* run_stage_attempts.                                                     *)

\* The log that run_stage is given: the root's, or the child's own.
Emit(h, i, e) ==
  IF root[h] = "serial"
  THEN /\ log' = [log EXCEPT ![h] = Push(@, e)]
       /\ UNCHANGED childLog
  ELSE /\ childLog' = [childLog EXCEPT ![h][i] = Push(@, e)]
       /\ UNCHANGED log

\* A return that keeps the permit.
LeaveWithPermit(h, i, r) ==
  /\ pc' = [pc EXCEPT ![h][i] = "finished"]
  /\ result' = [result EXCEPT ![h][i] = r]
  /\ UNCHANGED permits

\* run_stage returns r and a fan-out child drops its permit.
Leave(h, i, r) ==
  /\ pc' = [pc EXCEPT ![h][i] = "finished"]
  /\ result' = [result EXCEPT ![h][i] = r]
  /\ permits' = [permits EXCEPT ![h] = IF root[h] = "fanout" THEN @ + 1 ELSE @]

Record(h, i, c) ==
  circuits' = IF StageOf(h, i).circuit = 0
              THEN circuits
              ELSE [circuits EXCEPT ![StageOf(h, i).name] = c]

Succeed(h, i) ==
  /\ Leave(h, i, "Ok")
  /\ Record(h, i, RecordSuccess(circuits[StageOf(h, i).name]))
  /\ Emit(h, i, Event("StageSucceeded", StageOf(h, i).name, 0, ""))
  /\ UNCHANGED <<plan, rootVars, attempt, cancelled, callerVars, evidence>>

Fail(h, i, error) ==
  /\ Leave(h, i, error)
  /\ Record(h, i, RecordFailure(circuits[StageOf(h, i).name], StageOf(h, i).circuit))
  /\ Emit(h, i, Event("StageFailed", StageOf(h, i).name, 0, error))
  /\ UNCHANGED <<plan, rootVars, attempt, cancelled, callerVars, evidence>>

Goto(h, i, point) == pc' = [pc EXCEPT ![h][i] = point]

AcquirePermit(h, i) ==
  /\ pc[h][i] = "queued"
  /\ permits[h] > 0
  /\ permits' = [permits EXCEPT ![h] = @ - 1]
  /\ Goto(h, i, "enter")
  /\ UNCHANGED <<plan, rootVars, attempt, result, childLog, cancelled, log, callerVars,
                 evidence, circuits, asked>>

\* check_circuit admits the stage and resets an expired entry.
EnterStage(h, i) ==
  LET stage == StageOf(h, i) IN
  /\ pc[h][i] = "enter"
  /\ stage.circuit = 0 \/ ~Denies(circuits[stage.name])
  /\ Record(h, i, Admit(circuits[stage.name]))
  /\ Goto(h, i, "check")
  /\ UNCHANGED <<plan, rootVars, attempt, result, childLog, permits, cancelled, log,
                 callerVars, evidence, asked>>

\* check_circuit denies it: neither recorded in the circuit nor logged.
DenyStage(h, i) ==
  LET stage == StageOf(h, i) IN
  /\ pc[h][i] = "enter"
  /\ stage.circuit # 0 /\ Denies(circuits[stage.name])
  /\ Leave(h, i, "CircuitOpen")
  /\ UNCHANGED <<plan, rootVars, attempt, childLog, cancelled, log, callerVars,
                 evidence, circuits, asked>>

\* The check before every attempt.  The loop over the attempts never runs out
\* here: Return comes back only while attempts are left.
ContinueAttempts(h, i) ==
  /\ pc[h][i] = "check"
  /\ ~cancelled[h]
  /\ Goto(h, i, "call")
  /\ UNCHANGED <<plan, rootVars, attempt, result, childLog, permits, cancelled, log,
                 callerVars, evidence, circuits, asked>>

StopAttempts(h, i) ==
  /\ pc[h][i] = "check"
  /\ cancelled[h]
  /\ Fail(h, i, "Cancelled")
  /\ UNCHANGED asked

Call(h, i) ==
  /\ pc[h][i] = "call"
  /\ attempt' = [attempt EXCEPT ![h][i] = @ + 1]
  /\ Emit(h, i, Event("StageAttempt", StageOf(h, i).name, attempt[h][i] + 1, ""))
  /\ Goto(h, i, "running")
  /\ UNCHANGED <<plan, rootVars, result, permits, cancelled, callerVars, evidence,
                 circuits, asked>>

\* One attempt too many.
RetriesLeftInclusive(h, i) == attempt[h][i] <= StageOf(h, i).max_attempts

RetriesLeft(h, i) == attempt[h][i] < StageOf(h, i).max_attempts

\* What an operation may return.  The other kinds of StageError an operation
\* could return by itself take the path of "Fatal".
OperationResults == {"Ok", "Retryable", "Fatal", "Cancelled"}

\* The operation returns r.  It may do so at any moment: nothing else the
\* runtime does makes it return.
Return(h, i, r) ==
  /\ pc[h][i] = "running"
  /\ \/ /\ r = "Ok"
        /\ Succeed(h, i)
        /\ UNCHANGED asked
     \/ /\ r = "Retryable"
        /\ RetriesLeft(h, i)
        /\ Goto(h, i, "backoff")
        /\ UNCHANGED <<plan, rootVars, attempt, result, childLog, permits, cancelled,
                       log, callerVars, evidence, circuits, asked>>
     \/ /\ r # "Ok"
        /\ r = "Retryable" => ~RetriesLeft(h, i)
        /\ Fail(h, i, r)
        /\ asked' = [asked EXCEPT ![h] = @ \/ (r = "Cancelled" /\ ~cancelled[h])]

\* The biased select of the backoff looks at the token first.
BackoffElapsed(h, i) ==
  /\ pc[h][i] = "backoff"
  /\ ~cancelled[h]
  /\ Goto(h, i, "check")
  /\ UNCHANGED <<plan, rootVars, attempt, result, childLog, permits, cancelled, log,
                 callerVars, evidence, circuits, asked>>

BackoffCancelled(h, i) ==
  /\ pc[h][i] = "backoff"
  /\ cancelled[h]
  /\ Fail(h, i, "Cancelled")
  /\ UNCHANGED asked

\* The deadline drops the attempts where they wait.  run_stage returns at
\* once: the failure is neither recorded in the circuit nor logged.
DeadlineElapsed(h, i) ==
  /\ pc[h][i] \in {"running", "backoff"}
  /\ StageOf(h, i).deadline
  /\ Leave(h, i, "Deadline")
  /\ UNCHANGED <<plan, rootVars, attempt, childLog, cancelled, log, callerVars,
                 evidence, circuits, asked>>

\* A panic unwinds a fan-out child: its permit is dropped, its events are lost.
ChildPanics(h, i) ==
  /\ root[h] = "fanout"
  /\ pc[h][i] = "running"
  /\ Leave(h, i, "Join")
  /\ childLog' = [childLog EXCEPT ![h][i] = <<>>]
  /\ UNCHANGED <<plan, rootVars, attempt, cancelled, log, callerVars, evidence,
                 circuits, asked>>

\* A panic in a serial stage unwinds the root task.
RootPanics(h, i) ==
  /\ root[h] = "serial"
  /\ pc[h][i] = "running"
  /\ pc' = [pc EXCEPT ![h][i] = "joined"]
  /\ result' = [result EXCEPT ![h][i] = "Join"]
  /\ root' = [root EXCEPT ![h] = "panicked"]
  /\ verdict' = [verdict EXCEPT ![h] = "Join"]
  /\ UNCHANGED <<plan, group, outputs, joined, failure, attempt, childLog, permits,
                 cancelled, log, callerVars, evidence, circuits, asked>>

-----------------------------------------------------------------------------
(* The caller: cancel and wait of PipelineHandle, and the supervisor.      *)

\* wait() consumes the handle, so only a caller that still holds it cancels.
Cancel(h) ==
  /\ root[h] # "unborn"
  /\ waiter[h] = "holding"
  /\ ~cancelled[h]
  /\ cancelled' = [cancelled EXCEPT ![h] = TRUE]
  /\ asked' = [asked EXCEPT ![h] = TRUE]
  /\ UNCHANGED <<plan, rootVars, stageVars, log, callerVars, evidence, circuits>>

Wait(h) ==
  /\ root[h] # "unborn"
  /\ waiter[h] = "holding"
  /\ waiter' = [waiter EXCEPT ![h] = "waiting"]
  /\ UNCHANGED <<plan, rootVars, stageVars, cancelled, log, answer, supervised,
                 evidence, circuits, asked>>

Ended(h) == root[h] \in {"done", "panicked"}

\* The task arm of the select, or the task within the grace period.
WaitJoined(h) ==
  /\ waiter[h] \in {"waiting", "grace"}
  /\ Ended(h)
  /\ waiter' = [waiter EXCEPT ![h] = "returned"]
  /\ answer' = [answer EXCEPT ![h] = verdict[h]]
  /\ evidence' = [evidence EXCEPT ![h] = IF root[h] = "panicked" THEN log[h] ELSE @]
  /\ UNCHANGED <<plan, rootVars, stageVars, cancelled, log, supervised, circuits,
                 asked>>

\* A wait that looks at the token only once the task has ended.
WaitCancelledLate(h) ==
  /\ waiter[h] = "waiting"
  /\ cancelled[h]
  /\ Ended(h)
  /\ waiter' = [waiter EXCEPT ![h] = "grace"]
  /\ log' = [log EXCEPT ![h] = Cancelled(@)]
  /\ UNCHANGED <<plan, rootVars, stageVars, cancelled, answer, supervised, evidence,
                 circuits, asked>>

\* The cancellation arm of the select.
WaitCancelled(h) ==
  /\ waiter[h] = "waiting"
  /\ cancelled[h]
  /\ waiter' = [waiter EXCEPT ![h] = "grace"]
  /\ log' = [log EXCEPT ![h] = Cancelled(@)]
  /\ UNCHANGED <<plan, rootVars, stageVars, cancelled, answer, supervised, evidence,
                 circuits, asked>>

\* The grace period ends first: wait() turns to the branch that detaches.
GraceElapsed(h) ==
  /\ waiter[h] = "grace"
  /\ ~Ended(h)
  /\ waiter' = [waiter EXCEPT ![h] = "leaving"]
  /\ UNCHANGED <<plan, rootVars, stageVars, cancelled, log, answer, supervised, evidence,
                 circuits, asked>>

\* The root task is left to the supervisor, even if it has ended meanwhile.
Detach(h) ==
  LET final == Extend(log[h], <<ScopeEvent("CancellationGraceElapsed"),
                                ScopeEvent("TaskDetached")>>) IN
  /\ waiter[h] = "leaving"
  /\ waiter' = [waiter EXCEPT ![h] = "detached"]
  /\ answer' = [answer EXCEPT ![h] = "Cancelled"]
  /\ supervised' = [supervised EXCEPT ![h] = TRUE]
  /\ log' = [log EXCEPT ![h] = final]
  /\ evidence' = [evidence EXCEPT ![h] = final]
  /\ UNCHANGED <<plan, rootVars, stageVars, cancelled, circuits, asked>>

\* A supervisor that counts down only for tasks that did not panic.
ReapUnlessPanicked(h) ==
  /\ supervised[h]
  /\ root[h] = "done"
  /\ supervised' = [supervised EXCEPT ![h] = FALSE]
  /\ UNCHANGED <<plan, rootVars, stageVars, cancelled, log, waiter, answer, evidence,
                 circuits, asked>>

\* DetachedTaskSupervisor: the count goes down however the task ended.
Reap(h) ==
  /\ supervised[h]
  /\ Ended(h)
  /\ supervised' = [supervised EXCEPT ![h] = FALSE]
  /\ UNCHANGED <<plan, rootVars, stageVars, cancelled, log, waiter, answer, evidence,
                 circuits, asked>>

\* reset_after has passed since the circuit of n opened.
ResetElapsed(n) ==
  /\ Denies(circuits[n])
  /\ circuits' = [circuits EXCEPT ![n] = Elapse(@)]
  /\ UNCHANGED <<plan, rootVars, stageVars, cancelled, log, callerVars, evidence, asked>>

-----------------------------------------------------------------------------
RootStep(h) ==
  \/ Start(h) \/ ObserveCancellation(h) \/ GroupsExhausted(h) \/ AdmitGroup(h)
  \/ MissingInput(h) \/ EmptySerial(h) \/ StartSerial(h) \/ StartFanOut(h)
  \/ \E i \in Branch : \/ SerialContinue(h, i) \/ SerialDone(h, i) \/ SerialFailed(h, i)
                       \/ JoinOk(h, i) \/ JoinError(h, i)
  \/ FanOutFailed(h) \/ FanOutJoined(h) \/ Finish(h) \/ Snapshot(h)

StageStep(h, i) ==
  \/ AcquirePermit(h, i) \/ EnterStage(h, i) \/ DenyStage(h, i)
  \/ ContinueAttempts(h, i) \/ StopAttempts(h, i) \/ Call(h, i)
  \/ BackoffElapsed(h, i) \/ BackoffCancelled(h, i)

Operation(h, i) ==
  \/ \E r \in OperationResults : Return(h, i, r)
  \/ ChildPanics(h, i)
  \/ RootPanics(h, i)

CallerStep(h) == WaitJoined(h) \/ WaitCancelled(h) \/ GraceElapsed(h) \/ Detach(h)

Next ==
  \/ \E h \in Handles :
       \/ \E p \in Plans : Execute(h, p)
       \/ RootStep(h)
       \/ \E i \in Branch : StageStep(h, i) \/ Operation(h, i) \/ DeadlineElapsed(h, i)
       \/ Cancel(h) \/ Wait(h) \/ CallerStep(h) \/ Reap(h)
  \/ \E n \in Names : ResetElapsed(n)

Spec == Init /\ [][Next]_vars

(***************************************************************************)
(* Fairness.  The tokio scheduler polls every task that can run and every  *)
(* timer that is due, so each step of the root, of a stage execution, of a *)
(* waiting caller and of the supervisor is weakly fair, and so is each     *)
(* deadline.  An operation is user code: it is assumed to return only when *)
(* its stage is not in Hanging.  Whether execute, cancel and wait are      *)
(* called is the caller's choice.                                          *)
(***************************************************************************)
CooperativeOperation(h, i) ==
  /\ pc[h][i] = "running"
  /\ StageOf(h, i).name \notin Hanging
  /\ Operation(h, i)

Fairness ==
  /\ \A h \in Handles : /\ WF_vars(RootStep(h))
                        /\ WF_vars(CallerStep(h))
                        /\ WF_vars(Reap(h))
  /\ \A h \in Handles, i \in Branch : /\ WF_vars(StageStep(h, i))
                                      /\ WF_vars(CooperativeOperation(h, i))
                                      /\ WF_vars(DeadlineElapsed(h, i))

FairSpec == Spec /\ Fairness

-----------------------------------------------------------------------------
(* Properties.                                                             *)

LiveStages(h) == {i \in Branch : pc[h][i] \notin {"idle", "joined"}}

\* Structured concurrency: outside a group no stage execution is alive, so
\* neither run_groups returns nor the next group starts over a running child.
\* run_fan_out leaves its loop only when the JoinSet is empty.
StructuredJoin ==
  \A h \in Handles : root[h] \notin {"serial", "fanout"} => LiveStages(h) = {}

PermitHolders(h) ==
  {i \in Branch : pc[h][i] \in {"enter", "check", "call", "running", "backoff"}}

PermitsBalance(h) ==
  root[h] = "fanout" => permits[h] + Cardinality(PermitHolders(h)) = MaxFanOut

\* In a fan-out every permit of the semaphore is free or held by one child
\* that is inside run_stage, whichever way children leave: success, failure,
\* denial by the circuit, deadline or panic.
PermitsConserved == \A h \in Handles : PermitsBalance(h)

\* The stages of the group before the current one.
PassedStages(h) == IF group[h] = 1 THEN <<>> ELSE plan[h][group[h] - 1].stages

AllPassed(h) ==
  root[h] \in {"group", "entering"} \/ verdict[h] = "Ok" =>
    \A i \in DOMAIN PassedStages(h) : result[h][i] = "Ok"

\* run_groups moves past a group, and run succeeds, only when every stage of
\* the group returned Ok: no failure that a join collected is forgotten.
NoFailureSwallowed == \A h \in Handles : AllPassed(h)

\* A scope that run reports as cancelled was asked to stop by its caller or
\* by an operation of its own accord.  The cancellation that run_fan_out
\* sends to the siblings of a failed child never replaces the child's error.
RootCauseKept ==
  \A h \in Handles : verdict[h] = "Cancelled" => asked[h]

(* The inductive invariant that these properties rest on, scope by scope.  *)

\* A live stage execution belongs to a stage of the group the root is in.
PlacedIn(h) ==
  /\ root[h] \in {"entering", "serial", "fanout"} => group[h] \in DOMAIN plan[h]
  /\ \A i \in LiveStages(h) : root[h] \in {"serial", "fanout"} /\ i <= Width(h)

Placed == \A h \in Handles : PlacedIn(h)

\* A serial group runs one stage at a time, after the successes before it.
SerialOrder(h) ==
  root[h] = "serial" =>
    \A i \in LiveStages(h) : \A j \in Branch :
      /\ j < i => pc[h][j] = "joined" /\ result[h][j] = "Ok"
      /\ j > i => pc[h][j] = "idle"

\* Until a fan-out has joined a failure, it has joined successes only.
FanOutTally(h) ==
  root[h] = "fanout" /\ failure[h] = "None" =>
    \A i \in Branch : pc[h][i] = "joined" => result[h][i] = "Ok"

\* A finished execution has a result, and the verdict comes last.
Settled(h) ==
  /\ \A i \in Branch : pc[h][i] = "finished" => result[h][i] # "None"
  /\ verdict[h] # "None" => root[h] \in {"finishing", "snapshot", "done", "panicked"}
  /\ root[h] \in {"unborn", "spawned", "group", "entering", "serial"} => failure[h] = "None"
  /\ root[h] \in {"unborn", "spawned"} => group[h] = 1

\* Whoever stops because of the token was asked to, or follows a failure that
\* the fan-out has already joined.
CauseKnown(h) ==
  /\ cancelled[h] => asked[h] \/ failure[h] # "None"
  /\ \A i \in Branch : result[h][i] = "Cancelled" => asked[h] \/ failure[h] # "None"
  /\ failure[h] = "Cancelled" => asked[h]
  /\ verdict[h] = "Cancelled" => asked[h]

ScopeInv(h) ==
  /\ PlacedIn(h)
  /\ PermitsBalance(h)
  /\ SerialOrder(h)
  /\ FanOutTally(h)
  /\ Settled(h)
  /\ CauseKnown(h)
  /\ AllPassed(h)

IInv == TypeOK /\ \A h \in Handles : ScopeInv(h)

\* After a fan-out the outputs are those of all its stages, each once, and in
\* the order of the stages under PreserveInputOrder.
OutputsMerged ==
  \A h \in Handles :
    root[h] \in {"group", "entering"} /\ group[h] > 1 =>
      LET before == plan[h][group[h] - 1]
          width  == Len(before.stages)
      IN  before.kind = "FanOut" =>
            /\ Len(outputs[h]) = width
            /\ {outputs[h][k] : k \in DOMAIN outputs[h]} = 1 .. width
            /\ before.join = "PreserveInputOrder" => \A k \in 1 .. width : outputs[h][k] = k

\* A scope's events show one cancellation at most, although the root task and
\* wait() both record it.
CancelledOnce ==
  \A h \in Handles :
    \A j, k \in DOMAIN log[h] : log[h][j] = CancelledEvent /\ log[h][k] = CancelledEvent => j = k

\* No stage execution is attempted more often than its retry policy says.
AttemptsBounded ==
  \A h \in Handles, i \in Branch :
    pc[h][i] \notin {"idle", "joined"} => attempt[h][i] <= StageOf(h, i).max_attempts

\* The stages of the plans that share the circuit of n.
SharingStages(n) ==
  {stage \in UNION {UNION {{p[g].stages[k] : k \in DOMAIN p[g].stages} : g \in DOMAIN p} :
                    p \in Plans} : stage.name = n /\ stage.circuit > 0}

\* Over all executions, a circuit that counts failures and is closed is below
\* the threshold of a stage that shares it, and one that is open has reached
\* such a threshold: the failure that reaches it opens it, and a reset clears
\* both halves of the entry.
CircuitConsistent ==
  \A n \in Names :
    IF circuits[n].opened = "closed"
    THEN circuits[n].failures > 0 =>
           \E stage \in SharingStages(n) : circuits[n].failures < stage.circuit
    ELSE \E stage \in SharingStages(n) : circuits[n].failures >= stage.circuit

\* A successful outcome carries the success of every stage of the plan, unless
\* the log was full: no event of a fan-out child is lost at the join.
EvidenceOfSuccess ==
  \A h \in Handles :
    answer[h] = "Ok" /\ Len(evidence[h]) < EventCapacity =>
      /\ Mentions(evidence[h], ScopeEvent("Completed"))
      /\ \A g \in DOMAIN plan[h] : \A k \in DOMAIN plan[h][g].stages :
           Mentions(evidence[h], Event("StageSucceeded", plan[h][g].stages[k].name, 0, ""))

\* Every wait() that ended in a terminal failure of the plan's only stage
\* counts: when all executions did, as often as the threshold asks for, the
\* circuit is open.  CircuitPolicy documents failure_threshold as the
\* "Consecutive terminal failures that open the circuit."
TerminalFailuresOpen ==
  \A n \in Names :
    (/\ \A h \in Handles : answer[h] \in {"Retryable", "Fatal", "Deadline"}
     /\ \A stage \in SharingStages(n) : stage.circuit <= Cardinality(Handles)
     /\ SharingStages(n) # {})
    => circuits[n].opened # "closed"

\* What wait() answers keeps the root cause too.  StageError documents
\* Cancelled as "Explicit cancellation."
AnswerKeepsRootCause ==
  \A h \in Handles : answer[h] = "Cancelled" => asked[h]

\* The scope as its owner sees it.
ScopeState(h) == CASE root[h] = "unborn" -> "new"
                   [] Ended(h) -> "closed"
                   [] OTHER -> "open"

ScopeTold(h) == CASE waiter[h] = "returned" -> "result"
                  [] waiter[h] \in {"leaving", "detached"} -> "gaveup"
                  [] OTHER -> "nothing"

EnteringScopes == {h \in Handles : root[h] = "entering"}

LeftScopes == {h \in Handles : supervised[h] \/ waiter[h] = "leaving"}

Scope == INSTANCE StructuredScope WITH
  Scopes   <- Handles,
  Children <- Branch,
  state    <- [h \in Handles |-> ScopeState(h)],
  live     <- [h \in Handles |-> LiveStages(h)],
  admitted <- EnteringScopes,
  stopping <- cancelled,
  told     <- [h \in Handles |-> ScopeTold(h)],
  orphans  <- LeftScopes

\* The executor implements a structured scope.  Each group starts on a look at
\* the token of its own that found the scope not cancelled, so that at most one
\* group starts after a cancellation.  The root ends over joined children only,
\* and wait() decides to answer for a root that has not ended only when the
\* scope was cancelled.
ImplementsScope == Scope!Spec

\* wait() returns when the scope is cancelled, whatever its operations do, and
\* when every operation that may hang has a deadline.
Returning(h) ==
  \A g \in DOMAIN plan[h] : \A k \in DOMAIN plan[h][g].stages :
    plan[h][g].stages[k].name \in Hanging => plan[h][g].stages[k].deadline

WaitReturns ==
  \A h \in Handles :
    waiter[h] = "waiting" /\ (cancelled[h] \/ Returning(h)) ~>
      waiter[h] \in {"returned", "detached"}

\* A root handed to the supervisor is reaped once its operations return: the
\* count of detached tasks goes back to zero.
DetachedReaped ==
  \A h \in Handles : supervised[h] /\ Returning(h) ~> ~supervised[h]
=============================================================================
