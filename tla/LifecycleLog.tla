---------------------------- MODULE LifecycleLog ----------------------------
(***************************************************************************)
(* The bounded event buffer of a pipeline scope (LifecycleLog in           *)
(* crates/syllog-runtime/src/pipeline.rs).  The buffer keeps the newest    *)
(* EventCapacity events and evicts the oldest.  Every operator is the      *)
(* effect of one method on the vector behind the mutex.                    *)
(***************************************************************************)
EXTENDS Naturals, Sequences

CONSTANT
  EventCapacity      \* event_capacity of the executor, rejected when zero

ASSUME EventCapacityAssumption == EventCapacity \in Nat \ {0}

(***************************************************************************)
(* PipelineEvent.  Events are payload free: a kind, the stage they are     *)
(* about ("" for an event of the scope), a number (attempt, width or       *)
(* count) and, for StageFailed, the StageErrorKind.                        *)
(***************************************************************************)
Event(kind, stage, number, error) ==
  [kind |-> kind, stage |-> stage, number |-> number, error |-> error]

ScopeEvent(kind) == Event(kind, "", 0, "")

CancelledEvent == ScopeEvent("Cancelled")

\* A push that never evicts.
PushUnbounded(log, e) == Append(log, e)

\* push: evict the oldest event when the buffer is full, then append.
Push(log, e) ==
  Append(IF Len(log) = EventCapacity THEN Tail(log) ELSE log, e)

\* extend: push every incoming event in order.  Written in closed form, the
\* newest EventCapacity events of the concatenation; ExtendIsRepeatedPush of
\* MCPipeline compares it with the loop.
Extend(log, incoming) ==
  LET all == log \o incoming
  IN  IF Len(all) <= EventCapacity
      THEN all
      ELSE SubSeq(all, Len(all) - EventCapacity + 1, Len(all))

Mentions(log, e) == \E k \in DOMAIN log : log[k] = e

\* A cancelled() that forgets to look for an earlier Cancelled event.
CancelledTwice(log) == Push(log, CancelledEvent)

\* cancelled: record the cancellation unless the buffer already shows it.
Cancelled(log) ==
  IF Mentions(log, CancelledEvent) THEN log ELSE Push(log, CancelledEvent)
=============================================================================
