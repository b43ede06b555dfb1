--------------------------- MODULE PipelineTypes ----------------------------
(***************************************************************************)
(* Proofs about Pipeline, for every set of plans, handles and names: what  *)
(* each step leaves alone, and that each step keeps the type invariant.    *)
(***************************************************************************)
EXTENDS Pipeline, Integers, TLAPS

USE EventCapacityAssumption, SMTT(4), ZenonT(10), SMTT(20), ZenonT(40), SMTT(40)

-----------------------------------------------------------------------------
(* Sequences.                                                              *)

\* A sequence is a function on 1 .. Len.
LEMMA SeqLength ==
  ASSUME NEW S, NEW s \in Seq(S)
  PROVE  Len(s) \in Nat /\ DOMAIN s = 1 .. Len(s) /\ s \in [1 .. Len(s) -> S]
OBVIOUS

\* Its entries are elements.
LEMMA SeqEntry ==
  ASSUME NEW S, NEW s \in Seq(S), NEW k \in 1 .. Len(s)
  PROVE  s[k] \in S
OBVIOUS

\* The empty sequence, and what is not empty.
LEMMA NoEntries ==
  ASSUME NEW S
  PROVE  <<>> \in Seq(S) /\ Len(<<>>) = 0 /\ \A s \in Seq(S) : s # <<>> => Len(s) > 0
OBVIOUS

\* Sequences with the same entries are one.
LEMMA SameEntries ==
  ASSUME NEW S, NEW s \in Seq(S), NEW t \in Seq(S), Len(t) = Len(s),
         \A k \in 1 .. Len(s) : t[k] = s[k]
  PROVE  s = t
OBVIOUS

\* Append adds one entry behind the others.
LEMMA Appended ==
  ASSUME NEW S, NEW s \in Seq(S), NEW e \in S
  PROVE  /\ Append(s, e) \in Seq(S) /\ Append(s, e) # <<>>
         /\ Len(Append(s, e)) = Len(s) + 1 /\ Append(s, e)[Len(s) + 1] = e
         /\ \A k \in 1 .. Len(s) : Append(s, e)[k] = s[k]
OBVIOUS

\* Tail takes the first entry away.
LEMMA HeadAndTail ==
  ASSUME NEW S, NEW s \in Seq(S), s # <<>>
  PROVE  /\ Head(s) \in S /\ Tail(s) \in Seq(S) /\ Len(Tail(s)) = Len(s) - 1
         /\ \A k \in 1 .. Len(Tail(s)) : Tail(s)[k] = s[k + 1]
OBVIOUS

\* Concatenation puts one sequence behind the other.
LEMMA Concatenated ==
  ASSUME NEW S, NEW s \in Seq(S), NEW t \in Seq(S)
  PROVE  /\ s \o t \in Seq(S) /\ Len(s \o t) = Len(s) + Len(t)
         /\ \A k \in 1 .. Len(s) + Len(t) :
              (s \o t)[k] = IF k <= Len(s) THEN s[k] ELSE t[k - Len(s)]
OBVIOUS

\* The empty sequence adds nothing.
LEMMA NothingMore ==
  ASSUME NEW S, NEW s \in Seq(S)
  PROVE  s \o <<>> = s /\ <<>> \o s = s
OBVIOUS

\* SubSeq is the entries from m to n.
LEMMA PartOfSeq ==
  ASSUME NEW S, NEW s, NEW m \in Int, NEW n \in Int, \A k \in m .. n : s[k] \in S
  PROVE  /\ SubSeq(s, m, n) \in Seq(S)
         /\ Len(SubSeq(s, m, n)) = IF m <= n THEN n - m + 1 ELSE 0
         /\ \A k \in 1 .. n - m + 1 : SubSeq(s, m, n)[k] = s[m + k - 1]
OBVIOUS

-----------------------------------------------------------------------------
(* The log.                                                                *)

\* push keeps the log a sequence of events within its capacity.
LEMMA PushType ==
  ASSUME NEW S, NEW s \in Seq(S), Bounded(s), NEW e \in S
  PROVE  /\ Push(s, e) \in Seq(S)
         /\ Bounded(Push(s, e))
<1> USE DEF Bounded
<1>1. CASE Len(s) = EventCapacity
  <2>1. s # <<>>
    BY <1>1
  <2>2. /\ Tail(s) \in Seq(S)
        /\ Len(Tail(s)) = Len(s) - 1
    BY <2>1, HeadAndTail
  <2>3. Push(s, e) = Append(Tail(s), e)
    BY <1>1 DEF Push
  <2>4. Len(Append(Tail(s), e)) = Len(Tail(s)) + 1
    BY <2>2, Appended
  <2> QED
    BY <1>1, <2>2, <2>3, <2>4, Appended
<1>2. CASE Len(s) # EventCapacity
  <2>1. Push(s, e) = Append(s, e)
    BY <1>2 DEF Push
  <2>2. Len(Append(s, e)) = Len(s) + 1
    BY Appended
  <2>3. Len(s) \in Nat
    BY SeqLength
  <2> QED
    BY <1>2, <2>1, <2>2, <2>3, Appended
<1> QED
  BY <1>1, <1>2

\* The n newest events of a longer log.
LEMMA SuffixType ==
  ASSUME NEW S, NEW a \in Seq(S), NEW n \in Nat, n < Len(a)
  PROVE  /\ SubSeq(a, Len(a) - n + 1, Len(a)) \in Seq(S)
         /\ Len(SubSeq(a, Len(a) - n + 1, Len(a))) = n
<1>1. PICK m \in Nat : m = Len(a)
  BY SeqLength
<1> DEFINE lo == m - n + 1
<1>2. lo \in Int /\ lo = m - n + 1
  OBVIOUS
<1> HIDE DEF lo
<1>3. \A k \in lo .. m : a[k] \in S
  BY <1>1, <1>2, SeqEntry
<1>4. /\ SubSeq(a, lo, m) \in Seq(S)
      /\ Len(SubSeq(a, lo, m)) = IF lo <= m THEN m - lo + 1 ELSE 0
  BY <1>2, <1>3, PartOfSeq
<1>5. (IF lo <= m THEN m - lo + 1 ELSE 0) = n
  BY <1>1, <1>2
<1> QED
  BY <1>1, <1>2, <1>4, <1>5

\* extend keeps it too.
LEMMA ExtendType ==
  ASSUME NEW S, NEW s \in Seq(S), Bounded(s), NEW t \in Seq(S)
  PROVE  /\ Extend(s, t) \in Seq(S)
         /\ Bounded(Extend(s, t))
<1> USE DEF Bounded
<1>1. PICK all \in Seq(S) : all = s \o t
  BY Concatenated
<1>2. Extend(s, t) = IF Len(all) <= EventCapacity
                     THEN all
                     ELSE SubSeq(all, Len(all) - EventCapacity + 1, Len(all))
  BY <1>1 DEF Extend
<1>3. Len(all) \in Nat
  BY SeqLength
<1>4. CASE Len(all) <= EventCapacity
  BY <1>2, <1>4
<1>5. CASE EventCapacity < Len(all)
  <2>1. Extend(s, t) = SubSeq(all, Len(all) - EventCapacity + 1, Len(all))
    BY <1>2, <1>3, <1>5
  <2> QED
    BY <1>5, <2>1, SuffixType
<1> QED
  BY <1>3, <1>4, <1>5

\* cancelled keeps it too.
LEMMA CancelledType ==
  ASSUME NEW S, NEW s \in Seq(S), Bounded(s), CancelledEvent \in S
  PROVE  /\ Cancelled(s) \in Seq(S)
         /\ Bounded(Cancelled(s))
  BY PushType DEF Cancelled

-----------------------------------------------------------------------------
(* Typing of what the actions build.                                       *)

\* A stage event names a stage and a kind of error.
LEMMA StageEventType ==
  ASSUME NEW kind \in StageEvents, NEW name \in Names, NEW number \in Nat,
         NEW error \in StageErrors \cup {""}
  PROVE  Event(kind, name, number, error) \in Events
  BY DEF Event, Events

\* A scope event names no stage.
LEMMA ScopeEventType ==
  ASSUME NEW kind \in ScopeEvents, NEW number \in Nat
  PROVE  /\ Event(kind, "", number, "") \in Events
         /\ ScopeEvent(kind) \in Events
  BY DEF Event, ScopeEvent, Events

\* The entry that a circuit operation leaves is a circuit entry.
LEMMA CircuitType ==
  ASSUME NEW c \in CircuitState, NEW t \in Nat
  PROVE  /\ Closed \in CircuitState
         /\ Admit(c) \in CircuitState
         /\ RecordSuccess(c) \in CircuitState
         /\ RecordFailure(c, t) \in CircuitState
         /\ Elapse(c) \in CircuitState
  BY DEF CircuitState, Closed, Admit, RecordSuccess, RecordFailure, Elapse

\* While the root is in a group of its plan, the group and its stages are of
\* the plan's types.
LEMMA GroupType ==
  ASSUME TypeOK, NEW h \in Handles, group[h] \in DOMAIN plan[h]
  PROVE  /\ plan[h] \in Plans
         /\ Current(h) \in Group
         /\ Width(h) \in Nat
         /\ Width(h) <= MaxStages
         /\ \A i \in 1 .. Width(h) : StageOf(h, i) \in Stage
<1>1. plan[h] \in Plans
  BY DEF TypeOK, RootOK
<1>2. /\ plan[h] \in Seq(Group)
      /\ Len(Current(h).stages) <= MaxStages
  BY <1>1, PlansAssumption DEF Current
<1>3. Current(h) \in Group
  BY <1>2, SeqEntry DEF Current
<1>4. Current(h).stages \in Seq(Stage)
  BY <1>3 DEF Group
<1> QED
  BY <1>1, <1>2, <1>3, <1>4, SeqEntry, SeqLength DEF Width, StageOf

\* The bounds are natural numbers, and there is a permit.
LEMMA Bounds ==
  /\ MaxFanOut \in Nat
  /\ MaxFanOut > 0
  /\ MaxStages \in Nat
  BY BoundsAssumption

\* How sets of stage executions are counted.  It is a fact about Cardinality
\* alone: the lemmas assume it, and PipelineProofs proves it.
Counting ==
  /\ Cardinality({}) = 0
  /\ \A S \in SUBSET Branch :
       /\ Cardinality(S) \in Nat
       /\ \A i \in S : Cardinality(S) # 0 /\ Cardinality(S \ {i}) = Cardinality(S) - 1
       /\ \A i \in Branch \ S : Cardinality(S \cup {i}) = Cardinality(S) + 1

\* A child inside run_stage holds a permit, so one more can be released.
LEMMA PermitHeld ==
  ASSUME Counting, TypeOK, PermitsConserved, NEW h \in Handles, NEW i \in PermitHolders(h),
         root[h] = "fanout"
  PROVE  permits[h] + 1 \in 0 .. MaxFanOut
<1>1. PermitHolders(h) \in SUBSET Branch
  BY DEF PermitHolders
<1>2. PICK n \in Nat : n = Cardinality(PermitHolders(h)) /\ n # 0
  BY <1>1 DEF Counting
<1>3. permits[h] + n = MaxFanOut /\ permits[h] \in Nat
  BY <1>2 DEF PermitsConserved, PermitsBalance, TypeOK, StageOK
<1> QED
  BY <1>2, <1>3, Bounds

\* A group that is looked at and not beyond the plan is a group of the plan.
LEMMA AdmittedGroup ==
  ASSUME TypeOK, NEW h \in Handles, AdmitGroup(h)
  PROVE  group[h] \in DOMAIN plan[h]
<1>1. plan[h] \in Seq(Group)
  <2>1. plan[h] \in Plans \/ plan[h] = <<>>
    BY DEF TypeOK, RootOK
  <2> QED
    BY <2>1, PlansAssumption, NoEntries
<1>2. /\ group[h] \in Nat \ {0}
      /\ group[h] <= Len(plan[h])
  BY DEF AdmitGroup, TypeOK, RootOK
<1> QED
  BY <1>1, <1>2

\* The merged results of a fan-out are a sequence of outputs.
LEMMA MergedType ==
  ASSUME TypeOK, NEW h \in Handles, NEW t \in MergedResults(h)
  PROVE  t \in Seq(Nat)
<1>1. joined[h] \in Seq(Branch)
  BY DEF TypeOK, RootOK
<1>2. Branch \subseteq Nat
  BY Bounds DEF Branch
<1>3. /\ DOMAIN joined[h] = 1 .. Len(joined[h])
      /\ Len(joined[h]) \in Nat
      /\ joined[h] \in [1 .. Len(joined[h]) -> Branch]
  BY <1>1, SeqLength
<1>4. t \in [1 .. Len(joined[h]) -> Branch]
  BY <1>3 DEF MergedResults
<1>5. t \in [1 .. Len(joined[h]) -> Nat]
  BY <1>2, <1>4
<1> QED
  BY <1>3, <1>5

-----------------------------------------------------------------------------
(* What each kind of step leaves alone.                                    *)

\* A step of one stage execution other than the panic of a serial stage.
StageWork(h, i) ==
  \/ StageStep(h, i) \/ DeadlineElapsed(h, i) \/ ChildPanics(h, i)
  \/ \E r \in OperationResults : Return(h, i, r)

\* A step of the caller or of the supervisor.
CallerWork(h) == Cancel(h) \/ Wait(h) \/ CallerStep(h) \/ Reap(h)

\* Every step is of one of six kinds.
LEMMA StepCases ==
  ASSUME Next
  PROVE  \/ \E h \in Handles, p \in Plans : Execute(h, p)
         \/ \E h \in Handles : RootStep(h)
         \/ \E h \in Handles, i \in Branch : StageWork(h, i)
         \/ \E h \in Handles, i \in Branch : RootPanics(h, i)
         \/ \E h \in Handles : CallerWork(h)
         \/ \E n \in Names : ResetElapsed(n)
  BY DEF Next, Operation, StageWork, CallerWork

Working == {"queued", "enter", "check", "call", "running", "backoff"}

Inside == {"enter", "check", "call", "running", "backoff"}

\* The stage execution moves on, inside run_stage or out of it with a result.
MovesOn(h, i) ==
  /\ \E point \in Inside : pc' = [pc EXCEPT ![h][i] = point]
  /\ result' = result
  /\ permits' = IF pc[h][i] = "queued" THEN [permits EXCEPT ![h] = @ - 1] ELSE permits

Returns(h, i) ==
  \E r \in StageErrors \cup {"Ok"} : Leave(h, i, r)

\* A step of a stage execution moves that execution and nothing of the root.
LEMMA StageMove ==
  ASSUME NEW h \in Handles, NEW i \in Branch, StageWork(h, i)
  PROVE  /\ pc[h][i] \in Working
         /\ MovesOn(h, i) \/ (pc[h][i] \in Inside /\ Returns(h, i))
         /\ asked' = asked \/ \E b \in BOOLEAN : asked' = [asked EXCEPT ![h] = @ \/ b]
         /\ UNCHANGED <<plan, rootVars, callerVars, evidence, cancelled>>
<1> USE DEF Working, Inside, MovesOn, Returns, Goto, StageErrors, Succeed, Fail
<1>1. CASE AcquirePermit(h, i)
  BY <1>1 DEF AcquirePermit
<1>2. CASE EnterStage(h, i)
  BY <1>2 DEF EnterStage
<1>3. CASE DenyStage(h, i)
  BY <1>3 DEF DenyStage
<1>4. CASE ContinueAttempts(h, i) \/ StopAttempts(h, i)
  BY <1>4 DEF ContinueAttempts, StopAttempts
<1>5. CASE Call(h, i)
  BY <1>5 DEF Call
<1>6. CASE BackoffElapsed(h, i) \/ BackoffCancelled(h, i)
  BY <1>6 DEF BackoffElapsed, BackoffCancelled
<1>7. CASE DeadlineElapsed(h, i) \/ ChildPanics(h, i)
  BY <1>7 DEF DeadlineElapsed, ChildPanics
<1>8. CASE \E r \in OperationResults : Return(h, i, r)
  BY <1>8 DEF Return, OperationResults
<1> QED
  BY <1>1, <1>2, <1>3, <1>4, <1>5, <1>6, <1>7, <1>8 DEF StageWork, StageStep

\* A step of the root leaves the caller and the circuits alone.
LEMMA RootFrame ==
  ASSUME NEW h \in Handles, RootStep(h)
  PROVE  UNCHANGED <<plan, callerVars, circuits, asked>>
  BY DEF RootStep, Start, Conclude, ObserveCancellation, AdmitGroup, MissingInput,
         GroupsExhausted, EmptySerial, StartSerial, StartFanOut, SerialContinue, SerialDone, SerialFailed,
         JoinChild, JoinOk, JoinError, FanOutFailed, FanOutJoined, Finish, Snapshot

\* A step of the caller leaves the root, its stages and the circuits alone.
LEMMA CallerFrame ==
  ASSUME NEW h \in Handles, CallerWork(h)
  PROVE  UNCHANGED <<plan, rootVars, stageVars, circuits>>
  BY DEF CallerWork, CallerStep, Cancel, Wait, WaitJoined, WaitCancelled, GraceElapsed,
         Detach, Reap

-----------------------------------------------------------------------------
(* The type invariant, variable group by variable group.                   *)

\* Every variable starts in its range.
LEMMA InitType == Init => TypeOK
<1> SUFFICES ASSUME Init PROVE TypeOK
  OBVIOUS
<1>1. /\ <<>> \in Seq(Events) /\ Bounded(<<>>)
      /\ <<0>> \in Seq(Nat) /\ <<>> \in Seq(Branch)
  BY NoEntries DEF Bounded
<1>2. RootOK
  BY <1>1 DEF Init, RootOK, RootPoints
<1>3. StageOK
  BY Bounds DEF Init, StageOK, StagePoints
<1>4. LogOK
  BY <1>1 DEF Init, LogOK
<1>5. CallerOK
  BY DEF Init, CallerOK, Closed, CircuitState, WaiterPoints
<1> QED
  BY <1>2, <1>3, <1>4, <1>5 DEF TypeOK

\* The root's variables keep their ranges.
LEMMA RootType == ASSUME TypeOK, Next PROVE RootOK'
<1> USE DEF rootVars, TypeOK
<1>1. ASSUME UNCHANGED <<plan, rootVars>> PROVE RootOK'
  BY <1>1 DEF RootOK
<1>2. ASSUME NEW h \in Handles, NEW p \in Plans, Execute(h, p) PROVE RootOK'
  BY <1>2 DEF RootOK, Execute, RootPoints
<1>3. ASSUME NEW h \in Handles, NEW i \in Branch, RootPanics(h, i) PROVE RootOK'
  BY <1>3 DEF RootOK, RootPanics, RootPoints, StageErrors
<1>4. ASSUME NEW h \in Handles, RootStep(h) PROVE RootOK'
  <2>1. CASE Start(h) \/ AdmitGroup(h) \/ Finish(h) \/ Snapshot(h)
    BY <2>1 DEF RootOK, Start, AdmitGroup, Finish, Snapshot, RootPoints
  <2>2. ASSUME NEW v \in StageErrors \cup {"Ok"}, Conclude(h, v) PROVE RootOK'
    BY <2>2 DEF RootOK, Conclude, RootPoints
  <2>3. CASE ObserveCancellation(h) \/ MissingInput(h) \/ GroupsExhausted(h)
    BY <2>2, <2>3 DEF ObserveCancellation, MissingInput, GroupsExhausted, StageErrors
  <2>4. CASE FanOutFailed(h)
    <3>1. failure[h] \in StageErrors
      BY <2>4 DEF RootOK, FanOutFailed
    <3> QED
      BY <2>2, <2>4, <3>1 DEF FanOutFailed
  <2>5. CASE EmptySerial(h)
    <3>1. outputs[h] \in Seq(Nat) /\ outputs[h] # <<>>
      BY <2>5 DEF RootOK, EmptySerial, EnterGroup
    <3>2. <<outputs[h][Len(outputs[h])]>> \in Seq(Nat)
      BY <3>1
    <3>3. outputs' \in [Handles -> Seq(Nat)]
      BY <2>5, <3>2 DEF RootOK, EmptySerial
    <3>4. group' \in [Handles -> Nat \ {0}]
      BY <2>5 DEF RootOK, EmptySerial
    <3> QED
      BY <2>5, <3>3, <3>4 DEF RootOK, EmptySerial, RootPoints
  <2>6. CASE StartSerial(h)
    BY <2>6 DEF RootOK, StartSerial, RootPoints
  <2>7. CASE StartFanOut(h)
    <3>1. <<>> \in Seq(Branch)
      BY NoEntries
    <3> QED
      BY <2>7, <3>1 DEF RootOK, StartFanOut, RootPoints
  <2>8. ASSUME NEW i \in Branch, SerialContinue(h, i) PROVE RootOK'
    BY <2>8, <1>1 DEF SerialContinue
  <2>9. ASSUME NEW i \in Branch, SerialDone(h, i) PROVE RootOK'
    <3>1. <<i>> \in Seq(Nat)
      BY Bounds DEF Branch
    <3>2. outputs' \in [Handles -> Seq(Nat)]
      BY <2>9, <3>1 DEF RootOK, SerialDone
    <3>3. group' \in [Handles -> Nat \ {0}]
      BY <2>9 DEF RootOK, SerialDone
    <3> QED
      BY <2>9, <3>2, <3>3 DEF RootOK, SerialDone, RootPoints
  <2>10. ASSUME NEW i \in Branch, SerialFailed(h, i) PROVE RootOK'
    BY <2>10 DEF RootOK, StageOK, SerialFailed, RootPoints
  <2>11. ASSUME NEW i \in Branch, JoinOk(h, i) PROVE RootOK'
    <3>1. Append(joined[h], i) \in Seq(Branch)
      BY Appended DEF RootOK
    <3>2. joined' \in [Handles -> Seq(Branch)]
      BY <2>11, <3>1 DEF RootOK, JoinOk
    <3> QED
      BY <2>11, <3>2 DEF RootOK, JoinOk, JoinChild
  <2>12. ASSUME NEW i \in Branch, JoinError(h, i) PROVE RootOK'
    <3>1. result[h][i] \in StageErrors \cup {"None"}
      BY <2>12 DEF StageOK, JoinError
    <3>2. failure' \in [Handles -> StageErrors \cup {"None"}]
      BY <2>12, <3>1 DEF RootOK, JoinError
    <3> QED
      BY <2>12, <3>2 DEF RootOK, JoinError, JoinChild
  <2>13. CASE FanOutJoined(h)
    <3>1. PICK t \in MergedResults(h) : outputs' = [outputs EXCEPT ![h] = t]
      BY <2>13 DEF FanOutJoined
    <3>2. t \in Seq(Nat)
      BY MergedType
    <3>3. outputs' \in [Handles -> Seq(Nat)]
      BY <3>1, <3>2 DEF RootOK
    <3>4. /\ group' = [group EXCEPT ![h] = @ + 1]
          /\ root' = [root EXCEPT ![h] = "group"]
          /\ UNCHANGED <<plan, joined, failure, verdict>>
      BY <2>13 DEF FanOutJoined
    <3>5. group' \in [Handles -> Nat \ {0}] /\ root' \in [Handles -> RootPoints]
      BY <3>4 DEF RootOK, RootPoints
    <3> QED
      BY <3>3, <3>4, <3>5 DEF RootOK
  <2> QED
    BY <1>4, <2>1, <2>3, <2>4, <2>5, <2>6, <2>7, <2>8, <2>9, <2>10, <2>11, <2>12, <2>13
       DEF RootStep
<1>5. ASSUME NEW n \in Names, ResetElapsed(n) PROVE RootOK'
  BY <1>1, <1>5 DEF ResetElapsed
<1> QED
  BY <1>1, <1>2, <1>3, <1>4, <1>5, StepCases, StageMove, CallerFrame

\* The stages' variables keep their ranges: no step releases a permit that is
\* not held.
LEMMA StageType == ASSUME Counting, TypeOK, PermitsConserved, Next PROVE StageOK'
<1> USE DEF stageVars, TypeOK
<1>1. ASSUME UNCHANGED stageVars PROVE StageOK'
  BY <1>1 DEF StageOK
<1>2. ASSUME NEW h \in Handles, NEW p \in Plans, Execute(h, p) PROVE StageOK'
  BY <1>1, <1>2 DEF Execute
<1>3. ASSUME NEW h \in Handles, NEW i \in Branch, RootPanics(h, i) PROVE StageOK'
  BY <1>3 DEF StageOK, RootPanics, StagePoints, StageErrors
<1>4. ASSUME NEW h \in Handles, RootStep(h) PROVE StageOK'
  <2>1. CASE UNCHANGED stageVars
    BY <1>1, <2>1
  <2>2. CASE StartSerial(h)
    BY <2>2 DEF StageOK, StartSerial, EnterStages, StagePoints
  <2>3. CASE StartFanOut(h)
    <3>1. MaxFanOut \in 0 .. MaxFanOut
      BY Bounds
    <3>2. [i \in Branch |-> IF i <= Width(h) THEN "queued" ELSE "idle"]
            \in [Branch -> StagePoints]
      BY DEF StagePoints
    <3> QED
      BY <2>3, <3>1, <3>2 DEF StageOK, StartFanOut, EnterStages
  <2>4. ASSUME NEW i \in Branch, SerialContinue(h, i) PROVE StageOK'
    <3>1. [pc[h] EXCEPT ![i] = "joined", ![i + 1] = "enter"] \in [Branch -> StagePoints]
      BY DEF StageOK, StagePoints
    <3> QED
      BY <2>4, <3>1 DEF StageOK, SerialContinue
  <2>5. ASSUME NEW i \in Branch, SerialDone(h, i) \/ SerialFailed(h, i) PROVE StageOK'
    <3>1. /\ pc' = [pc EXCEPT ![h][i] = "joined"]
          /\ UNCHANGED <<attempt, result, permits>>
      BY <2>5 DEF SerialDone, SerialFailed
    <3> QED
      BY <3>1 DEF StageOK, StagePoints
  <2>6. ASSUME NEW i \in Branch, JoinOk(h, i) \/ JoinError(h, i) PROVE StageOK'
    <3>1. /\ pc' = [pc EXCEPT ![h][i] = "joined"]
          /\ UNCHANGED <<attempt, result, permits>>
      BY <2>6 DEF JoinOk, JoinError, JoinChild
    <3> QED
      BY <3>1 DEF StageOK, StagePoints
  <2>7. CASE FanOutJoined(h)
    BY <1>1, <2>7 DEF FanOutJoined
  <2> QED
    BY <1>4, <2>1, <2>2, <2>3, <2>4, <2>5, <2>6, <2>7
       DEF RootStep, Start, Conclude, ObserveCancellation, AdmitGroup, MissingInput,
           GroupsExhausted, EmptySerial, FanOutFailed, Finish, Snapshot
<1>5. ASSUME NEW h \in Handles, NEW i \in Branch, StageWork(h, i) PROVE StageOK'
  <2>1. ASSUME NEW r \in StageErrors \cup {"Ok"}, Leave(h, i, r), pc[h][i] \in Inside
        PROVE  /\ pc' \in [Handles -> [Branch -> StagePoints]]
               /\ result' \in [Handles -> [Branch -> StageErrors \cup {"None", "Ok"}]]
               /\ permits' \in [Handles -> 0 .. MaxFanOut]
    <3>1. i \in PermitHolders(h)
      BY <2>1 DEF PermitHolders, Inside
    <3>2. root[h] = "fanout" => permits[h] + 1 \in 0 .. MaxFanOut
      BY <3>1, PermitHeld
    <3>3. permits' \in [Handles -> 0 .. MaxFanOut]
      BY <2>1, <3>2 DEF Leave, StageOK
    <3> QED
      BY <2>1, <3>3 DEF Leave, StageOK, StagePoints
  <2>2. ASSUME MovesOn(h, i)
        PROVE  /\ pc' \in [Handles -> [Branch -> StagePoints]]
               /\ result' \in [Handles -> [Branch -> StageErrors \cup {"None", "Ok"}]]
    BY <2>2 DEF MovesOn, Inside, StageOK, StagePoints
  <2>3. /\ pc' \in [Handles -> [Branch -> StagePoints]]
        /\ result' \in [Handles -> [Branch -> StageErrors \cup {"None", "Ok"}]]
    BY <1>5, <2>1, <2>2, StageMove DEF Returns
  <2>4. attempt' \in [Handles -> [Branch -> Nat]]
    <3>1. CASE Call(h, i)
      <4>1. [attempt[h] EXCEPT ![i] = @ + 1] \in [Branch -> Nat]
        BY DEF StageOK
      <4> QED
        BY <3>1, <4>1 DEF StageOK, Call
    <3>2. CASE attempt' = attempt
      BY <3>2 DEF StageOK
    <3> QED
      BY <1>5, <3>1, <3>2
         DEF StageWork, StageStep, AcquirePermit, EnterStage, DenyStage, ContinueAttempts,
             StopAttempts, BackoffElapsed, BackoffCancelled, DeadlineElapsed, ChildPanics,
             Return, Succeed, Fail
  <2>5. permits' \in [Handles -> 0 .. MaxFanOut]
    <3>1. CASE AcquirePermit(h, i)
      BY <3>1, Bounds DEF StageOK, AcquirePermit
    <3>2. CASE permits' = permits
      BY <3>2 DEF StageOK
    <3>3. CASE pc[h][i] \in Inside /\ Returns(h, i)
      BY <2>1, <3>3 DEF Returns
    <3> QED
      BY <1>5, <3>1, <3>2, <3>3, StageMove
         DEF StageWork, StageStep, EnterStage, DenyStage, ContinueAttempts, StopAttempts,
             Call, BackoffElapsed, BackoffCancelled, DeadlineElapsed, ChildPanics, Return,
             Succeed, Fail, MovesOn, Returns, OperationResults, StageErrors, Inside
  <2> QED
    BY <2>3, <2>4, <2>5 DEF StageOK
<1>6. ASSUME NEW n \in Names, ResetElapsed(n) PROVE StageOK'
  BY <1>1, <1>6 DEF ResetElapsed
<1> QED
  BY <1>1, <1>2, <1>3, <1>4, <1>5, <1>6, StepCases, CallerFrame

\* The stage of a live execution is a stage of the group the root is in.
LEMMA LiveStage ==
  ASSUME TypeOK, Placed, NEW h \in Handles, NEW i \in LiveStages(h)
  PROVE  /\ root[h] \in {"serial", "fanout"}
         /\ group[h] \in DOMAIN plan[h]
         /\ plan[h] \in Plans
         /\ i \in 1 .. Width(h)
         /\ StageOf(h, i) \in Stage
         /\ StageOf(h, i).name \in Names
         /\ StageOf(h, i).circuit \in Nat
         /\ StageOf(h, i).max_attempts \in Nat \ {0}
<1>1. /\ root[h] \in {"serial", "fanout"}
      /\ group[h] \in DOMAIN plan[h]
      /\ i <= Width(h)
  BY DEF Placed, PlacedIn
<1>2. i \in Branch
  BY DEF LiveStages
<1>3. i \in 1 .. Width(h)
  BY <1>1, <1>2, GroupType, Bounds DEF Branch
<1>4. StageOf(h, i) \in Stage
  BY <1>1, <1>3, GroupType
<1> QED
  BY <1>1, <1>3, <1>4, GroupType DEF Stage

\* A working execution is live.
LEMMA WorkingLive ==
  ASSUME NEW h \in Handles, NEW i \in Branch, pc[h][i] \in Working
  PROVE  i \in LiveStages(h)
  BY DEF Working, LiveStages

\* The log that a stage execution writes to stays a bounded log of events.
LEMMA EmitType ==
  ASSUME LogOK, NEW h \in Handles, NEW i \in Branch, NEW e \in Events, Emit(h, i, e),
         evidence' = evidence
  PROVE  LogOK'
<1>1. /\ Push(log[h], e) \in Seq(Events) /\ Bounded(Push(log[h], e))
      /\ Push(childLog[h][i], e) \in Seq(Events) /\ Bounded(Push(childLog[h][i], e))
  BY PushType DEF LogOK
<1>2. CASE root[h] = "serial"
  BY <1>1, <1>2 DEF LogOK, Emit
<1>3. CASE root[h] # "serial"
  <2>1. /\ childLog' = [childLog EXCEPT ![h][i] = Push(childLog[h][i], e)]
        /\ log' = log
    BY <1>3 DEF LogOK, Emit
  <2>2. childLog' \in [Handles -> [Branch -> Seq(Events)]]
    BY <1>1, <2>1 DEF LogOK
  <2>3. \A k \in Handles : \A j \in Branch : Bounded(childLog'[k][j])
    BY <1>1, <2>1 DEF LogOK
  <2> QED
    BY <2>1, <2>2, <2>3 DEF LogOK
<1> QED
  BY <1>2, <1>3

\* The logs keep their ranges and their bound.
LEMMA LogType == ASSUME TypeOK, Placed, Next PROVE LogOK'
<1> USE DEF stageVars, TypeOK
<1>0. /\ <<>> \in Seq(Events) /\ Bounded(<<>>)
      /\ \A kind \in ScopeEvents : ScopeEvent(kind) \in Events
      /\ CancelledEvent \in Events
  <2>1. <<>> \in Seq(Events) /\ Bounded(<<>>)
    BY NoEntries DEF Bounded
  <2>2. \A kind \in ScopeEvents : ScopeEvent(kind) \in Events
    BY ScopeEventType
  <2> QED
    BY <2>1, <2>2 DEF CancelledEvent, ScopeEvents
<1>1. ASSUME UNCHANGED <<log, childLog, evidence>> PROVE LogOK'
  BY <1>1 DEF LogOK
<1>2. ASSUME NEW h \in Handles, NEW t \in Seq(Events), Bounded(t),
             log' = [log EXCEPT ![h] = t],
             evidence' = evidence \/ evidence' = [evidence EXCEPT ![h] = t],
             childLog' = childLog \/ childLog' = [childLog EXCEPT ![h] = [i \in Branch |-> <<>>]]
                \/ \E i \in Branch : childLog' = [childLog EXCEPT ![h][i] = <<>>]
      PROVE  LogOK'
  <2>1. log' \in [Handles -> Seq(Events)] /\ \A k \in Handles : Bounded(log'[k])
    BY <1>2 DEF LogOK
  <2>2. evidence' \in [Handles -> Seq(Events)]
    BY <1>2 DEF LogOK
  <2>3. /\ childLog' \in [Handles -> [Branch -> Seq(Events)]]
        /\ \A k \in Handles : \A j \in Branch : Bounded(childLog'[k][j])
    <3>1. CASE childLog' = childLog
      BY <3>1 DEF LogOK
    <3>2. CASE childLog' = [childLog EXCEPT ![h] = [i \in Branch |-> <<>>]]
      BY <1>0, <3>2 DEF LogOK
    <3>3. ASSUME NEW i \in Branch, childLog' = [childLog EXCEPT ![h][i] = <<>>]
          PROVE  /\ childLog' \in [Handles -> [Branch -> Seq(Events)]]
                 /\ \A k \in Handles : \A j \in Branch : Bounded(childLog'[k][j])
      BY <1>0, <3>3 DEF LogOK
    <3> QED
      BY <1>2, <3>1, <3>2, <3>3
  <2> QED
    BY <2>1, <2>2, <2>3 DEF LogOK
<1>3. ASSUME NEW h \in Handles, NEW e \in Events, log' = [log EXCEPT ![h] = Push(@, e)],
             evidence' = evidence,
             childLog' = childLog \/ childLog' = [childLog EXCEPT ![h] = [i \in Branch |-> <<>>]]
      PROVE  LogOK'
  <2>1. Push(log[h], e) \in Seq(Events) /\ Bounded(Push(log[h], e))
    BY PushType DEF LogOK
  <2> QED
    BY <1>2, <1>3, <2>1
<1>4. ASSUME NEW h \in Handles, RootStep(h) PROVE LogOK'
  <2>1. CASE Start(h)
    BY <1>0, <1>3, <2>1 DEF Start, ScopeEvents
  <2>2. CASE StartSerial(h)
    <3>1. /\ childLog' = [childLog EXCEPT ![h] = [i \in Branch |-> <<>>]]
          /\ UNCHANGED <<log, evidence>>
      BY <2>2 DEF StartSerial, EnterStages
    <3>2. log' = [log EXCEPT ![h] = log[h]] /\ log[h] \in Seq(Events) /\ Bounded(log[h])
      BY <3>1 DEF LogOK
    <3> QED
      BY <1>2, <3>1, <3>2
  <2>3. CASE StartFanOut(h)
    <3>1. group[h] \in DOMAIN plan[h]
      BY <2>3 DEF StartFanOut, EnterGroup, Placed, PlacedIn
    <3>2. Event("FanOutStarted", "", Width(h), "") \in Events
      BY <3>1, GroupType, ScopeEventType DEF ScopeEvents
    <3> QED
      BY <1>3, <2>3, <3>2 DEF StartFanOut, EnterStages
  <2>4. ASSUME NEW i \in Branch, JoinChild(h, i) PROVE LogOK'
    <3>1. /\ Extend(log[h], childLog[h][i]) \in Seq(Events)
          /\ Bounded(Extend(log[h], childLog[h][i]))
      BY ExtendType DEF LogOK
    <3> QED
      BY <1>2, <2>4, <3>1 DEF JoinChild
  <2>5. CASE FanOutJoined(h)
    <3>1. Event("Joined", "", Len(joined[h]), "") \in Events
      BY ScopeEventType, SeqLength DEF ScopeEvents, RootOK
    <3>2. /\ log' = [log EXCEPT ![h] = Push(@, Event("Joined", "", Len(joined[h]), ""))]
          /\ UNCHANGED <<evidence, childLog>>
      BY <2>5 DEF FanOutJoined
    <3> QED
      BY <1>3, <3>1, <3>2
  <2>6. CASE Finish(h)
    <3>1. /\ Cancelled(log[h]) \in Seq(Events) /\ Bounded(Cancelled(log[h]))
          /\ Push(log[h], ScopeEvent("Completed")) \in Seq(Events)
          /\ Bounded(Push(log[h], ScopeEvent("Completed")))
          /\ log[h] \in Seq(Events) /\ Bounded(log[h])
      BY <1>0, PushType, CancelledType DEF LogOK, ScopeEvents
    <3>2. PICK t : /\ log' = [log EXCEPT ![h] = t]
                   /\ t \in {log[h], Cancelled(log[h]), Push(log[h], ScopeEvent("Completed"))}
      BY <2>6 DEF Finish
    <3>3. UNCHANGED <<evidence, childLog>>
      BY <2>6 DEF Finish
    <3> QED
      BY <1>2, <3>1, <3>2, <3>3
  <2>7. CASE Snapshot(h)
    BY <2>7 DEF Snapshot, LogOK
  <2> QED
    BY <1>1, <1>4, <2>1, <2>2, <2>3, <2>4, <2>5, <2>6, <2>7
       DEF RootStep, Conclude, ObserveCancellation, AdmitGroup, MissingInput,
           GroupsExhausted, EmptySerial, SerialContinue, SerialDone, SerialFailed, JoinOk, JoinError,
           FanOutFailed
<1>5. ASSUME NEW h \in Handles, NEW i \in Branch, StageWork(h, i) PROVE LogOK'
  <2>1. StageOf(h, i).name \in Names
    BY <1>5, StageMove, WorkingLive, LiveStage
  <2>2. evidence' = evidence
    BY <1>5, StageMove
  <2>3. ASSUME NEW r \in StageErrors, Fail(h, i, r) PROVE LogOK'
    BY <2>1, <2>2, <2>3, EmitType, StageEventType DEF Fail, StageEvents
  <2>4. CASE Succeed(h, i)
    BY <2>1, <2>2, <2>4, EmitType, StageEventType DEF Succeed, StageEvents
  <2>5. CASE Call(h, i)
    <3>1. attempt[h][i] + 1 \in Nat
      BY DEF StageOK
    <3> QED
      BY <2>1, <2>2, <2>5, <3>1, EmitType, StageEventType DEF Call, StageEvents
  <2>6. CASE ChildPanics(h, i)
    <3>1. /\ childLog' = [childLog EXCEPT ![h][i] = <<>>]
          /\ log' = log
      BY <2>6 DEF ChildPanics
    <3>2. log' = [log EXCEPT ![h] = log[h]] /\ log[h] \in Seq(Events) /\ Bounded(log[h])
      BY <3>1 DEF LogOK
    <3> QED
      BY <1>2, <2>2, <3>1, <3>2
  <2>7. ASSUME NEW r \in OperationResults, Return(h, i, r) PROVE LogOK'
    <3>1. CASE r = "Ok"
      BY <2>4, <2>7, <3>1 DEF Return
    <3>2. CASE UNCHANGED <<log, childLog>>
      BY <1>1, <2>2, <3>2
    <3>3. CASE r # "Ok" /\ Fail(h, i, r)
      BY <2>3, <3>3 DEF OperationResults, StageErrors
    <3> QED
      BY <2>7, <3>1, <3>2, <3>3 DEF Return
  <2>8. CASE StopAttempts(h, i) \/ BackoffCancelled(h, i)
    BY <2>3, <2>8 DEF StopAttempts, BackoffCancelled, StageErrors
  <2> QED
    BY <1>1, <1>5, <2>5, <2>6, <2>7, <2>8
       DEF StageWork, StageStep, AcquirePermit, EnterStage, DenyStage, ContinueAttempts,
           BackoffElapsed, DeadlineElapsed
<1>6. ASSUME NEW h \in Handles, CallerWork(h) PROVE LogOK'
  <2>1. childLog' = childLog
    BY <1>6, CallerFrame
  <2>2. CASE WaitJoined(h)
    BY <2>1, <2>2 DEF WaitJoined, LogOK
  <2>3. CASE WaitCancelled(h)
    <3>1. Cancelled(log[h]) \in Seq(Events) /\ Bounded(Cancelled(log[h]))
      BY <1>0, CancelledType DEF LogOK
    <3> QED
      BY <1>2, <2>1, <2>3, <3>1 DEF WaitCancelled
  <2>4. CASE Detach(h)
    <3> DEFINE two == <<ScopeEvent("CancellationGraceElapsed"), ScopeEvent("TaskDetached")>>
    <3>1. two \in Seq(Events)
      BY <1>0 DEF ScopeEvents
    <3>2. Extend(log[h], two) \in Seq(Events) /\ Bounded(Extend(log[h], two))
      BY <3>1, ExtendType DEF LogOK
    <3> QED
      BY <1>2, <2>1, <2>4, <3>2 DEF Detach
  <2> QED
    BY <1>1, <1>6, <2>1, <2>2, <2>3, <2>4
       DEF CallerWork, CallerStep, Cancel, Wait, GraceElapsed, Reap
<1>7. CASE \/ \E h \in Handles, p \in Plans : Execute(h, p)
           \/ \E h \in Handles, i \in Branch : RootPanics(h, i)
           \/ \E n \in Names : ResetElapsed(n)
  BY <1>1, <1>7 DEF Execute, RootPanics, ResetElapsed
<1> QED
  BY <1>4, <1>5, <1>6, <1>7, StepCases

\* An entry of the circuit table is replaced by an entry.
LEMMA RecordType ==
  ASSUME NEW h \in Handles, NEW i, NEW c, StageOf(h, i).name \in Names,
         circuits \in [Names -> CircuitState], c \in CircuitState, Record(h, i, c)
  PROVE  circuits' \in [Names -> CircuitState]
  BY DEF Record

\* The caller's variables and the circuit table keep their ranges.
LEMMA CallerType == ASSUME TypeOK, Placed, Next PROVE CallerOK'
<1> USE DEF callerVars, TypeOK
<1>1. ASSUME UNCHANGED <<cancelled, asked, callerVars, circuits>> PROVE CallerOK'
  BY <1>1 DEF CallerOK
<1>2. ASSUME NEW h \in Handles, RootStep(h) PROVE CallerOK'
  <2>1. UNCHANGED <<asked, callerVars, circuits>>
    BY <1>2, RootFrame
  <2>2. cancelled' = cancelled \/ cancelled' = [cancelled EXCEPT ![h] = TRUE]
    BY <1>2 DEF RootStep, Start, Conclude, ObserveCancellation, AdmitGroup, MissingInput,
         GroupsExhausted, EmptySerial, StartSerial, StartFanOut, SerialContinue, SerialDone,
         SerialFailed, JoinChild, JoinOk, JoinError, FanOutFailed, FanOutJoined, Finish,
         Snapshot
  <2>3. cancelled' \in [Handles -> BOOLEAN]
    BY <2>2 DEF CallerOK
  <2> QED
    BY <2>1, <2>3 DEF CallerOK
<1>3. ASSUME NEW h \in Handles, NEW i \in Branch, StageWork(h, i) PROVE CallerOK'
  <2>1. /\ StageOf(h, i).name \in Names
        /\ StageOf(h, i).circuit \in Nat
    BY <1>3, StageMove, WorkingLive, LiveStage
  <2>2. UNCHANGED <<callerVars, cancelled>>
    BY <1>3, StageMove
  <2> DEFINE c == circuits[StageOf(h, i).name]
  <2>3. c \in CircuitState
    BY <2>1 DEF CallerOK
  <2>4. circuits' \in [Names -> CircuitState]
    <3>1. CASE circuits' = circuits
      BY <3>1 DEF CallerOK
    <3>2. CASE EnterStage(h, i)
      BY <2>1, <2>3, <3>2, CircuitType, RecordType DEF EnterStage, CallerOK
    <3>3. CASE Succeed(h, i)
      BY <2>1, <2>3, <3>3, CircuitType, RecordType DEF Succeed, CallerOK
    <3>4. ASSUME NEW r, Fail(h, i, r) PROVE circuits' \in [Names -> CircuitState]
      BY <2>1, <2>3, <3>4, CircuitType, RecordType DEF Fail, CallerOK
    <3> QED
      BY <1>3, <3>1, <3>2, <3>3, <3>4
         DEF StageWork, StageStep, AcquirePermit, DenyStage, ContinueAttempts, StopAttempts,
             Call, BackoffElapsed, BackoffCancelled, DeadlineElapsed, ChildPanics, Return
  <2>5. asked' \in [Handles -> BOOLEAN]
    <3>1. CASE asked' = asked
      BY <3>1 DEF CallerOK
    <3>2. ASSUME NEW b \in BOOLEAN, asked' = [asked EXCEPT ![h] = @ \/ b]
          PROVE  asked' \in [Handles -> BOOLEAN]
      BY <3>2 DEF CallerOK
    <3>3. ASSUME NEW r \in OperationResults, Return(h, i, r)
          PROVE  asked' \in [Handles -> BOOLEAN]
      BY <3>1, <3>2, <3>3 DEF Return
    <3> QED
      BY <1>3, <3>1, <3>3
         DEF StageWork, StageStep, AcquirePermit, EnterStage, DenyStage, ContinueAttempts,
             StopAttempts, Call, BackoffElapsed, BackoffCancelled, DeadlineElapsed,
             ChildPanics
  <2> QED
    BY <2>2, <2>4, <2>5 DEF CallerOK
<1>4. ASSUME NEW h \in Handles, CallerWork(h) PROVE CallerOK'
  <2>1. circuits' = circuits
    BY <1>4, CallerFrame
  <2>2. CASE Cancel(h)
    BY <2>1, <2>2 DEF CallerOK, Cancel
  <2>3. CASE Wait(h)
    BY <2>1, <2>3 DEF CallerOK, Wait, WaiterPoints
  <2>4. CASE WaitJoined(h)
    BY <2>1, <2>4 DEF CallerOK, RootOK, WaitJoined, WaiterPoints
  <2>5. CASE WaitCancelled(h) \/ GraceElapsed(h) \/ Reap(h)
    BY <2>1, <2>5 DEF CallerOK, WaitCancelled, GraceElapsed, Reap, WaiterPoints
  <2>6. CASE Detach(h)
    BY <2>1, <2>6 DEF CallerOK, Detach, StageErrors, WaiterPoints
  <2> QED
    BY <1>4, <2>2, <2>3, <2>4, <2>5, <2>6 DEF CallerWork, CallerStep
<1>5. ASSUME NEW n \in Names, ResetElapsed(n) PROVE CallerOK'
  <2>1. circuits' = [circuits EXCEPT ![n] = Elapse(circuits[n])]
    BY <1>5 DEF ResetElapsed
  <2>2. Elapse(circuits[n]) \in CircuitState
    BY CircuitType DEF CallerOK
  <2> QED
    BY <1>5, <2>1, <2>2 DEF CallerOK, ResetElapsed
<1>6. CASE \/ \E h \in Handles, p \in Plans : Execute(h, p)
           \/ \E h \in Handles, i \in Branch : RootPanics(h, i)
  BY <1>1, <1>6 DEF Execute, RootPanics
<1> QED
  BY <1>2, <1>3, <1>4, <1>5, <1>6, StepCases
=============================================================================
