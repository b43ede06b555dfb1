--------------------------- MODULE PipelineProofs ---------------------------
(***************************************************************************)
(* The theorems about Pipeline: for any plans, any number of executions,   *)
(* any bounds and any capacity of the log, the executor keeps every safety *)
(* property that the runs check on small instances, and implements         *)
(* StructuredScope.                                                        *)
(*                                                                         *)
(* The inductive steps are lemmas of the modules this one extends.  What   *)
(* they assume of counting, Counting and Numbering, follows here from the  *)
(* library's theorems about finite sets and well-founded relations.        *)
(***************************************************************************)
EXTENDS PipelineEvidence, FiniteSetTheorems, WellFoundedInduction

USE SMTT(4), ZenonT(10), SMTT(20), ZenonT(40), SMTT(40)

-----------------------------------------------------------------------------
(* Counting.                                                               *)

\* The stages of a group are finitely many, and are counted one by one.
LEMMA CountsStages == Counting
<1>1. IsFiniteSet(Branch)
  BY BoundsAssumption, FS_Interval DEF Branch
<1>2. ASSUME NEW S \in SUBSET Branch
      PROVE  /\ Cardinality(S) \in Nat
             /\ \A i \in S : Cardinality(S) # 0 /\ Cardinality(S \ {i}) = Cardinality(S) - 1
             /\ \A i \in Branch \ S : Cardinality(S \cup {i}) = Cardinality(S) + 1
  <2>1. IsFiniteSet(S)
    BY <1>1, FS_Subset
  <2>2. Cardinality(S) \in Nat
    BY <2>1, FS_CardinalityType
  <2>3. \A i \in S : Cardinality(S) # 0
    BY <2>1, FS_EmptySet
  <2>4. \A i \in S : Cardinality(S \ {i}) = Cardinality(S) - 1
    BY <2>1, FS_RemoveElement
  <2>5. \A i \in Branch \ S : Cardinality(S \cup {i}) = Cardinality(S) + 1
    BY <2>1, FS_AddElement
  <2> QED
    BY <2>2, <2>3, <2>4, <2>5
<1>3. Cardinality({}) = 0
  BY FS_EmptySet
<1> QED
  BY <1>2, <1>3 DEF Counting

\* A numbering of n stages, each once, has n entries, and a set of numbers that
\* is not empty has a least one.
LEMMA NumbersEntries == Numbering
<1>1. ASSUME NEW m \in Nat, NEW n \in Nat, NEW s \in [1 .. m -> 1 .. n],
             Entries(s) = 1 .. n, NoRepeats(s)
      PROVE  m = n
  <2>1. s \in Injection(1 .. m, 1 .. n) /\ s \in Surjection(1 .. m, 1 .. n)
    BY <1>1 DEF Injection, IsInjective, Surjection, Entries, NoRepeats
  <2>2. /\ IsFiniteSet(1 .. m) /\ Cardinality(1 .. m) = m
        /\ IsFiniteSet(1 .. n) /\ Cardinality(1 .. n) = n
    BY FS_Interval
  <2>3. Cardinality(1 .. n) = Cardinality(1 .. m)
    BY <2>1, <2>2, FS_Surjection
  <2> QED
    BY <2>2, <2>3
<1>2. ASSUME NEW T \in SUBSET Nat, T # {} PROVE \E k \in T : \A j \in T : k <= j
  <2>1. \E k \in T : \A j \in T : <<j, k>> \notin OpToRel(<, Nat)
    BY <1>2, NatLessThanWellFounded, WFMin
  <2>2. \A j, k \in Nat : <<j, k>> \notin OpToRel(<, Nat) => k <= j
    BY DEF OpToRel
  <2> QED
    BY <2>1, <2>2
<1> QED
  BY <1>1, <1>2 DEF Numbering

-----------------------------------------------------------------------------
(* The executor.                                                           *)

\* IInv holds in every state of every behaviour of the executor.
THEOREM Invariance == Spec => []IInv
<1>1. IInv /\ [Next]_vars => IInv'
  BY StepInv, CountsStages
<1> QED
  BY <1>1, InitInv, PTL DEF Spec

\* Every variable keeps its type: in particular no event buffer, of the root
\* or of a child, ever holds more than its capacity (LifecycleLog::push).
THEOREM TypeCorrect == Spec => []TypeOK
<1>1. IInv => TypeOK
  BY DEF IInv
<1> QED
  BY <1>1, Invariance, PTL

\* Structured concurrency, for any number of scopes, stages and permits:
\* run_groups leaves a group only over joined children.
THEOREM ChildrenJoined == Spec => []StructuredJoin
<1>1. IInv => StructuredJoin
  BY IdleScope DEF IInv, StructuredJoin
<1> QED
  BY <1>1, Invariance, PTL

\* The semaphore of a fan-out never loses and never gains a permit.
THEOREM PermitsKept == Spec => []PermitsConserved
<1>1. IInv => PermitsConserved
  BY DEF IInv, ScopeInv, PermitsConserved
<1> QED
  BY <1>1, Invariance, PTL

\* A group is passed, and a pipeline succeeds, only over stages that all
\* returned Ok.
THEOREM FailuresReported == Spec => []NoFailureSwallowed
<1>1. IInv => NoFailureSwallowed
  BY DEF IInv, ScopeInv, NoFailureSwallowed
<1> QED
  BY <1>1, Invariance, PTL

\* run reports Cancelled only when the caller or an operation asked for it;
\* the cancellation of a failed child's siblings never masks the failure.
THEOREM CauseReported == Spec => []RootCauseKept
<1>1. IInv => RootCauseKept
  BY DEF IInv, ScopeInv, CauseKnown, RootCauseKept
<1> QED
  BY <1>1, Invariance, PTL

-----------------------------------------------------------------------------
(* What is on record.                                                      *)

\* The records of every scope are consistent in every reachable state.
THEOREM RecordsKept == Spec => []RInv
<1>1. Init => RInv
  BY InitInv, InitRecords DEF RInv
<1>2. RInv /\ [Next]_vars => RInv'
  BY RecordStep, CountsStages
<1> QED
  BY <1>1, <1>2, PTL DEF Spec

\* run_stage_attempts attempts no stage more often than its retry policy says,
\* whatever the operations return and however many permits or retries race.
THEOREM RetriesBounded == Spec => []AttemptsBounded
<1>1. RInv => AttemptsBounded
  BY DEF RInv, RecordInv, AttemptInv, AttemptsBounded, LiveStages
<1> QED
  BY <1>1, RecordsKept, PTL

\* The root task and wait() both record a cancellation, and the log shows one.
THEOREM CancellationLoggedOnce == Spec => []CancelledOnce
<1>1. RInv => CancelledOnce
  BY DEF RInv, RecordInv, CancelledInv, AtMostOnce, CancelledOnce
<1> QED
  BY <1>1, RecordsKept, PTL

\* A successful outcome shows every success, in order of no matter which
\* children finished first, unless the bounded log was full.
THEOREM EvidenceComplete == Spec => []EvidenceOfSuccess
<1>1. ASSUME RInv, NEW h \in Handles, answer[h] = "Ok", Len(evidence[h]) < EventCapacity
      PROVE  /\ Mentions(evidence[h], ScopeEvent("Completed"))
             /\ \A g \in DOMAIN plan[h] : \A k \in DOMAIN plan[h][g].stages :
                  Mentions(evidence[h], Event("StageSucceeded", plan[h][g].stages[k].name, 0, ""))
  <2>1. EndShown(h)
    BY <1>1 DEF RInv, RecordInv, EvidenceInv
  <2>2. /\ group[h] > Len(plan[h]) /\ PassedShown(h, evidence[h])
        /\ Mentions(evidence[h], ScopeEvent("Completed"))
    BY <1>1, <2>1 DEF EndShown, Room
  <2>3. \A g \in DOMAIN plan[h] : g < group[h]
    <3>1. plan[h] \in Seq(Group) /\ group[h] \in Nat
      <4>1. plan[h] \in Plans \cup {<<>>} /\ group[h] \in Nat
        BY <1>1 DEF RInv, IInv, TypeOK, RootOK
      <4>2. Plans \subseteq Seq(Group) /\ <<>> \in Seq(Group)
        BY PlansAssumption
      <4> QED
        BY <4>1, <4>2
    <3>2. DOMAIN plan[h] = 1 .. Len(plan[h]) /\ Len(plan[h]) \in Nat
      BY <3>1, SeqLength
    <3> QED
      BY <2>2, <3>1, <3>2
  <2> QED
    BY <2>2, <2>3 DEF PassedShown, Success
<1>2. RInv => EvidenceOfSuccess
  BY <1>1 DEF EvidenceOfSuccess
<1> QED
  BY <1>2, RecordsKept, PTL

-----------------------------------------------------------------------------
(* Outcomes.                                                               *)

\* After a fan-out the outputs are those of all its stages, each once, and in
\* plan order under PreserveInputOrder, in whichever order the children end.
THEOREM FanOutMerges == Spec => []OutputsMerged
<1>1. Init => MInv
  <2>1. ASSUME Init, NEW h \in Handles PROVE MergeInv(h)
    BY <2>1 DEF Init, MergeInv, InGroup, Collected, OutputsFit
  <2> QED
    BY <2>1, InitInv DEF MInv
<1>2. MInv /\ [Next]_vars => MInv'
  BY MergeStep, CountsStages, NumbersEntries
<1>3. MInv => OutputsMerged
  BY DEF MInv, MergeInv, OutputsFit, OutputsMerged, Entries
<1> QED
  BY <1>1, <1>2, <1>3, PTL DEF Spec

\* Over all executions that share it, a circuit that is open has reached the
\* threshold of a stage, one that is closed and counts is below that of a
\* stage, and a reset clears both halves of the entry.
THEOREM CircuitsConsistent == Spec => []CircuitConsistent
<1>1. Init => CInv
  BY InitInv DEF CInv, Init, CircuitConsistent, Closed
<1>2. CInv /\ [Next]_vars => CInv'
  BY CircuitStep, CountsStages
<1>3. CInv => CircuitConsistent
  BY DEF CInv
<1> QED
  BY <1>1, <1>2, <1>3, PTL DEF Spec

-----------------------------------------------------------------------------
(* The refinement of StructuredScope.                                      *)

\* What the owner sees of scope k is the same before and after the step.
SeenSame(k) ==
  /\ (ScopeState(k))' = ScopeState(k)
  /\ (LiveStages(k))' = LiveStages(k)
  /\ (ScopeTold(k))' = ScopeTold(k)
  /\ cancelled'[k] = cancelled[k]
  /\ k \in EnteringScopes' <=> k \in EnteringScopes
  /\ k \in LeftScopes' <=> k \in LeftScopes

\* A step that leaves a scope and its records alone is not seen on it.
LEMMA UnseenStep == ASSUME NEW k, Same(k), SameRecords(k) PROVE SeenSame(k)
BY DEF Same, SameRecords, SeenSame, ScopeState, Ended, LiveStages, ScopeTold,
       EnteringScopes, LeftScopes

\* The variables of StructuredScope are functions on the scopes, and sets of
\* scopes.
LEMMA SeenStutter ==
  ASSUME RInv, RInv', \A k \in Handles : SeenSame(k)
  PROVE  UNCHANGED Scope!vars
<1>1. cancelled \in [Handles -> BOOLEAN] /\ cancelled' \in [Handles -> BOOLEAN]
  BY DEF RInv, IInv, TypeOK, CallerOK
<1>2. cancelled' = cancelled
  BY <1>1 DEF SeenSame
<1>3. EnteringScopes' = EnteringScopes /\ LeftScopes' = LeftScopes
  BY DEF SeenSame, EnteringScopes, LeftScopes
<1> QED
  BY <1>2, <1>3 DEF Scope!vars, SeenSame

\* Stages that leave a group leave the live stages.
LEMMA LiveJoined ==
  ASSUME TypeOK, NEW h \in Handles, NEW i \in LiveStages(h),
         pc' = [pc EXCEPT ![h][i] = "joined"]
  PROVE  (LiveStages(h))' = LiveStages(h) \ {i}
<1>1. pc \in [Handles -> [Branch -> StagePoints]]
  BY DEF TypeOK, StageOK
<1>2. \A j \in Branch : pc'[h][j] = IF j = i THEN "joined" ELSE pc[h][j]
  BY <1>1 DEF LiveStages
<1> QED
  BY <1>2 DEF LiveStages

\* In a serial group one stage is alive.
LEMMA OneAlive ==
  ASSUME NEW h \in Handles, ScopeInv(h), root[h] = "serial", NEW i \in LiveStages(h)
  PROVE  LiveStages(h) = {i}
<1>1. \A j \in Branch : j < i \/ j = i \/ j > i
  BY Bounds DEF LiveStages, Branch
<1> QED
  BY <1>1 DEF ScopeInv, SerialOrder, LiveStages

\* The root and its stages take the steps of a structured scope.
LEMMA RootRefines ==
  ASSUME RInv, RInv', NEW h \in Handles, RootStep(h),
         \A k \in Handles : k # h => SeenSame(k)
  PROVE  Scope!Next \/ UNCHANGED Scope!vars
<1> USE DEF rootVars, stageVars, callerVars
<1>0. /\ TypeOK /\ ScopeInv(h)
      /\ root \in [Handles -> RootPoints]
      /\ pc \in [Handles -> [Branch -> StagePoints]]
      /\ cancelled \in [Handles -> BOOLEAN]
  BY DEF RInv, IInv, TypeOK, RootOK, StageOK, CallerOK
<1>1. (ScopeTold(h))' = ScopeTold(h) /\ LeftScopes' = LeftScopes
  <2>1. waiter' = waiter /\ supervised' = supervised
    BY RootFrame
  <2> QED
    BY <2>1 DEF ScopeTold, LeftScopes
<1>2. (\A k \in Handles : (ScopeTold(k))' = ScopeTold(k))
  BY <1>1 DEF SeenSame
<1>3. ASSUME root[h] # "entering", root'[h] # "entering"
      PROVE  EnteringScopes' = EnteringScopes
  BY <1>3 DEF SeenSame, EnteringScopes
<1>4. CASE \/ Start(h) \/ ObserveCancellation(h) \/ GroupsExhausted(h) \/ FanOutFailed(h)
           \/ FanOutJoined(h) \/ Finish(h)
  <2>1. /\ pc' = pc /\ cancelled' = cancelled
        /\ root[h] \notin {"unborn", "entering", "done", "panicked"}
        /\ root'[h] \notin {"unborn", "entering", "done", "panicked"}
    BY <1>0, <1>4 DEF Start, ObserveCancellation, GroupsExhausted, Conclude, FanOutFailed,
       FanOutJoined, Finish
  <2>2. SeenSame(h)
    BY <1>1, <1>3, <2>1 DEF SeenSame, ScopeState, Ended, LiveStages
  <2> QED
    BY <2>2, SeenStutter
<1>5. CASE MissingInput(h) \/ EmptySerial(h) \/ StartSerial(h) \/ StartFanOut(h)
  <2>1. /\ cancelled' = cancelled /\ root[h] = "entering"
        /\ root'[h] \in {"finishing", "group", "serial", "fanout"}
    BY <1>0, <1>5 DEF MissingInput, Conclude, EmptySerial, StartSerial, StartFanOut,
       EnterGroup
  <2>2. h \in EnteringScopes /\ EnteringScopes' = EnteringScopes \ {h}
    BY <2>1 DEF EnteringScopes, SeenSame
  <2>3. (ScopeState(h))' = ScopeState(h)
    BY <2>1 DEF ScopeState, Ended
  <2>4. (LiveStages(h))' \in SUBSET Branch
    BY DEF LiveStages
  <2>5. Scope!Spawn(h, (LiveStages(h))')
    BY <1>1, <1>2, <2>1, <2>2, <2>3 DEF Scope!Spawn, SeenSame
  <2> QED
    BY <2>4, <2>5 DEF Scope!Next
<1>6. CASE AdmitGroup(h)
  <2>1. /\ pc' = pc /\ cancelled' = cancelled /\ ~cancelled[h]
        /\ root[h] = "group" /\ root'[h] = "entering"
    BY <1>0, <1>6 DEF AdmitGroup
  <2>2. LiveStages(h) = {} /\ (LiveStages(h))' = LiveStages(h)
    <3>1. LiveStages(h) = {}
      BY <1>0, <2>1, IdleScope
    <3> QED
      BY <2>1, <3>1 DEF LiveStages
  <2>3. ScopeState(h) = "open" /\ (ScopeState(h))' = "open"
    BY <2>1 DEF ScopeState, Ended
  <2>4. EnteringScopes' = EnteringScopes \cup {h}
    BY <2>1 DEF EnteringScopes, SeenSame
  <2>5. Scope!Admit(h)
    BY <1>1, <1>2, <2>1, <2>2, <2>3, <2>4 DEF Scope!Admit, SeenSame
  <2> QED
    BY <2>5 DEF Scope!Next
<1>7. ASSUME NEW i \in Branch, SerialContinue(h, i) PROVE Scope!Next
  <2>1. /\ root[h] = "serial" /\ root' = root /\ cancelled' = cancelled
        /\ pc[h][i] = "finished" /\ i < Width(h)
        /\ pc'[h] = [pc[h] EXCEPT ![i] = "joined", ![i + 1] = "enter"]
    BY <1>0, <1>7 DEF SerialContinue
  <2>2. i \in LiveStages(h)
    BY <2>1 DEF LiveStages
  <2>3. LiveStages(h) = {i}
    BY <1>0, <2>1, <2>2, OneAlive
  <2>4. i + 1 \in Branch /\ i # i + 1
    <3>1. Width(h) \in Nat /\ Width(h) <= MaxStages
      BY <1>0, <2>1, GroupType DEF ScopeInv, PlacedIn
    <3> QED
      BY <2>1, <3>1, Bounds DEF Branch
  <2>5. \A j \in Branch : pc'[h][j] = IF j = i THEN "joined"
                                      ELSE IF j = i + 1 THEN "enter" ELSE pc[h][j]
    BY <1>0, <2>1, <2>4
  <2>6. (LiveStages(h))' = {i + 1}
    BY <2>3, <2>4, <2>5 DEF LiveStages
  <2>7. (ScopeState(h))' = ScopeState(h) /\ EnteringScopes' = EnteringScopes
    BY <1>3, <2>1 DEF ScopeState, Ended
  <2>8. Scope!Follow(h, i, i + 1)
    BY <1>1, <1>2, <2>1, <2>3, <2>6, <2>7 DEF Scope!Follow, SeenSame
  <2> QED
    BY <2>4, <2>8 DEF Scope!Next
<1>8. ASSUME NEW i \in Branch,
             SerialDone(h, i) \/ SerialFailed(h, i) \/ JoinOk(h, i) \/ JoinError(h, i)
      PROVE  Scope!Next
  <2>1. /\ pc[h][i] = "finished" /\ pc' = [pc EXCEPT ![h][i] = "joined"]
        /\ root[h] \notin {"unborn", "entering", "done", "panicked"}
        /\ root'[h] \notin {"unborn", "entering", "done", "panicked"}
        /\ cancelled' \in {cancelled, [cancelled EXCEPT ![h] = TRUE]}
    BY <1>0, <1>8 DEF SerialDone, SerialFailed, JoinOk, JoinError, JoinChild
  <2>2. i \in LiveStages(h)
    BY <2>1 DEF LiveStages
  <2>3. (LiveStages(h))' = LiveStages(h) \ {i}
    BY <1>0, <2>1, <2>2, LiveJoined
  <2>4. (ScopeState(h))' = ScopeState(h) /\ EnteringScopes' = EnteringScopes
    BY <1>3, <2>1 DEF ScopeState, Ended
  <2>5. Scope!Join(h, i)
    BY <1>1, <1>2, <2>1, <2>2, <2>3, <2>4 DEF Scope!Join, SeenSame
  <2> QED
    BY <2>5 DEF Scope!Next
<1>9. CASE Snapshot(h)
  <2>1. /\ pc' = pc /\ cancelled' = cancelled
        /\ root[h] = "snapshot" /\ root'[h] = "done"
    BY <1>0, <1>9 DEF Snapshot
  <2>2. LiveStages(h) = {} /\ (LiveStages(h))' = {}
    <3>1. LiveStages(h) = {}
      BY <1>0, <2>1, IdleScope
    <3> QED
      BY <2>1, <3>1 DEF LiveStages
  <2>3. ScopeState(h) = "open" /\ (ScopeState(h))' = "closed"
    BY <2>1 DEF ScopeState, Ended
  <2>4. h \notin EnteringScopes /\ EnteringScopes' = EnteringScopes
    BY <1>3, <2>1 DEF EnteringScopes
  <2>5. Scope!Close(h)
    BY <1>1, <1>2, <2>1, <2>2, <2>3, <2>4 DEF Scope!Close, SeenSame
  <2> QED
    BY <2>5 DEF Scope!Next
<1> QED
  BY <1>4, <1>5, <1>6, <1>7, <1>8, <1>9 DEF RootStep

\* execute opens the scope; a stage execution is not seen until it is joined,
\* unless its panic unwinds the root.
LEMMA StageRefines ==
  ASSUME RInv, RInv', NEW h \in Handles, \A k \in Handles : k # h => SeenSame(k),
         \/ \E p \in Plans : Execute(h, p)
         \/ \E i \in Branch : StageWork(h, i) \/ RootPanics(h, i)
  PROVE  Scope!Next \/ UNCHANGED Scope!vars
<1> USE DEF rootVars, stageVars, callerVars
<1>0. /\ TypeOK /\ ScopeInv(h)
      /\ root \in [Handles -> RootPoints]
      /\ pc \in [Handles -> [Branch -> StagePoints]]
  BY DEF RInv, IInv, TypeOK, RootOK, StageOK
<1>1. waiter' = waiter /\ supervised' = supervised /\ cancelled' = cancelled
  BY StageMove DEF Execute, RootPanics
<1>2. /\ \A k \in Handles : (ScopeTold(k))' = ScopeTold(k)
      /\ LeftScopes' = LeftScopes
  BY <1>1 DEF ScopeTold, LeftScopes
<1>3. ASSUME NEW p \in Plans, Execute(h, p) PROVE Scope!Next
  <2>1. root[h] = "unborn" /\ root'[h] = "spawned" /\ pc' = pc
    BY <1>0, <1>3 DEF Execute
  <2>2. ScopeState(h) = "new" /\ (ScopeState(h))' = "open"
    BY <2>1 DEF ScopeState, Ended
  <2>3. (LiveStages(h))' = LiveStages(h) /\ EnteringScopes' = EnteringScopes
    BY <2>1 DEF LiveStages, EnteringScopes, SeenSame
  <2>4. Scope!Open(h)
    BY <1>1, <1>2, <2>2, <2>3 DEF Scope!Open, SeenSame
  <2> QED
    BY <2>4 DEF Scope!Next
<1>4. ASSUME NEW i \in Branch, StageWork(h, i) PROVE UNCHANGED Scope!vars
  <2>1. root' = root /\ pc[h][i] \in Working
    BY <1>4, StageMove
  <2>2. PICK point \in Inside \cup {"finished"} : pc' = [pc EXCEPT ![h][i] = point]
    BY <1>4, StageMove DEF MovesOn, Returns, Leave
  <2>3. \A j \in Branch : pc'[h][j] \in {"idle", "joined"} <=> pc[h][j] \in {"idle", "joined"}
    BY <1>0, <2>1, <2>2 DEF Inside, Working
  <2>4. SeenSame(h)
    BY <1>1, <1>2, <2>1, <2>3 DEF SeenSame, ScopeState, Ended, LiveStages, EnteringScopes
  <2> QED
    BY <2>4, SeenStutter
<1>5. ASSUME NEW i \in Branch, RootPanics(h, i) PROVE Scope!Next
  <2>1. /\ root[h] = "serial" /\ root'[h] = "panicked"
        /\ pc[h][i] = "running" /\ pc' = [pc EXCEPT ![h][i] = "joined"]
    BY <1>0, <1>5 DEF RootPanics
  <2>2. i \in LiveStages(h)
    BY <2>1 DEF LiveStages
  <2>3. LiveStages(h) = {i} /\ (LiveStages(h))' = {}
    <3>1. LiveStages(h) = {i}
      BY <1>0, <2>1, <2>2, OneAlive
    <3>2. (LiveStages(h))' = LiveStages(h) \ {i}
      BY <1>0, <2>1, <2>2, LiveJoined
    <3> QED
      BY <3>1, <3>2
  <2>4. ScopeState(h) = "open" /\ (ScopeState(h))' = "closed"
    BY <2>1 DEF ScopeState, Ended
  <2>5. EnteringScopes' = EnteringScopes
    BY <2>1 DEF EnteringScopes, SeenSame
  <2>6. Scope!Unwind(h, i)
    BY <1>1, <1>2, <2>3, <2>4, <2>5 DEF Scope!Unwind, SeenSame
  <2> QED
    BY <2>6 DEF Scope!Next
<1> QED
  BY <1>3, <1>4, <1>5

\* The caller stops the scope, is told its result or gives it up, and the
\* supervisor reaps it.
LEMMA CallerRefines ==
  ASSUME RInv, RInv', NEW h \in Handles, \A k \in Handles : k # h => SeenSame(k),
         CallerWork(h)
  PROVE  Scope!Next \/ UNCHANGED Scope!vars
<1> USE DEF rootVars, stageVars, callerVars
<1>0. /\ CallerInv(h)
      /\ cancelled \in [Handles -> BOOLEAN] /\ supervised \in [Handles -> BOOLEAN]
      /\ waiter \in [Handles -> WaiterPoints]
  BY DEF RInv, RecordInv, IInv, TypeOK, CallerOK
<1>1. root' = root /\ pc' = pc
  BY CallerFrame
<1>2. \A k \in Handles : /\ (ScopeState(k))' = ScopeState(k)
                         /\ (LiveStages(k))' = LiveStages(k)
      /\ EnteringScopes' = EnteringScopes
  BY <1>1 DEF ScopeState, Ended, LiveStages, EnteringScopes
<1>3. CASE Cancel(h)
  <2>1. /\ root[h] # "unborn" /\ waiter' = waiter /\ supervised' = supervised
        /\ cancelled' = [cancelled EXCEPT ![h] = TRUE]
    BY <1>3 DEF Cancel
  <2>2. /\ ScopeState(h) # "new"
        /\ \A k \in Handles : (ScopeTold(k))' = ScopeTold(k)
        /\ LeftScopes' = LeftScopes
    BY <2>1 DEF ScopeState, ScopeTold, LeftScopes
  <2>3. Scope!Stop(h)
    BY <1>2, <2>1, <2>2 DEF Scope!Stop
  <2> QED
    BY <2>3 DEF Scope!Next
<1>4. CASE Wait(h) \/ WaitCancelled(h)
  <2>1. /\ waiter[h] \in {"holding", "waiting"} /\ waiter'[h] \in {"waiting", "grace"}
        /\ UNCHANGED <<cancelled, supervised>>
    BY <1>0, <1>4 DEF Wait, WaitCancelled
  <2>2. SeenSame(h)
    BY <1>2, <2>1 DEF SeenSame, ScopeTold, LeftScopes
  <2> QED
    BY <2>2, SeenStutter
<1>5. CASE WaitJoined(h)
  <2>1. /\ waiter[h] \in {"waiting", "grace"} /\ waiter'[h] = "returned" /\ Ended(h)
        /\ UNCHANGED <<cancelled, supervised>>
    BY <1>0, <1>5 DEF WaitJoined
  <2>2. /\ ScopeState(h) = "closed" /\ ScopeTold(h) = "nothing" /\ (ScopeTold(h))' = "result"
    BY <2>1 DEF ScopeState, ScopeTold, Ended
  <2>3. LeftScopes' = LeftScopes
    BY <2>1 DEF LeftScopes, SeenSame
  <2>4. Scope!Tell(h)
    BY <1>2, <2>1, <2>2, <2>3 DEF Scope!Tell, SeenSame
  <2> QED
    BY <2>4 DEF Scope!Next
<1>6. CASE GraceElapsed(h)
  <2>1. /\ waiter[h] = "grace" /\ waiter'[h] = "leaving" /\ ~Ended(h)
        /\ cancelled' = cancelled
    BY <1>0, <1>6 DEF GraceElapsed
  <2>2. root[h] # "unborn" /\ cancelled[h]
    BY <1>0, <2>1 DEF CallerInv
  <2>3. ScopeState(h) = "open" /\ ScopeTold(h) = "nothing" /\ (ScopeTold(h))' = "gaveup"
    BY <2>1, <2>2 DEF ScopeState, ScopeTold
  <2>4. LeftScopes' = LeftScopes \cup {h}
    BY <2>1 DEF LeftScopes, SeenSame
  <2>5. Scope!GiveUp(h)
    BY <1>2, <2>1, <2>2, <2>3, <2>4 DEF Scope!GiveUp, SeenSame
  <2> QED
    BY <2>5 DEF Scope!Next
<1>7. CASE Detach(h)
  <2>1. /\ waiter[h] = "leaving" /\ waiter'[h] = "detached" /\ supervised'[h]
        /\ cancelled' = cancelled
    BY <1>0, <1>7 DEF Detach
  <2>2. SeenSame(h)
    BY <1>2, <2>1 DEF SeenSame, ScopeTold, LeftScopes
  <2> QED
    BY <2>2, SeenStutter
<1>8. CASE Reap(h)
  <2>1. /\ supervised[h] /\ Ended(h) /\ UNCHANGED <<waiter, cancelled>>
        /\ supervised' = [supervised EXCEPT ![h] = FALSE]
    BY <1>8 DEF Reap
  <2>2. ScopeState(h) = "closed" /\ \A k \in Handles : (ScopeTold(k))' = ScopeTold(k)
    BY <2>1 DEF ScopeState, ScopeTold, Ended
  <2>3. h \in LeftScopes /\ LeftScopes' = LeftScopes \ {h}
    BY <1>0, <2>1 DEF CallerInv, LeftScopes
  <2>4. Scope!Reap(h)
    BY <1>2, <2>1, <2>2, <2>3 DEF Scope!Reap
  <2> QED
    BY <2>4 DEF Scope!Next
<1> QED
  BY <1>3, <1>4, <1>5, <1>6, <1>7, <1>8 DEF CallerWork, CallerStep

\* The initial states of the executor are initial states of the scopes.
LEMMA InitRefines == Init => Scope!Init
<1> SUFFICES ASSUME Init PROVE Scope!Init
  OBVIOUS
<1>1. ASSUME NEW h \in Handles
      PROVE  ScopeState(h) = "new" /\ LiveStages(h) = {} /\ ScopeTold(h) = "nothing"
  BY <1>1 DEF Init, ScopeState, Ended, LiveStages, ScopeTold
<1>2. /\ cancelled = [h \in Handles |-> FALSE]
      /\ EnteringScopes = {} /\ LeftScopes = {}
  BY DEF Init, EnteringScopes, LeftScopes
<1> QED
  BY <1>1, <1>2 DEF Scope!Init

\* Every step is a step of the scopes, or is not seen by their owners.
LEMMA StepRefines == RInv /\ RInv' /\ [Next]_vars => [Scope!Next]_(Scope!vars)
<1> SUFFICES ASSUME RInv, RInv', [Next]_vars PROVE Scope!Next \/ UNCHANGED Scope!vars
  OBVIOUS
<1>1. TypeOK
  BY DEF RInv, IInv
<1>2. ASSUME NEW h \in Handles, ScopeWork(h), \A k \in Handles : k # h => SeenSame(k)
      PROVE  Scope!Next \/ UNCHANGED Scope!vars
  BY <1>2, RootRefines, StageRefines, CallerRefines DEF ScopeWork
<1> QED
  BY <1>1, <1>2, StepScopes, UnseenStep, SeenStutter

\* The executor implements a structured scope, for any plans and any number of
\* executions: each group starts on its own look at the token, so that at most
\* one starts after a cancellation, the root ends over joined children only,
\* and wait() decides to answer for a root that has not ended only when the
\* scope was cancelled.
THEOREM ScopeImplemented == Spec => ImplementsScope
  BY InitRefines, StepRefines, RecordsKept, PTL DEF Spec, ImplementsScope, Scope!Spec
=============================================================================
