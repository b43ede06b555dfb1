--------------------------- MODULE PipelineSafety ---------------------------
(***************************************************************************)
(* The inductive invariant of Pipeline: every step keeps it, and keeps the *)
(* circuit table that the executions share consistent.                     *)
(*                                                                         *)
(* The longer proofs name the provers and their time limits once, in USE:  *)
(* a leaf that meets a limit is tried again with a longer one.             *)
(***************************************************************************)
EXTENDS PipelineTypes

USE SMTT(4), ZenonT(10), SMTT(20), ZenonT(40), SMTT(40)

-----------------------------------------------------------------------------
(* The invariant of a scope.  A step of one scope does not touch another.  *)

\* What ScopeInv says of scope k is the same before and after the step.
Same(k) ==
  /\ plan'[k] = plan[k] /\ root'[k] = root[k] /\ group'[k] = group[k]
  /\ failure'[k] = failure[k] /\ verdict'[k] = verdict[k]
  /\ pc'[k] = pc[k] /\ result'[k] = result[k] /\ permits'[k] = permits[k]
  /\ cancelled'[k] = cancelled[k] /\ asked'[k] = asked[k]

\* A step that leaves the scope as it is keeps its invariant.
LEMMA SameScope == ASSUME NEW k \in Handles, Same(k), ScopeInv(k) PROVE ScopeInv(k)'
<1>1. /\ (LiveStages(k))' = LiveStages(k)
      /\ (PermitHolders(k))' = PermitHolders(k)
      /\ (Width(k))' = Width(k)
      /\ (PassedStages(k))' = PassedStages(k)
  BY DEF Same, LiveStages, PermitHolders, Width, Current, PassedStages
<1>2. (PlacedIn(k))'
  BY <1>1 DEF Same, ScopeInv, PlacedIn
<1>3. (PermitsBalance(k))'
  BY <1>1 DEF Same, ScopeInv, PermitsBalance
<1>4. (SerialOrder(k))' /\ (FanOutTally(k))'
  BY <1>1 DEF Same, ScopeInv, SerialOrder, FanOutTally
<1>5. (Settled(k))' /\ (CauseKnown(k))'
  BY DEF Same, ScopeInv, Settled, CauseKnown
<1>6. (AllPassed(k))'
  BY <1>1 DEF Same, ScopeInv, AllPassed
<1> QED
  BY <1>2, <1>3, <1>4, <1>5, <1>6 DEF ScopeInv

\* The steps of scope h leave every other scope as it is.
LEMMA OthersSame ==
  ASSUME TypeOK, NEW h \in Handles, NEW k \in Handles, k # h,
         \/ \E p \in Plans : Execute(h, p)
         \/ RootStep(h)
         \/ \E i \in Branch : StageWork(h, i) \/ RootPanics(h, i)
         \/ CallerWork(h)
  PROVE  Same(k)
<1> USE DEF rootVars, stageVars
<1>1. ASSUME NEW p \in Plans, Execute(h, p) PROVE Same(k)
  BY <1>1 DEF Execute, Same
<1>2. CASE RootStep(h)
  <2>1. CASE \/ Start(h) \/ ObserveCancellation(h) \/ AdmitGroup(h) \/ MissingInput(h)
             \/ GroupsExhausted(h) \/ EmptySerial(h) \/ FanOutFailed(h) \/ Finish(h)
             \/ Snapshot(h)
    BY <2>1 DEF Same, Start, ObserveCancellation, AdmitGroup, MissingInput, GroupsExhausted,
                Conclude, EmptySerial, FanOutFailed, Finish, Snapshot, TypeOK, RootOK, StageOK
  <2>2. CASE StartSerial(h) \/ StartFanOut(h)
    BY <2>2 DEF Same, StartSerial, StartFanOut, EnterStages, TypeOK, RootOK, StageOK
  <2>3. ASSUME NEW i \in Branch,
               SerialContinue(h, i) \/ SerialDone(h, i) \/ SerialFailed(h, i)
        PROVE  Same(k)
    BY <2>3 DEF Same, SerialContinue, SerialDone, SerialFailed, TypeOK, RootOK, StageOK
  <2>4. ASSUME NEW i \in Branch, JoinOk(h, i) \/ JoinError(h, i) PROVE Same(k)
    BY <2>4 DEF Same, JoinOk, JoinError, JoinChild, CallerOK, TypeOK, RootOK, StageOK
  <2>5. CASE FanOutJoined(h)
    BY <2>5 DEF Same, FanOutJoined, TypeOK, RootOK, StageOK
  <2> QED
    BY <1>2, <2>1, <2>2, <2>3, <2>4, <2>5 DEF RootStep
<1>3. ASSUME NEW i \in Branch, StageWork(h, i) PROVE Same(k)
  <2>1. UNCHANGED <<plan, rootVars, cancelled>>
    BY <1>3, StageMove
  <2>2. ASSUME MovesOn(h, i)
        PROVE  pc'[k] = pc[k] /\ result'[k] = result[k] /\ permits'[k] = permits[k]
    BY <2>2 DEF MovesOn
  <2>3. ASSUME Returns(h, i)
        PROVE  pc'[k] = pc[k] /\ result'[k] = result[k] /\ permits'[k] = permits[k]
    BY <2>3 DEF Returns, Leave
  <2>4. asked'[k] = asked[k]
    <3>1. asked' = asked \/ \E b \in BOOLEAN : asked' = [asked EXCEPT ![h] = @ \/ b]
      BY <1>3, StageMove
    <3> QED
      BY <3>1 DEF CallerOK, TypeOK, RootOK, StageOK
  <2> QED
    BY <1>3, <2>1, <2>2, <2>3, <2>4, StageMove DEF Same
<1>4. ASSUME NEW i \in Branch, RootPanics(h, i) PROVE Same(k)
  BY <1>4 DEF RootPanics, Same
<1>5. CASE CallerWork(h)
  BY <1>5, CallerFrame DEF Same, CallerWork, CallerStep, Cancel, Wait, WaitJoined,
     WaitCancelled, GraceElapsed, Detach, Reap, CallerOK, TypeOK, RootOK, StageOK
<1> QED
  BY <1>1, <1>2, <1>3, <1>4, <1>5

\* The parts of the invariant that a scope without live executions needs: it
\* is outside its groups, or about to leave one.
LEMMA IdleScope ==
  ASSUME NEW h \in Handles, ScopeInv(h), root[h] \notin {"serial", "fanout"}
  PROVE  LiveStages(h) = {}
  BY DEF ScopeInv, PlacedIn

\* The root moves outside its groups: the stages stay as they were.
LEMMA OutsideStep ==
  ASSUME TypeOK, NEW h \in Handles, ScopeInv(h), LiveStages(h) = {},
         UNCHANGED <<pc, result, cancelled, asked, failure>>,
         root'[h] \notin {"serial", "fanout", "unborn", "spawned"},
         root'[h] = "entering" => group'[h] \in DOMAIN plan'[h],
         root'[h] \in {"group", "entering"} => failure[h] = "None",
         verdict'[h] # "None" => root'[h] \in {"finishing", "snapshot", "done", "panicked"},
         verdict'[h] = "Cancelled" => asked[h],
         AllPassed(h)'
  PROVE  ScopeInv(h)'
<1>1. (LiveStages(h))' = {}
  BY DEF LiveStages
<1>2. (PlacedIn(h))' /\ (PermitsBalance(h))' /\ (SerialOrder(h))' /\ (FanOutTally(h))'
  BY <1>1 DEF PlacedIn, PermitsBalance, SerialOrder, FanOutTally
<1>3. (Settled(h))'
  BY DEF ScopeInv, Settled
<1>4. (CauseKnown(h))'
  BY DEF ScopeInv, CauseKnown
<1> QED
  BY <1>2, <1>3, <1>4 DEF ScopeInv

\* execute and the start of run.
LEMMA ScopeExecute ==
  ASSUME TypeOK, NEW h \in Handles, ScopeInv(h),
         (\E p \in Plans : Execute(h, p)) \/ Start(h)
  PROVE  ScopeInv(h)'
<1> USE DEF rootVars, stageVars
<1>1. LiveStages(h) = {}
  BY IdleScope DEF Execute, Start
<1>2. /\ group[h] = 1 /\ verdict[h] = "None" /\ failure[h] = "None"
  BY DEF ScopeInv, Settled, Execute, Start
<1>3. CASE Start(h)
  <2>1. root'[h] = "group" /\ UNCHANGED <<pc, result, cancelled, asked, failure, verdict, group>>
    BY <1>3 DEF Start, TypeOK, RootOK
  <2>2. AllPassed(h)'
    BY <1>2, <2>1 DEF AllPassed, PassedStages
  <2> QED
    BY <1>1, <1>2, <2>1, <2>2, OutsideStep
<1>4. ASSUME NEW p \in Plans, Execute(h, p) PROVE ScopeInv(h)'
  <2>1. /\ root'[h] = "spawned"
        /\ UNCHANGED <<group, failure, verdict, pc, result, permits, cancelled, asked>>
    BY <1>4 DEF Execute, TypeOK, RootOK
  <2>2. (LiveStages(h))' = {}
    BY <1>1, <2>1 DEF LiveStages
  <2>3. (PlacedIn(h))' /\ (PermitsBalance(h))' /\ (SerialOrder(h))' /\ (FanOutTally(h))'
    BY <2>1, <2>2 DEF PlacedIn, PermitsBalance, SerialOrder, FanOutTally
  <2>4. (Settled(h))' /\ (CauseKnown(h))' /\ (AllPassed(h))'
    BY <1>2, <2>1 DEF ScopeInv, Settled, CauseKnown, AllPassed
  <2> QED
    BY <2>3, <2>4 DEF ScopeInv
<1> QED
  BY <1>3, <1>4

\* The look at the token lets a group in.
LEMMA ScopeAdmit ==
  ASSUME TypeOK, NEW h \in Handles, ScopeInv(h), AdmitGroup(h)
  PROVE  ScopeInv(h)'
<1>1. /\ root[h] = "group" /\ root'[h] = "entering"
      /\ UNCHANGED <<plan, pc, result, cancelled, asked, failure, verdict, group>>
  BY DEF AdmitGroup, stageVars, TypeOK, RootOK
<1>2. /\ LiveStages(h) = {} /\ verdict[h] = "None" /\ failure[h] = "None"
  BY <1>1, IdleScope DEF ScopeInv, Settled
<1>3. AllPassed(h)'
  BY <1>1 DEF AllPassed, PassedStages, ScopeInv
<1> QED
  BY <1>1, <1>2, <1>3, AdmittedGroup, OutsideStep

\* run_groups returns, run records the end and returns.
LEMMA ScopeConclude ==
  ASSUME TypeOK, NEW h \in Handles, ScopeInv(h),
         \/ ObserveCancellation(h) \/ MissingInput(h) \/ GroupsExhausted(h)
         \/ FanOutFailed(h) \/ Finish(h) \/ Snapshot(h)
  PROVE  ScopeInv(h)'
<1> USE DEF rootVars, stageVars
<1>1. ASSUME NEW v, Conclude(h, v), LiveStages(h) = {}, v = "Cancelled" => asked[h],
             v = "Ok" => root[h] = "group"
      PROVE  ScopeInv(h)'
  <2>1. /\ root'[h] = "finishing" /\ verdict'[h] = v
        /\ UNCHANGED <<plan, pc, result, cancelled, asked, failure, group>>
    BY <1>1 DEF Conclude, TypeOK, RootOK
  <2>2. AllPassed(h)'
    BY <1>1, <2>1 DEF AllPassed, PassedStages, ScopeInv
  <2> QED
    BY <1>1, <2>1, <2>2, OutsideStep
<1>2. CASE ObserveCancellation(h)
  <2>1. asked[h]
    BY <1>2 DEF ObserveCancellation, ScopeInv, Settled, CauseKnown
  <2> QED
    BY <1>1, <1>2, <2>1, IdleScope DEF ObserveCancellation
<1>3. CASE MissingInput(h) \/ GroupsExhausted(h)
  BY <1>1, <1>3, IdleScope DEF MissingInput, GroupsExhausted
<1>4. CASE FanOutFailed(h)
  <2>1. \A i \in LiveStages(h) : i \in 1 .. Width(h)
    <3>1. group[h] \in DOMAIN plan[h]
      BY <1>4 DEF FanOutFailed, ScopeInv, PlacedIn
    <3>2. Width(h) \in Nat
      BY <3>1, GroupType
    <3> QED
      BY <3>2, Bounds DEF ScopeInv, PlacedIn, LiveStages, Branch
  <2>2. LiveStages(h) = {}
    BY <1>4, <2>1 DEF FanOutFailed, AllJoined, LiveStages
  <2>3. failure[h] # "Ok"
    BY DEF StageErrors, TypeOK, RootOK
  <2> QED
    BY <1>1, <1>4, <2>2, <2>3 DEF FanOutFailed, ScopeInv, CauseKnown
<1>5. CASE Finish(h) \/ Snapshot(h)
  <2>1. /\ root'[h] \in {"snapshot", "done"}
        /\ root[h] \in {"finishing", "snapshot"}
        /\ UNCHANGED <<plan, pc, result, cancelled, asked, failure, group, verdict>>
    BY <1>5 DEF Finish, Snapshot, TypeOK, RootOK
  <2>2. LiveStages(h) = {}
    BY <2>1, IdleScope
  <2>3. AllPassed(h)'
    BY <2>1 DEF AllPassed, PassedStages, ScopeInv
  <2> QED
    BY <2>1, <2>2, <2>3, OutsideStep DEF ScopeInv, CauseKnown
<1> QED
  BY <1>2, <1>3, <1>4, <1>5

\* When a group is passed, its stages are the passed ones.
LEMMA PassGroup ==
  ASSUME TypeOK, NEW h \in Handles, group[h] \in DOMAIN plan[h],
         group'[h] = group[h] + 1, plan' = plan
  PROVE  /\ (PassedStages(h))' = Current(h).stages
         /\ DOMAIN Current(h).stages = 1 .. Width(h)
<1>1. group[h] \in Nat \ {0}
  BY DEF TypeOK, RootOK
<1>2. group'[h] # 1 /\ group'[h] - 1 = group[h]
  BY <1>1
<1>3. Current(h).stages \in Seq(Stage)
  BY GroupType DEF Group
<1> QED
  BY <1>2, <1>3 DEF PassedStages, Current, Width

\* The root enters a group.
LEMMA ScopeEnter ==
  ASSUME Counting, TypeOK, NEW h \in Handles, ScopeInv(h),
         EmptySerial(h) \/ StartSerial(h) \/ StartFanOut(h)
  PROVE  ScopeInv(h)'
<1> USE DEF rootVars, stageVars
<1>1. root[h] = "entering" /\ group[h] \in DOMAIN plan[h]
  BY DEF EmptySerial, StartSerial, StartFanOut, EnterGroup, ScopeInv, PlacedIn
<1>2. /\ LiveStages(h) = {} /\ verdict[h] = "None" /\ failure[h] = "None"
      /\ cancelled[h] => asked[h]
  BY <1>1, IdleScope DEF ScopeInv, Settled, CauseKnown
<1>3. Width(h) \in Nat /\ Width(h) <= MaxStages
  BY <1>1, GroupType
<1>4. CASE EmptySerial(h)
  <2>1. /\ root'[h] = "group" /\ group'[h] = group[h] + 1
        /\ UNCHANGED <<plan, pc, result, cancelled, asked, failure, verdict>>
    BY <1>4 DEF EmptySerial, TypeOK, RootOK, StageOK
  <2>2. (PassedStages(h))' = Current(h).stages
    BY <1>1, <2>1, PassGroup
  <2>3. Current(h).stages \in Seq(Stage) /\ Len(Current(h).stages) = 0
    BY <1>1, <1>4, GroupType DEF EmptySerial, Width, Group
  <2>4. AllPassed(h)'
    BY <2>2, <2>3 DEF AllPassed
  <2> QED
    BY <1>1, <1>2, <2>1, <2>4, OutsideStep
<1>5. CASE StartSerial(h)
  <2>1. /\ root'[h] = "serial" /\ Width(h) > 0
        /\ pc'[h] = [i \in Branch |-> IF i = 1 THEN "enter" ELSE "idle"]
        /\ result'[h] = [i \in Branch |-> "None"]
        /\ UNCHANGED <<plan, group, cancelled, asked, failure, verdict>>
    BY <1>5 DEF StartSerial, EnterStages, TypeOK, RootOK, StageOK
  <2>2. (LiveStages(h))' = {1} /\ (Width(h))' = Width(h)
    BY <1>3, <2>1, Bounds DEF LiveStages, Width, Current, Branch
  <2>3. (PlacedIn(h))'
    BY <1>1, <1>3, <2>1, <2>2 DEF PlacedIn
  <2>4. (SerialOrder(h))'
    BY <2>1, <2>2, Bounds DEF SerialOrder, Branch
  <2>5. (PermitsBalance(h))' /\ (FanOutTally(h))' /\ (AllPassed(h))'
    BY <1>2, <2>1 DEF PermitsBalance, FanOutTally, AllPassed
  <2>6. (Settled(h))' /\ (CauseKnown(h))'
    BY <1>1, <1>2, <2>1 DEF Settled, CauseKnown
  <2> QED
    BY <2>3, <2>4, <2>5, <2>6 DEF ScopeInv
<1>6. CASE StartFanOut(h)
  <2>1. /\ root'[h] = "fanout" /\ permits'[h] = MaxFanOut /\ failure'[h] = "None"
        /\ pc'[h] = [i \in Branch |-> IF i <= Width(h) THEN "queued" ELSE "idle"]
        /\ result'[h] = [i \in Branch |-> "None"]
        /\ UNCHANGED <<plan, group, cancelled, asked, verdict>>
    BY <1>6 DEF StartFanOut, EnterStages, TypeOK, RootOK, StageOK
  <2>2. /\ (LiveStages(h))' = {i \in Branch : i <= Width(h)}
        /\ (Width(h))' = Width(h)
        /\ (PermitHolders(h))' = {}
    BY <2>1 DEF LiveStages, Width, Current, PermitHolders
  <2>3. (PlacedIn(h))'
    BY <1>1, <2>1, <2>2 DEF PlacedIn
  <2>4. (PermitsBalance(h))'
    <3>1. Cardinality({}) = 0
      BY DEF Counting
    <3> QED
      BY <2>1, <2>2, <3>1, Bounds DEF PermitsBalance
  <2>5. (SerialOrder(h))' /\ (FanOutTally(h))' /\ (AllPassed(h))'
    BY <1>2, <2>1 DEF SerialOrder, FanOutTally, AllPassed
  <2>6. (Settled(h))' /\ (CauseKnown(h))'
    BY <1>1, <1>2, <2>1 DEF Settled, CauseKnown
  <2> QED
    BY <2>3, <2>4, <2>5, <2>6 DEF ScopeInv
<1> QED
  BY <1>4, <1>5, <1>6

\* The root walks through a serial group.
LEMMA ScopeSerial ==
  ASSUME TypeOK, NEW h \in Handles, NEW i \in Branch, ScopeInv(h),
         \/ SerialContinue(h, i) \/ SerialDone(h, i) \/ SerialFailed(h, i)
         \/ RootPanics(h, i)
  PROVE  ScopeInv(h)'
<1> USE DEF rootVars, stageVars
<1>1. /\ root[h] = "serial" /\ i \in LiveStages(h)
      /\ group[h] \in DOMAIN plan[h]
  BY DEF SerialContinue, SerialDone, SerialFailed, RootPanics, LiveStages, ScopeInv, PlacedIn
<1>2. /\ verdict[h] = "None" /\ failure[h] = "None"
  BY <1>1 DEF ScopeInv, Settled
<1>3. \A j \in Branch : /\ j < i => pc[h][j] = "joined" /\ result[h][j] = "Ok"
                        /\ j > i => pc[h][j] = "idle"
  BY <1>1 DEF ScopeInv, SerialOrder
<1>4. i \in Nat /\ Width(h) \in Nat /\ i <= Width(h) /\ Width(h) <= MaxStages
  <2>1. i <= Width(h)
    BY <1>1 DEF ScopeInv, PlacedIn
  <2> QED
    BY <1>1, <2>1, Bounds, GroupType DEF Branch
<1>5. CASE SerialContinue(h, i)
  <2>1. /\ i < Width(h) /\ result[h][i] = "Ok"
        /\ pc'[h] = [pc[h] EXCEPT ![i] = "joined", ![i + 1] = "enter"]
        /\ UNCHANGED <<plan, root, group, failure, verdict, result, cancelled, asked>>
    BY <1>5 DEF SerialContinue, TypeOK, RootOK, StageOK
  <2>2. i + 1 \in Branch /\ i + 1 <= Width(h)
    <3>1. i < Width(h)
      BY <2>1
    <3> QED
      BY <1>4, <3>1, Bounds DEF Branch
  <2>3. \A j \in Branch : pc'[h][j] = IF j = i + 1 THEN "enter"
                                      ELSE IF j = i THEN "joined" ELSE pc[h][j]
    BY <1>4, <2>1, <2>2 DEF TypeOK, RootOK, StageOK
  <2>4. (LiveStages(h))' = {i + 1}
    <3>1. \A j \in Branch : j < i \/ j = i \/ j > i
      BY <1>4, Bounds DEF Branch
    <3> QED
      BY <1>3, <2>2, <2>3, <3>1 DEF LiveStages
  <2>5. (PlacedIn(h))'
    <3>1. (Width(h))' = Width(h)
      BY <2>1 DEF Width, Current
    <3> QED
      BY <1>1, <2>1, <2>2, <2>4, <3>1 DEF PlacedIn
  <2>6. (SerialOrder(h))'
    <3>1. \A j \in Branch : /\ j < i + 1 => j < i \/ j = i
                            /\ j > i + 1 => j > i /\ j # i /\ j # i + 1
                            /\ j < i + 1 => j # i + 1
      BY <1>4, Bounds DEF Branch
    <3> QED
      BY <1>3, <2>1, <2>3, <2>4, <3>1 DEF SerialOrder
  <2>7. (PermitsBalance(h))' /\ (FanOutTally(h))' /\ (AllPassed(h))'
    BY <1>1, <1>2, <2>1 DEF PermitsBalance, FanOutTally, AllPassed
  <2>8. (Settled(h))' /\ (CauseKnown(h))'
    BY <1>1, <1>2, <2>1, <2>3 DEF ScopeInv, Settled, CauseKnown
  <2> QED
    BY <2>5, <2>6, <2>7, <2>8 DEF ScopeInv
<1>6. ASSUME pc' = [pc EXCEPT ![h][i] = "joined"]
      PROVE  (LiveStages(h))' = {}
  <2>1. \A j \in Branch : j < i \/ j = i \/ j > i
    BY <1>4, Bounds DEF Branch
  <2> QED
    BY <1>3, <1>6, <2>1 DEF LiveStages, TypeOK, RootOK, StageOK
<1>7. ASSUME pc' = [pc EXCEPT ![h][i] = "joined"], failure' = failure,
             \A j \in Branch : result'[h][j] = "Cancelled" => result[h][j] = "Cancelled",
             UNCHANGED <<cancelled, asked>>,
             root'[h] \in {"group", "finishing", "panicked"},
             root'[h] = "group" => verdict'[h] = "None",
             verdict'[h] = "Cancelled" => asked[h],
             AllPassed(h)'
      PROVE  ScopeInv(h)'
  <2>1. (PlacedIn(h))' /\ (PermitsBalance(h))' /\ (SerialOrder(h))' /\ (FanOutTally(h))'
    BY <1>6, <1>7 DEF PlacedIn, PermitsBalance, SerialOrder, FanOutTally
  <2>2. \A j \in Branch : pc'[h][j] # "finished"
    BY <1>6, <1>7 DEF LiveStages
  <2>3. (Settled(h))'
    BY <1>2, <1>7, <2>2 DEF Settled
  <2>4. (CauseKnown(h))'
    BY <1>7 DEF ScopeInv, CauseKnown
  <2> QED
    BY <1>7, <2>1, <2>3, <2>4 DEF ScopeInv
<1>8. CASE SerialDone(h, i)
  <2>1. /\ i = Width(h) /\ result[h][i] = "Ok"
        /\ pc' = [pc EXCEPT ![h][i] = "joined"]
        /\ root'[h] = "group" /\ group'[h] = group[h] + 1
        /\ UNCHANGED <<plan, failure, verdict, result, cancelled, asked>>
    BY <1>8 DEF SerialDone, TypeOK, RootOK, StageOK
  <2>2. \A j \in 1 .. Width(h) : result[h][j] = "Ok"
    <3>1. \A j \in 1 .. Width(h) : j \in Branch /\ (j < i \/ j = i)
      BY <1>4, <2>1, Bounds DEF Branch
    <3> QED
      BY <1>3, <2>1, <3>1
  <2>3. AllPassed(h)'
    BY <1>1, <2>1, <2>2, PassGroup DEF AllPassed
  <2> QED
    BY <1>2, <1>7, <2>1, <2>3
<1>9. CASE SerialFailed(h, i)
  <2>1. /\ result[h][i] # "Ok"
        /\ pc' = [pc EXCEPT ![h][i] = "joined"]
        /\ root'[h] = "finishing" /\ verdict'[h] = result[h][i]
        /\ UNCHANGED <<plan, failure, result, cancelled, asked>>
    BY <1>9 DEF SerialFailed, TypeOK, RootOK, StageOK
  <2>2. AllPassed(h)'
    BY <2>1 DEF AllPassed
  <2>3. verdict'[h] = "Cancelled" => asked[h]
    BY <1>2, <2>1 DEF ScopeInv, CauseKnown
  <2> QED
    BY <1>7, <2>1, <2>2, <2>3
<1>10. CASE RootPanics(h, i)
  <2>1. /\ pc' = [pc EXCEPT ![h][i] = "joined"]
        /\ root'[h] = "panicked" /\ verdict'[h] = "Join"
        /\ result' = [result EXCEPT ![h][i] = "Join"]
        /\ UNCHANGED <<plan, failure, cancelled, asked>>
    BY <1>10 DEF RootPanics, TypeOK, RootOK, StageOK
  <2>2. AllPassed(h)'
    BY <2>1 DEF AllPassed
  <2> QED
    BY <1>7, <2>1, <2>2
<1> QED
  BY <1>5, <1>8, <1>9, <1>10

\* run_fan_out joins a child, or has joined the last one.
LEMMA ScopeJoin ==
  ASSUME TypeOK, NEW h \in Handles, ScopeInv(h),
         (\E i \in Branch : JoinOk(h, i) \/ JoinError(h, i)) \/ FanOutJoined(h)
  PROVE  ScopeInv(h)'
<1> USE DEF rootVars, stageVars
<1>1. /\ root[h] = "fanout" /\ verdict[h] = "None" /\ group[h] \in DOMAIN plan[h]
  BY DEF JoinOk, JoinError, JoinChild, FanOutJoined, ScopeInv, Settled, PlacedIn
<1>2. ASSUME NEW i \in Branch, JoinChild(h, i), result[h][i] # "Ok" => failure'[h] # "None",
             failure'[h] = "None" => failure[h] = "None",
             (CauseKnown(h))'
      PROVE  ScopeInv(h)'
  <2>1. /\ pc[h][i] = "finished"
        /\ pc' = [pc EXCEPT ![h][i] = "joined"]
        /\ UNCHANGED <<plan, root, group, verdict, result, permits>>
    BY <1>2 DEF JoinChild
  <2>2. \A j \in Branch : pc'[h][j] = IF j = i THEN "joined" ELSE pc[h][j]
    BY <2>1 DEF TypeOK, RootOK, StageOK
  <2>3. (LiveStages(h))' \subseteq LiveStages(h)
    BY <2>2 DEF LiveStages
  <2>4. (PermitHolders(h))' = PermitHolders(h)
    BY <2>1, <2>2 DEF PermitHolders
  <2>5. (PlacedIn(h))'
    <3>1. (Width(h))' = Width(h)
      BY <2>1 DEF Width, Current
    <3> QED
      BY <2>1, <2>3, <3>1 DEF ScopeInv, PlacedIn
  <2>6. (PermitsBalance(h))' /\ (SerialOrder(h))' /\ (AllPassed(h))'
    BY <1>1, <2>1, <2>4 DEF ScopeInv, PermitsBalance, SerialOrder, AllPassed
  <2>7. (FanOutTally(h))'
    BY <1>1, <1>2, <2>1, <2>2 DEF ScopeInv, FanOutTally
  <2>8. (Settled(h))'
    BY <1>1, <2>1, <2>2 DEF ScopeInv, Settled
  <2> QED
    BY <1>2, <2>5, <2>6, <2>7, <2>8 DEF ScopeInv
<1>3. ASSUME NEW i \in Branch, JoinOk(h, i) PROVE ScopeInv(h)'
  <2>1. JoinChild(h, i) /\ result[h][i] = "Ok" /\ UNCHANGED <<failure, cancelled, asked, result, verdict>>
    BY <1>3 DEF JoinOk, JoinChild
  <2>2. (CauseKnown(h))'
    BY <2>1 DEF ScopeInv, CauseKnown
  <2> QED
    BY <1>2, <2>1, <2>2
<1>4. ASSUME NEW i \in Branch, JoinError(h, i) PROVE ScopeInv(h)'
  <2>1. /\ JoinChild(h, i) /\ UNCHANGED <<asked, result, verdict>>
        /\ failure'[h] = IF failure[h] = "None" THEN result[h][i] ELSE failure[h]
    BY <1>4 DEF JoinError, JoinChild, TypeOK, RootOK, StageOK
  <2>2. result[h][i] # "None"
    BY <2>1 DEF JoinChild, ScopeInv, Settled
  <2>3. failure'[h] = "Cancelled" => asked[h]
    BY <2>1 DEF ScopeInv, CauseKnown
  <2>4. (CauseKnown(h))'
    BY <1>1, <2>1, <2>2, <2>3 DEF CauseKnown
  <2> QED
    BY <1>2, <2>1, <2>2, <2>4
<1>5. CASE FanOutJoined(h)
  <2>1. /\ AllJoined(h) /\ failure[h] = "None"
        /\ root'[h] = "group" /\ group'[h] = group[h] + 1
        /\ UNCHANGED <<plan, pc, result, cancelled, asked, failure, verdict>>
    BY <1>5 DEF FanOutJoined, TypeOK, RootOK, StageOK
  <2>2. Width(h) \in Nat /\ 1 .. Width(h) \subseteq Branch
    <3>1. Width(h) \in Nat /\ Width(h) <= MaxStages
      BY <1>1, GroupType
    <3> QED
      BY <3>1, Bounds DEF Branch
  <2>3. \A i \in 1 .. Width(h) : result[h][i] = "Ok"
    BY <1>1, <2>1, <2>2 DEF AllJoined, ScopeInv, FanOutTally
  <2>4. AllPassed(h)'
    BY <1>1, <2>1, <2>3, PassGroup DEF AllPassed
  <2>5. LiveStages(h) = {}
    <3>1. \A i \in LiveStages(h) : i \in 1 .. Width(h)
      BY <2>2, Bounds DEF ScopeInv, PlacedIn, LiveStages, Branch
    <3> QED
      BY <2>1, <3>1 DEF AllJoined, LiveStages
  <2> QED
    BY <1>1, <2>1, <2>4, <2>5, OutsideStep
<1> QED
  BY <1>3, <1>4, <1>5

\* An execution returns Cancelled when the token is set, or says so by itself
\* and is then recorded as having asked.
LEMMA CancelledReturn ==
  ASSUME TypeOK, NEW h \in Handles, NEW i \in Branch, StageWork(h, i),
         result'[h][i] = "Cancelled"
  PROVE  result[h][i] = "Cancelled" \/ cancelled[h] \/ asked'[h]
<1> USE DEF Succeed, Fail, Leave
<1>1. CASE AcquirePermit(h, i) \/ EnterStage(h, i) \/ ContinueAttempts(h, i) \/ Call(h, i)
           \/ BackoffElapsed(h, i)
  BY <1>1 DEF AcquirePermit, EnterStage, ContinueAttempts, Call, BackoffElapsed
<1>2. CASE DenyStage(h, i) \/ DeadlineElapsed(h, i) \/ ChildPanics(h, i)
  <2>1. PICK r : r # "Cancelled" /\ result' = [result EXCEPT ![h][i] = r]
    <3>1. CASE DenyStage(h, i)
      BY <3>1 DEF DenyStage
    <3>2. CASE DeadlineElapsed(h, i)
      BY <3>2 DEF DeadlineElapsed
    <3>3. CASE ChildPanics(h, i)
      BY <3>3 DEF ChildPanics
    <3> QED
      BY <1>2, <3>1, <3>2, <3>3
  <2>2. result'[h][i] = r
    BY <2>1 DEF TypeOK, StageOK
  <2> QED
    BY <2>1, <2>2
<1>3. CASE StopAttempts(h, i) \/ BackoffCancelled(h, i)
  BY <1>3 DEF StopAttempts, BackoffCancelled
<1>4. ASSUME NEW r \in OperationResults, Return(h, i, r)
      PROVE  result[h][i] = "Cancelled" \/ cancelled[h] \/ asked'[h]
  <2>1. \/ result' = [result EXCEPT ![h][i] = "Ok"]
        \/ result' = result
        \/ /\ result' = [result EXCEPT ![h][i] = r]
           /\ asked' = [asked EXCEPT ![h] = @ \/ (r = "Cancelled" /\ ~cancelled[h])]
    BY <1>4 DEF Return
  <2>2. CASE result' = [result EXCEPT ![h][i] = "Ok"] \/ result' = result
    BY <2>2 DEF TypeOK, StageOK, CallerOK
  <2>3. CASE /\ result' = [result EXCEPT ![h][i] = r]
             /\ asked' = [asked EXCEPT ![h] = @ \/ (r = "Cancelled" /\ ~cancelled[h])]
    <3>1. result'[h][i] = r
      BY <2>3 DEF TypeOK, StageOK, CallerOK
    <3>2. asked'[h] = (asked[h] \/ (r = "Cancelled" /\ ~cancelled[h]))
      BY <2>3 DEF TypeOK, StageOK, CallerOK
    <3> QED
      BY <3>1, <3>2
  <2> QED
    BY <2>1, <2>2, <2>3
<1> QED
  BY <1>1, <1>2, <1>3, <1>4 DEF StageWork, StageStep

\* A stage execution moves, inside run_stage or out of it.
LEMMA ScopeStage ==
  ASSUME Counting, TypeOK, NEW h \in Handles, NEW i \in Branch, ScopeInv(h), StageWork(h, i)
  PROVE  ScopeInv(h)'
<1> USE DEF rootVars, stageVars
<1>1. /\ pc[h][i] \in Working
      /\ UNCHANGED <<plan, root, group, failure, verdict, cancelled>>
  BY StageMove
<1>2. PICK point \in Inside \cup {"finished"} : pc' = [pc EXCEPT ![h][i] = point]
  <2>1. CASE MovesOn(h, i)
    BY <2>1 DEF MovesOn
  <2>2. CASE Returns(h, i)
    BY <2>2 DEF Returns, Leave
  <2> QED
    BY <2>1, <2>2, StageMove
<1>3. \A j \in Branch : j # i => pc'[h][j] = pc[h][j] /\ result'[h][j] = result[h][j]
  <2>1. CASE MovesOn(h, i)
    BY <1>2, <2>1 DEF MovesOn
  <2>2. CASE Returns(h, i)
    BY <1>2, <2>2 DEF Returns, Leave
  <2> QED
    BY <2>1, <2>2, StageMove
<1>4. pc'[h][i] = point
  BY <1>2 DEF TypeOK, RootOK, StageOK
<1>5. i \in LiveStages(h) /\ (LiveStages(h))' = LiveStages(h)
  BY <1>1, <1>3, <1>4 DEF LiveStages, Working, Inside
<1>6. (PlacedIn(h))'
  <2>1. (Width(h))' = Width(h)
    BY <1>1 DEF Width, Current
  <2> QED
    BY <1>1, <1>5, <2>1 DEF ScopeInv, PlacedIn
<1>7. root[h] \in {"serial", "fanout"}
  BY <1>5 DEF ScopeInv, PlacedIn
<1>8. (SerialOrder(h))'
  <2>1. SUFFICES ASSUME root[h] = "serial", NEW k \in LiveStages(h), NEW j \in Branch
                 PROVE  /\ j < k => pc'[h][j] = "joined" /\ result'[h][j] = "Ok"
                        /\ j > k => pc'[h][j] = "idle"
    BY <1>1, <1>5 DEF SerialOrder
  <2>2. /\ j < k => pc[h][j] = "joined" /\ result[h][j] = "Ok"
        /\ j > k => pc[h][j] = "idle"
    BY <2>1 DEF ScopeInv, SerialOrder
  <2>3. CASE j = i
    BY <1>1, <2>2, <2>3 DEF Working
  <2>4. CASE j # i
    BY <1>3, <2>2, <2>4
  <2> QED
    BY <2>3, <2>4
<1>9. (FanOutTally(h))'
  BY <1>1, <1>3, <1>4 DEF ScopeInv, FanOutTally, Inside
<1>10. (AllPassed(h))'
  BY <1>1, <1>7 DEF ScopeInv, Settled, AllPassed
<1>11. (Settled(h))'
  <2>1. pc'[h][i] = "finished" => result'[h][i] # "None"
    <3>1. CASE MovesOn(h, i)
      BY <3>1 DEF MovesOn, Inside, TypeOK, RootOK, StageOK
    <3>2. CASE Returns(h, i)
      BY <3>2 DEF Returns, Leave, StageErrors, TypeOK, RootOK, StageOK
    <3> QED
      BY <3>1, <3>2, StageMove
  <2> QED
    BY <1>1, <1>3, <2>1 DEF ScopeInv, Settled
<1>12. asked[h] => asked'[h]
  BY StageMove DEF CallerOK, TypeOK, RootOK, StageOK
<1>13. (CauseKnown(h))'
  <2>1. \A j \in Branch : result'[h][j] = "Cancelled" => asked'[h] \/ failure[h] # "None"
    <3>1. result'[h][i] = "Cancelled" => asked'[h] \/ failure[h] # "None"
      BY <1>12, CancelledReturn DEF ScopeInv, CauseKnown
    <3>2. \A j \in Branch : j # i => (result'[h][j] = "Cancelled" => asked'[h] \/ failure[h] # "None")
      BY <1>3, <1>12 DEF ScopeInv, CauseKnown
    <3> QED
      BY <3>1, <3>2
  <2> QED
    BY <1>1, <1>12, <2>1 DEF ScopeInv, CauseKnown
<1>14. (PermitsBalance(h))'
  <2>1. CASE root[h] = "serial"
    BY <1>1, <2>1 DEF PermitsBalance
  <2>2. CASE root[h] = "fanout"
    <3> DEFINE held  == PermitHolders(h)
               held2 == (PermitHolders(h))'
    <3>1. /\ permits[h] \in Nat /\ permits[h] + Cardinality(held) = MaxFanOut
      BY <2>2 DEF ScopeInv, PermitsBalance, TypeOK, RootOK, StageOK
    <3>2. held \in SUBSET Branch /\ Cardinality(held) \in Nat
      BY DEF Counting, PermitHolders
    <3>3. CASE MovesOn(h, i) /\ pc[h][i] = "queued"
      <4>1. held2 = held \cup {i} /\ i \notin held
        BY <1>2, <1>3, <3>3 DEF MovesOn, PermitHolders, Inside, TypeOK, RootOK, StageOK
      <4>2. permits'[h] = permits[h] - 1
        BY <3>3 DEF MovesOn, TypeOK, RootOK, StageOK
      <4>3. Cardinality(held2) = Cardinality(held) + 1
        BY <3>2, <4>1 DEF Counting
      <4>4. permits'[h] + Cardinality(held2) = MaxFanOut
        BY <3>1, <3>2, <4>2, <4>3
      <4> QED
        BY <4>4 DEF PermitsBalance
    <3>4. CASE MovesOn(h, i) /\ pc[h][i] # "queued"
      <4>1. held2 = held
        BY <1>1, <1>3, <3>4 DEF MovesOn, PermitHolders, Inside, Working
      <4>2. permits'[h] = permits[h]
        BY <3>4 DEF MovesOn
      <4> QED
        BY <1>1, <2>2, <3>1, <4>1, <4>2 DEF PermitsBalance
    <3>5. CASE pc[h][i] \in Inside /\ Returns(h, i)
      <4>1. held2 = held \ {i} /\ i \in held
        BY <1>3, <3>5 DEF Returns, Leave, PermitHolders, Inside, TypeOK, RootOK, StageOK
      <4>2. permits'[h] = permits[h] + 1
        BY <2>2, <3>5 DEF Returns, Leave, TypeOK, RootOK, StageOK
      <4>3. Cardinality(held2) = Cardinality(held) - 1
        BY <3>2, <4>1 DEF Counting
      <4>4. permits'[h] + Cardinality(held2) = MaxFanOut
        BY <3>1, <3>2, <4>2, <4>3
      <4> QED
        BY <4>4 DEF PermitsBalance
    <3> QED
      BY <3>3, <3>4, <3>5, StageMove
  <2> QED
    BY <1>7, <2>1, <2>2
<1> QED
  BY <1>6, <1>8, <1>9, <1>10, <1>11, <1>13, <1>14 DEF ScopeInv

\* The caller cancels, waits and detaches, and the supervisor reaps.
LEMMA ScopeCaller ==
  ASSUME TypeOK, NEW h \in Handles, ScopeInv(h), CallerWork(h)
  PROVE  ScopeInv(h)'
<1> USE DEF rootVars, stageVars
<1>1. CASE Cancel(h)
  <2>1. /\ asked'[h]
        /\ UNCHANGED <<plan, root, group, failure, verdict, pc, result, permits>>
    BY <1>1 DEF Cancel, TypeOK, CallerOK
  <2>2. /\ (LiveStages(h))' = LiveStages(h)
        /\ (PermitHolders(h))' = PermitHolders(h)
        /\ (Width(h))' = Width(h)
        /\ (PassedStages(h))' = PassedStages(h)
    BY <2>1 DEF LiveStages, PermitHolders, Width, Current, PassedStages
  <2>3. (PlacedIn(h))' /\ (PermitsBalance(h))'
    BY <2>1, <2>2 DEF ScopeInv, PlacedIn, PermitsBalance
  <2>4. (SerialOrder(h))' /\ (FanOutTally(h))' /\ (AllPassed(h))'
    BY <2>1, <2>2 DEF ScopeInv, SerialOrder, FanOutTally, AllPassed
  <2>5. (Settled(h))' /\ (CauseKnown(h))'
    BY <2>1 DEF ScopeInv, Settled, CauseKnown
  <2> QED
    BY <2>3, <2>4, <2>5 DEF ScopeInv
<1>2. CASE Wait(h) \/ CallerStep(h) \/ Reap(h)
  <2>1. Same(h)
    BY <1>2 DEF Wait, CallerStep, WaitJoined, WaitCancelled, GraceElapsed, Detach, Reap,
                   Same
  <2> QED
    BY <2>1, SameScope
<1> QED
  BY <1>1, <1>2 DEF CallerWork

\* Every step keeps the invariant of every scope.
LEMMA ScopeStep ==
  ASSUME Counting, TypeOK, \A h \in Handles : ScopeInv(h), [Next]_vars, NEW k \in Handles
  PROVE  ScopeInv(k)'
<1>1. ASSUME NEW h \in Handles, k # h,
             \/ \E p \in Plans : Execute(h, p)
             \/ RootStep(h)
             \/ \E i \in Branch : StageWork(h, i) \/ RootPanics(h, i)
             \/ CallerWork(h)
      PROVE  ScopeInv(k)'
  BY <1>1, OthersSame, SameScope
<1>2. ASSUME \E p \in Plans : Execute(k, p) PROVE ScopeInv(k)'
  BY <1>2, ScopeExecute
<1>3. ASSUME RootStep(k) PROVE ScopeInv(k)'
  BY <1>3, ScopeExecute, ScopeAdmit, ScopeConclude, ScopeEnter, ScopeSerial, ScopeJoin DEF RootStep
<1>4. ASSUME NEW i \in Branch, StageWork(k, i) \/ RootPanics(k, i) PROVE ScopeInv(k)'
  BY <1>4, ScopeStage, ScopeSerial
<1>5. ASSUME CallerWork(k) PROVE ScopeInv(k)'
  BY <1>5, ScopeCaller
<1>6. ASSUME NEW n \in Names, ResetElapsed(n) PROVE ScopeInv(k)'
  <2>1. Same(k)
    BY <1>6 DEF ResetElapsed, Same, rootVars, stageVars
  <2> QED
    BY <2>1, SameScope
<1>7. CASE UNCHANGED vars
  <2>1. Same(k)
    BY <1>7 DEF vars, Same, rootVars, stageVars
  <2> QED
    BY <2>1, SameScope
<1> QED
  BY <1>1, <1>2, <1>3, <1>4, <1>5, <1>6, <1>7, StepCases

-----------------------------------------------------------------------------
(* The inductive step.                                                     *)

\* Before any execute call nothing runs and nothing is held.
LEMMA InitInv == Init => IInv
<1> SUFFICES ASSUME Init PROVE IInv
  OBVIOUS
<1>1. ASSUME NEW h \in Handles PROVE ScopeInv(h)
  <2>1. /\ root[h] = "unborn" /\ group[h] = 1 /\ failure[h] = "None" /\ verdict[h] = "None"
        /\ ~cancelled[h]
        /\ \A i \in Branch : pc[h][i] = "idle" /\ result[h][i] = "None"
    BY DEF Init
  <2>2. LiveStages(h) = {}
    BY <2>1 DEF LiveStages
  <2> QED
    BY <2>1, <2>2 DEF ScopeInv, PlacedIn, PermitsBalance, SerialOrder, FanOutTally, Settled,
                      CauseKnown, AllPassed
<1> QED
  BY <1>1, InitType DEF IInv

\* The inductive step.
LEMMA StepInv == Counting /\ IInv /\ [Next]_vars => IInv'
<1> SUFFICES ASSUME Counting, IInv, [Next]_vars PROVE IInv'
  OBVIOUS
<1>1. TypeOK /\ Placed /\ PermitsConserved
  BY DEF IInv, ScopeInv, Placed, PermitsConserved
<1>2. TypeOK'
  <2>1. CASE Next
    BY <1>1, <2>1, RootType, StageType, LogType, CallerType DEF TypeOK
  <2>2. CASE UNCHANGED vars
    <3>1. RootOK'
      BY <1>1, <2>2 DEF vars, rootVars, TypeOK, RootOK
    <3>2. StageOK'
      BY <1>1, <2>2 DEF vars, stageVars, TypeOK, StageOK
    <3>3. LogOK'
      BY <1>1, <2>2 DEF vars, stageVars, TypeOK, LogOK
    <3>4. CallerOK'
      BY <1>1, <2>2 DEF vars, callerVars, TypeOK, CallerOK
    <3> QED
      BY <3>1, <3>2, <3>3, <3>4 DEF TypeOK
  <2> QED
    BY <2>1, <2>2
<1>3. ASSUME NEW k \in Handles PROVE ScopeInv(k)'
  BY <1>1, ScopeStep DEF IInv
<1> QED
  BY <1>2, <1>3 DEF IInv

-----------------------------------------------------------------------------
(* Circuits.                                                               *)

\* What CircuitConsistent says of the entry c of the circuit of n.
EntryFits(n, c) ==
  IF c.opened = "closed"
  THEN c.failures > 0 => \E stage \in SharingStages(n) : c.failures < stage.circuit
  ELSE \E stage \in SharingStages(n) : c.failures >= stage.circuit

\* A stage of a plan with a circuit policy is one of those that share it.
LEMMA Sharing ==
  ASSUME TypeOK, Placed, NEW h \in Handles, NEW i \in LiveStages(h), StageOf(h, i).circuit # 0
  PROVE  StageOf(h, i) \in SharingStages(StageOf(h, i).name)
<1>1. /\ plan[h] \in Plans /\ group[h] \in DOMAIN plan[h] /\ i \in 1 .. Width(h)
      /\ StageOf(h, i).circuit > 0
  BY LiveStage
<1>2. i \in DOMAIN Current(h).stages
  BY <1>1, GroupType DEF Width, Group
<1> DEFINE InGroups(p) == UNION {{p[g].stages[k] : k \in DOMAIN p[g].stages} : g \in DOMAIN p}
<1>3. StageOf(h, i) \in InGroups(plan[h])
  BY <1>1, <1>2 DEF StageOf, Current
<1>4. StageOf(h, i) \in UNION {InGroups(p) : p \in Plans}
  BY <1>1, <1>3
<1> QED
  BY <1>1, <1>4 DEF SharingStages

\* check_circuit, record_circuit_success and record_circuit_failure keep an
\* entry consistent, and so does time.
LEMMA EntryKept ==
  ASSUME NEW n \in Names, NEW c \in CircuitState, EntryFits(n, c)
  PROVE  /\ EntryFits(n, Closed)
         /\ EntryFits(n, Admit(c))
         /\ Denies(c) => EntryFits(n, Elapse(c))
         /\ \A stage \in SharingStages(n) : EntryFits(n, RecordFailure(c, stage.circuit))
<1>1. EntryFits(n, Closed)
  BY DEF EntryFits, Closed
<1>2. EntryFits(n, Admit(c))
  BY <1>1 DEF Admit
<1>3. Denies(c) => EntryFits(n, Elapse(c))
  BY DEF Denies, Elapse, EntryFits, CircuitState
<1>4. \A stage \in SharingStages(n) : stage.circuit \in Nat
  <2>1. ASSUME NEW p \in Plans, NEW g \in DOMAIN p, NEW k \in DOMAIN p[g].stages
        PROVE  p[g].stages[k].circuit \in Nat
    <3>1. p[g] \in Group
      BY PlansAssumption
    <3>2. p[g].stages[k] \in Stage
      BY <3>1 DEF Group
    <3> QED
      BY <3>2 DEF Stage
  <2> QED
    BY <2>1 DEF SharingStages
<1>5. ASSUME NEW stage \in SharingStages(n)
      PROVE  EntryFits(n, RecordFailure(c, stage.circuit))
  <2> DEFINE d == RecordFailure(c, stage.circuit)
  <2>1. /\ c.failures \in Nat /\ stage.circuit \in Nat
        /\ d.failures = c.failures + 1
        /\ d.opened = IF c.failures + 1 >= stage.circuit THEN "open" ELSE c.opened
    BY <1>4 DEF CircuitState, RecordFailure
  <2> HIDE DEF d
  <2>2. CASE d.failures >= stage.circuit
    <3>1. d.opened # "closed"
      BY <2>1, <2>2
    <3> QED
      BY <2>2, <3>1 DEF EntryFits, d
  <2>3. CASE ~(d.failures >= stage.circuit)
    <3>1. d.opened = c.opened /\ d.failures < stage.circuit
      BY <2>1, <2>3
    <3>2. CASE c.opened = "closed"
      BY <3>1, <3>2 DEF EntryFits, d
    <3>3. CASE c.opened # "closed"
      <4>1. PICK other \in SharingStages(n) : c.failures >= other.circuit
        BY <3>3 DEF EntryFits
      <4>2. d.failures >= other.circuit
        BY <1>4, <2>1, <4>1
      <4> QED
        BY <3>1, <3>3, <4>2 DEF EntryFits, d
    <3> QED
      BY <3>2, <3>3
  <2> QED
    BY <2>2, <2>3
<1> QED
  BY <1>1, <1>2, <1>3, <1>5

\* A stage execution touches no circuit but that of its own stage, through
\* one of the three operations.
LEMMA CircuitMove ==
  ASSUME NEW h \in Handles, NEW i \in Branch, StageWork(h, i)
  PROVE  LET stage == StageOf(h, i)
             c     == circuits[stage.name]
         IN  \/ circuits' = circuits
             \/ \E d \in {Admit(c), Closed, RecordFailure(c, stage.circuit)} : Record(h, i, d)
<1>1. CASE \/ AcquirePermit(h, i) \/ DenyStage(h, i) \/ ContinueAttempts(h, i)
           \/ BackoffElapsed(h, i) \/ DeadlineElapsed(h, i) \/ Call(h, i) \/ ChildPanics(h, i)
  BY <1>1 DEF AcquirePermit, DenyStage, ContinueAttempts, BackoffElapsed, DeadlineElapsed, Call,
              ChildPanics
<1>2. CASE EnterStage(h, i)
  BY <1>2 DEF EnterStage
<1>3. CASE Succeed(h, i)
  BY <1>3 DEF Succeed, RecordSuccess
<1>4. ASSUME NEW r, Fail(h, i, r)
      PROVE  Record(h, i, RecordFailure(circuits[StageOf(h, i).name], StageOf(h, i).circuit))
  BY <1>4 DEF Fail
<1>5. CASE StopAttempts(h, i) \/ BackoffCancelled(h, i)
  BY <1>4, <1>5 DEF StopAttempts, BackoffCancelled
<1>6. ASSUME NEW r \in OperationResults, Return(h, i, r)
      PROVE  circuits' = circuits \/ Succeed(h, i) \/ Fail(h, i, r)
  BY <1>6 DEF Return
<1> QED
  BY <1>1, <1>2, <1>3, <1>4, <1>5, <1>6 DEF StageWork, StageStep

CInv == IInv /\ CircuitConsistent

\* Every step keeps the circuit table consistent.
LEMMA CircuitStep == Counting /\ CInv /\ [Next]_vars => CInv'
<1> SUFFICES ASSUME Counting, CInv, [Next]_vars PROVE CInv'
  OBVIOUS
<1>0. /\ IInv' /\ TypeOK /\ Placed /\ circuits \in [Names -> CircuitState]
      /\ \A n \in Names : EntryFits(n, circuits[n])
  BY StepInv DEF CInv, IInv, Placed, ScopeInv, TypeOK, CallerOK, CircuitConsistent, EntryFits
<1>1. SUFFICES \A n \in Names : EntryFits(n, circuits'[n])
  BY <1>0 DEF CInv, CircuitConsistent, EntryFits
<1>2. ASSUME circuits' = circuits PROVE \A n \in Names : EntryFits(n, circuits'[n])
  BY <1>0, <1>2
<1>3. ASSUME NEW n \in Names, NEW c, circuits' = [circuits EXCEPT ![n] = c], EntryFits(n, c)
      PROVE  \A m \in Names : EntryFits(m, circuits'[m])
  BY <1>0, <1>3
<1>4. ASSUME NEW n \in Names, ResetElapsed(n) PROVE \A m \in Names : EntryFits(m, circuits'[m])
  <2>1. circuits' = [circuits EXCEPT ![n] = Elapse(circuits[n])] /\ Denies(circuits[n])
    BY <1>4 DEF ResetElapsed
  <2> QED
    BY <1>0, <1>3, <2>1, EntryKept
<1>5. ASSUME NEW h \in Handles, NEW i \in Branch, StageWork(h, i)
      PROVE  \A m \in Names : EntryFits(m, circuits'[m])
  <2> DEFINE stage == StageOf(h, i)
  <2>1. i \in LiveStages(h)
    BY <1>5, StageMove, WorkingLive
  <2>2. stage.name \in Names
    BY <1>0, <2>1, LiveStage
  <2>3. ASSUME NEW d \in {Admit(circuits[stage.name]), Closed,
                          RecordFailure(circuits[stage.name], stage.circuit)},
               Record(h, i, d), stage.circuit # 0
        PROVE  \A m \in Names : EntryFits(m, circuits'[m])
    <3>1. stage \in SharingStages(stage.name)
      BY <1>0, <2>1, <2>3, Sharing
    <3>2. EntryFits(stage.name, d)
      BY <1>0, <2>2, <3>1, EntryKept
    <3> QED
      BY <1>3, <2>2, <2>3, <3>2 DEF Record
  <2> QED
    BY <1>2, <1>5, <2>3, CircuitMove DEF Record
<1>6. ASSUME NEW h \in Handles,
             \/ RootStep(h) \/ CallerWork(h)
             \/ \E p \in Plans : Execute(h, p)
             \/ \E i \in Branch : RootPanics(h, i)
      PROVE  circuits' = circuits
  BY <1>6, RootFrame, CallerFrame DEF Execute, RootPanics
<1>7. CASE UNCHANGED vars
  BY <1>2, <1>7 DEF vars
<1> QED
  BY <1>2, <1>4, <1>5, <1>6, <1>7, StepCases
=============================================================================
