-------------------------- MODULE PipelineEvidence --------------------------
(***************************************************************************)
(* What a successful outcome of Pipeline carries: the success of every     *)
(* stage, through the log of a serial group, through the private logs of   *)
(* fan-out children and their join, and through the snapshot that wait()   *)
(* returns; and the outputs that a fan-out merges.  The invariants of      *)
(* PipelineRecords are combined here with this one over all scopes.        *)
(***************************************************************************)
EXTENDS PipelineRecords, PipelineSafety

USE EventCapacityAssumption, SMTT(4), ZenonT(10), SMTT(20), ZenonT(40), SMTT(40)

Success(stage) == Event("StageSucceeded", stage.name, 0, "")

\* s shows the success of every stage of the groups that were passed.
PassedShown(h, s) ==
  \A g \in DOMAIN plan[h] :
    g < group[h] => \A k \in DOMAIN plan[h][g].stages : Mentions(s, Success(plan[h][g].stages[k]))

\* s shows the success of stage execution i.
Shown(h, i, s) == Room(s) => Mentions(s, Success(StageOf(h, i)))

\* Within a group a success is in the root's log, or still in its child's.
StagesShown(h) ==
  \A i \in Branch : result[h][i] = "Ok" =>
    /\ root[h] = "serial" /\ pc[h][i] \in {"finished", "joined"} => Shown(h, i, log[h])
    /\ root[h] = "fanout" /\ pc[h][i] = "joined" => Shown(h, i, log[h])
    /\ root[h] = "fanout" /\ pc[h][i] = "finished" => Shown(h, i, childLog[h][i])

\* A success has passed every group and is recorded before it is returned,
\* with the evidence that wait() hands out.
EndShown(h) ==
  /\ verdict[h] = "Ok" =>
       /\ root[h] \in {"finishing", "snapshot", "done"} /\ group[h] > Len(plan[h])
       /\ root[h] # "finishing" /\ Room(log[h]) => Mentions(log[h], ScopeEvent("Completed"))
       /\ root[h] = "done" /\ answer[h] \in {"None", "Ok"} /\ Room(evidence[h]) =>
            PassedShown(h, evidence[h]) /\ Mentions(evidence[h], ScopeEvent("Completed"))
  /\ answer[h] = "Ok" => verdict[h] = "Ok" /\ root[h] = "done"

EvidenceInv(h) ==
  /\ Room(log[h]) => PassedShown(h, log[h])
  /\ StagesShown(h)
  /\ EndShown(h)

\* Which steps pass a group, and over which successes.
LEMMA GroupPassed ==
  ASSUME TypeOK, NEW h \in Handles, ScopeInv(h), StagesShown(h), ScopeWork(h),
         group'[h] # group[h]
  PROVE  /\ plan' = plan /\ group[h] \in DOMAIN plan[h]
         /\ group[h] \in Nat /\ group'[h] = group[h] + 1
         /\ \A i \in 1 .. Width(h) : Shown(h, i, log[h])
<1> USE DEF rootVars, stageVars
<1>0. group \in [Handles -> Nat \ {0}]
  BY DEF TypeOK, RootOK
<1>1. CASE EmptySerial(h)
  <2>1. group[h] \in DOMAIN plan[h] /\ Width(h) = 0
    BY <1>1 DEF EmptySerial, EnterGroup, ScopeInv, PlacedIn
  <2>2. plan' = plan /\ group'[h] = group[h] + 1
    BY <1>0, <1>1 DEF EmptySerial
  <2> QED
    BY <1>0, <2>1, <2>2
<1>2. ASSUME root[h] \in {"serial", "fanout"}
      PROVE  /\ group[h] \in DOMAIN plan[h] /\ Width(h) \in Nat
             /\ \A j \in 1 .. Width(h) : j \in Branch
  <2>1. group[h] \in DOMAIN plan[h]
    BY <1>2 DEF ScopeInv, PlacedIn
  <2>2. Width(h) \in Nat /\ Width(h) <= MaxStages
    BY <2>1, GroupType
  <2> QED
    BY <2>1, <2>2, Bounds DEF Branch
<1>3. ASSUME NEW i \in Branch, SerialDone(h, i)
      PROVE  /\ plan' = plan /\ group[h] \in DOMAIN plan[h] /\ group'[h] = group[h] + 1
             /\ \A j \in 1 .. Width(h) : Shown(h, j, log[h])
  <2>1. /\ plan' = plan /\ group'[h] = group[h] + 1 /\ root[h] = "serial"
        /\ pc[h][i] = "finished" /\ result[h][i] = "Ok" /\ i = Width(h)
    BY <1>0, <1>3 DEF SerialDone
  <2>2. i \in LiveStages(h)
    BY <2>1 DEF LiveStages
  <2>3. \A j \in Branch : j < i => pc[h][j] = "joined" /\ result[h][j] = "Ok"
    BY <2>1, <2>2 DEF ScopeInv, SerialOrder
  <2>4. \A j \in 1 .. Width(h) : j \in Branch /\ (j < i \/ j = i)
    BY <1>2, <2>1
  <2> QED
    BY <1>2, <2>1, <2>3, <2>4 DEF StagesShown
<1>4. CASE FanOutJoined(h)
  <2>1. /\ plan' = plan /\ group'[h] = group[h] + 1 /\ root[h] = "fanout"
        /\ AllJoined(h) /\ failure[h] = "None"
    BY <1>0, <1>4 DEF FanOutJoined
  <2>2. \A j \in 1 .. Width(h) : pc[h][j] = "joined" /\ result[h][j] = "Ok"
    BY <1>2, <2>1 DEF AllJoined, ScopeInv, FanOutTally
  <2> QED
    BY <1>0, <1>2, <2>1, <2>2 DEF StagesShown
<1>5. CASE \/ Start(h) \/ ObserveCancellation(h) \/ AdmitGroup(h) \/ MissingInput(h)
           \/ GroupsExhausted(h) \/ StartSerial(h) \/ StartFanOut(h) \/ FanOutFailed(h)
           \/ Finish(h) \/ Snapshot(h)
  BY <1>5 DEF Start, ObserveCancellation, AdmitGroup, MissingInput, GroupsExhausted, Conclude,
              StartSerial, StartFanOut, FanOutFailed, Finish, Snapshot
<1>6. ASSUME NEW i \in Branch, \/ SerialContinue(h, i) \/ SerialFailed(h, i) \/ JoinOk(h, i)
                               \/ JoinError(h, i) \/ RootPanics(h, i)
      PROVE  FALSE
  BY <1>6 DEF SerialContinue, SerialFailed, JoinOk, JoinError, JoinChild, RootPanics
<1>7. CASE (\E p \in Plans : Execute(h, p)) \/ CallerWork(h)
  BY <1>7, CallerFrame DEF Execute
<1>8. ASSUME NEW i \in Branch, StageWork(h, i) PROVE FALSE
  BY <1>8, StageMove
<1> QED
  BY <1>0, <1>1, <1>3, <1>4, <1>5, <1>6, <1>7, <1>8 DEF ScopeWork, RootStep

\* The log goes on showing the successes of the groups that were passed.
LEMMA PassedStep ==
  ASSUME IInv, IInv', NEW h \in Handles, EvidenceInv(h), ScopeWork(h), Room(log'[h])
  PROVE  PassedShown(h, log[h])'
<1>0. /\ TypeOK /\ TypeOK' /\ Placed /\ ScopeInv(h)
  BY DEF IInv, Placed, ScopeInv
<1>1. Grows(log[h], log'[h]) /\ Room(log[h]) /\ PassedShown(h, log[h]) /\ StagesShown(h)
  BY <1>0, LogGrows DEF Grows, EvidenceInv
<1>2. \A x : Mentions(log[h], x) => Mentions(log'[h], x)
  BY <1>1 DEF Grows
<1>3. CASE plan'[h] = plan[h] /\ group'[h] = group[h]
  BY <1>1, <1>2, <1>3 DEF PassedShown
<1>4. CASE group'[h] # group[h]
  <2>1. /\ plan' = plan /\ group[h] \in DOMAIN plan[h]
        /\ group[h] \in Nat /\ group'[h] = group[h] + 1
        /\ \A i \in 1 .. Width(h) : Shown(h, i, log[h])
    BY <1>0, <1>1, <1>4, GroupPassed
  <2>2. DOMAIN Current(h).stages = 1 .. Width(h)
    BY <1>0, <2>1, GroupType DEF Group, Width
  <2>3. \A k \in DOMAIN plan[h][group[h]].stages :
          Mentions(log[h], Success(plan[h][group[h]].stages[k]))
    BY <1>1, <2>1, <2>2 DEF Shown, StageOf, Current
  <2>4. DOMAIN plan[h] \subseteq Nat
    <3>1. plan[h] \in Seq(Group)
      BY <1>0, <2>1, GroupType, PlansAssumption
    <3> QED
      BY <3>1, SeqLength
  <2>5. \A g \in DOMAIN plan[h] : g < group'[h] => g < group[h] \/ g = group[h]
    BY <2>1, <2>4
  <2> QED
    BY <1>1, <1>2, <2>1, <2>3, <2>5 DEF PassedShown
<1>5. CASE group'[h] = group[h] /\ plan'[h] # plan[h]
  <2>1. PICK p \in Plans : Execute(h, p)
    <3>1. CASE RootStep(h)
      BY <1>5, <3>1, RootFrame
    <3>2. CASE CallerWork(h)
      BY <1>5, <3>2, CallerFrame
    <3>3. ASSUME NEW i \in Branch, StageWork(h, i) PROVE FALSE
      BY <1>5, <3>3, StageMove
    <3>4. ASSUME NEW i \in Branch, RootPanics(h, i) PROVE FALSE
      BY <1>5, <3>4 DEF RootPanics
    <3> QED
      BY <3>1, <3>2, <3>3, <3>4 DEF ScopeWork
  <2>2. group[h] = 1
    BY <1>0, <2>1 DEF Execute, ScopeInv, Settled
  <2>3. plan'[h] = p
    BY <1>0, <2>1 DEF Execute, TypeOK, RootOK
  <2>4. \A g \in DOMAIN p : ~(g < 1)
    <3>1. p \in Seq(Group)
      BY PlansAssumption
    <3>2. DOMAIN p = 1 .. Len(p) /\ Len(p) \in Nat
      BY <3>1, SeqLength
    <3> QED
      BY <3>2
  <2> QED
    BY <1>5, <2>2, <2>3, <2>4 DEF PassedShown
<1> QED
  BY <1>3, <1>4, <1>5

\* Within its group, what a stage execution succeeded in stays on record: the
\* root's log keeps it, and a join moves it there from the child's log.
LEMMA StagesStep ==
  ASSUME IInv, IInv', NEW h \in Handles, EvidenceInv(h), ScopeWork(h)
  PROVE  StagesShown(h)'
<1> USE DEF rootVars, stageVars
<1>0. /\ TypeOK /\ Placed /\ StagesShown(h) /\ ScopeInv(h)
      /\ pc \in [Handles -> [Branch -> StagePoints]]
      /\ result \in [Handles -> [Branch -> StageErrors \cup {"None", "Ok"}]]
      /\ log \in [Handles -> Seq(Events)] /\ Bounded(log[h])
      /\ childLog \in [Handles -> [Branch -> Seq(Events)]]
      /\ \A i \in Branch : Bounded(childLog[h][i])
  BY DEF IInv, TypeOK, StageOK, LogOK, Placed, ScopeInv, EvidenceInv
<1>1. CASE root'[h] \notin {"serial", "fanout"}
  BY <1>1 DEF StagesShown
<1>2. CASE root'[h] \in {"serial", "fanout"}
  <2>0. plan' = plan /\ group' = group
    BY <1>0, <1>2, GroupStep
  <2>1. \A i : Success(StageOf(h, i))' = Success(StageOf(h, i))
    BY <2>0 DEF Success, StageOf, Current
  <2>2. Grows(log[h], log'[h])
    BY <1>0, LogGrows
  <2>3. \A i : Shown(h, i, log[h]) => Shown(h, i, log[h])'
    BY <2>1, <2>2 DEF Shown, Grows
  <2>4. CASE StartSerial(h) \/ StartFanOut(h)
    <3>1. result' = [result EXCEPT ![h] = [i \in Branch |-> "None"]]
      BY <2>4 DEF StartSerial, StartFanOut, EnterStages
    <3> QED
      BY <1>0, <3>1 DEF StagesShown
  <2>5. ASSUME NEW i \in Branch, SerialContinue(h, i) PROVE StagesShown(h)'
    <3>1. /\ root[h] = "serial" /\ root' = root /\ result' = result
          /\ pc[h][i] = "finished"
          /\ pc'[h] = [pc[h] EXCEPT ![i] = "joined", ![i + 1] = "enter"]
      BY <1>0, <2>5 DEF SerialContinue
    <3>2. \A j \in Branch : pc'[h][j] \in {"finished", "joined"} =>
                              pc[h][j] \in {"finished", "joined"}
      BY <1>0, <3>1
    <3> QED
      BY <1>0, <2>3, <3>1, <3>2 DEF StagesShown
  <2>6. ASSUME NEW i \in Branch, JoinOk(h, i) \/ JoinError(h, i) PROVE StagesShown(h)'
    <3>1. /\ root[h] = "fanout" /\ root' = root /\ result' = result
          /\ pc[h][i] = "finished"
          /\ pc' = [pc EXCEPT ![h][i] = "joined"]
          /\ log' = [log EXCEPT ![h] = Extend(log[h], childLog[h][i])]
          /\ childLog' = [childLog EXCEPT ![h][i] = <<>>]
      BY <1>0, <2>6 DEF JoinOk, JoinError, JoinChild
    <3>2. /\ log'[h] = Extend(log[h], childLog[h][i])
          /\ \A j \in Branch : pc'[h][j] = IF j = i THEN "joined" ELSE pc[h][j]
          /\ \A j \in Branch : j # i => childLog'[h][j] = childLog[h][j]
      BY <1>0, <3>1
    <3>3. ASSUME result[h][i] = "Ok" PROVE Shown(h, i, log[h])'
      <4>1. Shown(h, i, childLog[h][i])
        BY <1>0, <3>1, <3>3 DEF StagesShown
      <4>2. \A x : Adds(log[h], childLog[h][i], log'[h], x)
        BY <1>0, <3>2, ExtendMentions
      <4> QED
        BY <2>1, <4>1, <4>2 DEF Adds, Shown
    <3>4. \A j \in Branch : j # i => (Shown(h, j, childLog[h][j]))' = Shown(h, j, childLog[h][j])
      BY <2>1, <3>2 DEF Shown
    <3> QED
      BY <1>0, <2>3, <3>1, <3>2, <3>3, <3>4 DEF StagesShown
  <2>7. ASSUME NEW i \in Branch, StageWork(h, i) PROVE StagesShown(h)'
    <3>0. /\ root' = root /\ pc[h][i] \in Working /\ i \in LiveStages(h)
          /\ root[h] \in {"serial", "fanout"}
      BY <1>0, <2>7, StageMove, WorkingLive, LiveStage
    <3>1. ASSUME \A j \in Branch : j # i => /\ pc'[h][j] = pc[h][j]
                                            /\ result'[h][j] = result[h][j]
                                            /\ childLog'[h][j] = childLog[h][j],
                 pc'[h][i] # "joined",
                 result'[h][i] = "Ok" /\ pc'[h][i] = "finished" =>
                   IF root[h] = "serial" THEN Shown(h, i, log[h])'
                                         ELSE Shown(h, i, childLog[h][i])'
          PROVE  StagesShown(h)'
      <4>1. \A j \in Branch : j # i => (Shown(h, j, childLog[h][j]))' = Shown(h, j, childLog[h][j])
        BY <2>1, <3>1 DEF Shown
      <4> QED
        BY <1>0, <2>3, <3>0, <3>1, <4>1 DEF StagesShown
    <3>2. CASE Quiet(h, i)
      <4>1. PICK point \in StagePoints :
              /\ pc' = [pc EXCEPT ![h][i] = point] /\ point # "joined"
              /\ point = "finished" => \E r \in StageErrors : result' = [result EXCEPT ![h][i] = r]
        BY <3>2 DEF Quiet
      <4>2. /\ childLog' = childLog
            /\ result' = result \/ \E r \in StageErrors : result' = [result EXCEPT ![h][i] = r]
        BY <3>2 DEF Quiet
      <4>3. point = "finished" => result'[h][i] # "Ok"
        BY <1>0, <4>1 DEF StageErrors
      <4> QED
        BY <1>0, <3>1, <4>1, <4>2, <4>3
    <3>3. CASE Call(h, i)
      <4>1. pc' = [pc EXCEPT ![h][i] = "running"] /\ result' = result
        BY <3>3 DEF Call, Goto
      <4>2. PICK e : Emit(h, i, e)
        BY <3>3 DEF Call
      <4>3. \A j \in Branch : j # i => childLog'[h][j] = childLog[h][j]
        BY <1>0, <4>2 DEF Emit
      <4> QED
        BY <1>0, <3>1, <4>1, <4>3
    <3>4. ASSUME NEW e, NEW r, Emit(h, i, e), pc' = [pc EXCEPT ![h][i] = "finished"],
                 result' = [result EXCEPT ![h][i] = r],
                 r = "Ok" => e = Success(StageOf(h, i)) /\ e \in Events
          PROVE  StagesShown(h)'
      <4>1. \A j \in Branch : j # i => childLog'[h][j] = childLog[h][j]
        BY <1>0, <3>4 DEF Emit
      <4>2. ASSUME r = "Ok", root[h] = "serial" PROVE Shown(h, i, log[h])'
        <5>1. log'[h] = Push(log[h], e)
          BY <1>0, <3>4, <4>2 DEF Emit
        <5>2. AddsOne(log[h], e, log'[h], e)
          BY <1>0, <3>4, <4>2, <5>1, PushMentions
        <5> QED
          BY <2>1, <3>4, <4>2, <5>2 DEF AddsOne, Shown
      <4>3. ASSUME r = "Ok", root[h] # "serial" PROVE Shown(h, i, childLog[h][i])'
        <5>1. childLog'[h][i] = Push(childLog[h][i], e)
          BY <1>0, <3>4, <4>3 DEF Emit
        <5>2. AddsOne(childLog[h][i], e, childLog'[h][i], e)
          BY <1>0, <3>4, <4>3, <5>1, PushMentions
        <5> QED
          BY <2>1, <3>4, <4>3, <5>2 DEF AddsOne, Shown
      <4> QED
        BY <1>0, <3>1, <3>4, <4>1, <4>2, <4>3
    <3>5. CASE Succeed(h, i)
      <4>1. "Fatal" \in StageErrors
        BY DEF StageErrors
      <4>2. Success(StageOf(h, i)) \in Events
        BY <1>0, <3>0, <4>1, PushedEvents DEF PlainEvents, Success
      <4> QED
        BY <3>4, <3>5, <4>2 DEF Succeed, Leave, Success
    <3>6. ASSUME NEW r \in StageErrors, Fail(h, i, r) PROVE StagesShown(h)'
      BY <3>4, <3>6 DEF Fail, Leave, StageErrors
    <3>7. CASE ChildPanics(h, i)
      <4>1. /\ pc' = [pc EXCEPT ![h][i] = "finished"]
            /\ result' = [result EXCEPT ![h][i] = "Join"]
            /\ childLog' = [childLog EXCEPT ![h][i] = <<>>]
        BY <3>7 DEF ChildPanics, Leave
      <4>2. /\ pc'[h][i] = "finished" /\ result'[h][i] = "Join"
            /\ \A j \in Branch : j # i => /\ pc'[h][j] = pc[h][j]
                                         /\ result'[h][j] = result[h][j]
                                         /\ childLog'[h][j] = childLog[h][j]
        BY <1>0, <4>1
      <4> QED
        BY <3>1, <4>2
    <3> QED
      BY <2>7, <3>2, <3>3, <3>5, <3>6, <3>7, StageRecord
  <2>8. CASE CallerWork(h)
    <3>1. UNCHANGED <<root, pc, result, childLog>>
      BY <2>8, CallerFrame
    <3>2. \A j \in Branch : (Shown(h, j, childLog[h][j]))' = Shown(h, j, childLog[h][j])
      BY <2>1, <3>1 DEF Shown
    <3> QED
      BY <1>0, <2>3, <3>1, <3>2 DEF StagesShown
  <2> QED
    BY <1>0, <1>2, <2>4, <2>5, <2>6, <2>7, <2>8, GroupStep
<1> QED
  BY <1>1, <1>2

\* The caller waits for a root that was spawned, enters the grace period of a
\* cancelled scope only, and has no answer before wait() ends; the supervisor
\* has a root only once the caller is gone.
CallerInv(h) ==
  /\ waiter[h] # "holding" => root[h] # "unborn"
  /\ waiter[h] \in {"grace", "leaving"} => cancelled[h]
  /\ waiter[h] \in {"holding", "waiting", "grace", "leaving"} => answer[h] = "None"
  /\ supervised[h] => waiter[h] = "detached"

\* Every step of a scope keeps this of its caller.
LEMMA CallerKept ==
  ASSUME TypeOK, NEW h \in Handles, CallerInv(h), ScopeWork(h)
  PROVE  CallerInv(h)'
<1> USE DEF rootVars, stageVars, callerVars, CallerInv
<1>0. /\ root \in [Handles -> RootPoints]
      /\ cancelled \in [Handles -> BOOLEAN]
      /\ waiter \in [Handles -> WaiterPoints]
      /\ answer \in [Handles -> StageErrors \cup {"None", "Ok"}]
      /\ supervised \in [Handles -> BOOLEAN]
  BY DEF TypeOK, RootOK, CallerOK
<1>1. ASSUME NEW p \in Plans, Execute(h, p) PROVE CallerInv(h)'
  BY <1>0, <1>1 DEF Execute
<1>2. CASE RootStep(h)
  <2>1. waiter' = waiter /\ answer' = answer /\ supervised' = supervised
    BY <1>2, RootFrame
  <2>2. CASE \/ Start(h) \/ ObserveCancellation(h) \/ AdmitGroup(h) \/ MissingInput(h)
             \/ GroupsExhausted(h) \/ EmptySerial(h) \/ FanOutFailed(h) \/ FanOutJoined(h)
             \/ Finish(h) \/ Snapshot(h)
    BY <1>0, <2>1, <2>2 DEF Start, ObserveCancellation, AdmitGroup, MissingInput,
       GroupsExhausted, Conclude, EmptySerial, FanOutFailed, FanOutJoined, Finish, Snapshot
  <2>3. CASE StartSerial(h) \/ StartFanOut(h)
    BY <1>0, <2>1, <2>3 DEF StartSerial, StartFanOut
  <2>4. ASSUME NEW i \in Branch,
               SerialContinue(h, i) \/ SerialDone(h, i) \/ SerialFailed(h, i)
        PROVE  CallerInv(h)'
    BY <1>0, <2>1, <2>4 DEF SerialContinue, SerialDone, SerialFailed
  <2>5. ASSUME NEW i \in Branch, JoinOk(h, i) \/ JoinError(h, i) PROVE CallerInv(h)'
    BY <1>0, <2>1, <2>5 DEF JoinOk, JoinError, JoinChild
  <2> QED
    BY <1>2, <2>2, <2>3, <2>4, <2>5 DEF RootStep
<1>3. ASSUME NEW i \in Branch, StageWork(h, i) PROVE CallerInv(h)'
  BY <1>3, StageMove
<1>4. ASSUME NEW i \in Branch, RootPanics(h, i) PROVE CallerInv(h)'
  BY <1>0, <1>4 DEF RootPanics
<1>5. CASE CallerWork(h)
  <2>1. CASE Cancel(h) \/ Wait(h) \/ WaitCancelled(h) \/ GraceElapsed(h)
    BY <1>0, <2>1 DEF Cancel, Wait, WaitCancelled, GraceElapsed
  <2>2. CASE WaitJoined(h) \/ Detach(h) \/ Reap(h)
    BY <1>0, <2>2 DEF WaitJoined, Detach, Reap
  <2> QED
    BY <1>5, <2>1, <2>2 DEF CallerWork, CallerStep
<1> QED
  BY <1>1, <1>2, <1>3, <1>4, <1>5 DEF ScopeWork

\* A success is on record before it is returned, and with it the successes of
\* all groups: run pushes Completed, then takes the events wait() returns.
LEMMA EndStep ==
  ASSUME IInv, IInv', NEW h \in Handles, EvidenceInv(h), CallerInv(h), ScopeWork(h)
  PROVE  EndShown(h)'
<1> USE DEF rootVars, stageVars, callerVars
<1>0. /\ TypeOK /\ Placed /\ EndShown(h) /\ ScopeInv(h)
      /\ root \in [Handles -> RootPoints]
      /\ verdict \in [Handles -> StageErrors \cup {"None", "Ok"}]
      /\ answer \in [Handles -> StageErrors \cup {"None", "Ok"}]
      /\ log \in [Handles -> Seq(Events)] /\ Bounded(log[h])
      /\ evidence \in [Handles -> Seq(Events)]
  BY DEF IInv, TypeOK, RootOK, CallerOK, LogOK, Placed, ScopeInv, EvidenceInv
<1>1. Grows(log[h], log'[h])
  BY <1>0, LogGrows
<1>2. ASSUME verdict'[h] # "Ok", answer'[h] # "Ok" PROVE EndShown(h)'
  BY <1>2 DEF EndShown
<1>3. root[h] \notin {"finishing", "snapshot", "done"} => verdict[h] # "Ok" /\ answer[h] # "Ok"
  BY <1>0 DEF EndShown
<1>4. root[h] # "done" => answer[h] # "Ok"
  BY <1>0 DEF EndShown
<1>5. ASSUME NEW p \in Plans, Execute(h, p) PROVE EndShown(h)'
  BY <1>2, <1>3, <1>5 DEF Execute
<1>6. CASE RootStep(h)
  <2>1. answer' = answer
    BY <1>6, RootFrame
  <2>2. CASE GroupsExhausted(h)
    <3>1. /\ root[h] = "group" /\ group[h] > Len(plan[h])
          /\ root' = [root EXCEPT ![h] = "finishing"]
          /\ plan' = plan /\ group' = group
      BY <2>2 DEF GroupsExhausted, Conclude
    <3>2. answer'[h] # "Ok" /\ root'[h] = "finishing"
      BY <1>0, <1>3, <2>1, <3>1
    <3> QED
      BY <3>1, <3>2 DEF EndShown
  <2>3. CASE Finish(h)
    <3>1. /\ root[h] = "finishing" /\ root'[h] = "snapshot"
          /\ UNCHANGED <<plan, group, verdict>>
          /\ verdict[h] = "Ok" => log'[h] = Push(log[h], ScopeEvent("Completed"))
      BY <1>0, <2>3 DEF Finish
    <3>2. ScopeEvent("Completed") \in Events
      BY <1>0, PushedEvents DEF PlainEvents
    <3>3. verdict[h] = "Ok" /\ Room(log'[h]) => Mentions(log'[h], ScopeEvent("Completed"))
      <4> DEFINE e == ScopeEvent("Completed")
      <4>1. AddsOne(log[h], e, Push(log[h], e), e)
        BY <1>0, <3>2, PushMentions
      <4> QED
        BY <3>1, <4>1 DEF AddsOne
    <3>4. answer'[h] # "Ok"
      BY <1>4, <2>1, <3>1
    <3> QED
      BY <1>0, <3>1, <3>3, <3>4 DEF EndShown
  <2>4. CASE Snapshot(h)
    <3>1. /\ root[h] = "snapshot" /\ root'[h] = "done"
          /\ UNCHANGED <<plan, group, verdict, log>>
          /\ answer[h] = "None" => evidence'[h] = log[h]
      BY <1>0, <2>4 DEF Snapshot
    <3>2. answer'[h] # "Ok"
      BY <1>4, <2>1, <3>1
    <3>3. Room(log[h]) => PassedShown(h, log[h])
      BY DEF EvidenceInv
    <3>4. ASSUME verdict[h] = "Ok", answer'[h] \in {"None", "Ok"}, Room(evidence'[h])
          PROVE  /\ PassedShown(h, evidence[h])'
                 /\ Mentions(evidence'[h], ScopeEvent("Completed"))
      <4>1. evidence'[h] = log[h]
        BY <2>1, <3>1, <3>2, <3>4
      <4> QED
        BY <1>0, <3>1, <3>3, <3>4, <4>1 DEF EndShown, PassedShown
    <3> QED
      BY <1>0, <3>1, <3>2, <3>4 DEF EndShown
  <2>5. ASSUME root[h] \notin {"finishing", "snapshot", "done"}, verdict'[h] # "Ok"
        PROVE  EndShown(h)'
    BY <1>2, <1>3, <2>1, <2>5
  <2>6. CASE \/ Start(h) \/ ObserveCancellation(h) \/ AdmitGroup(h) \/ MissingInput(h)
             \/ EmptySerial(h) \/ StartSerial(h) \/ StartFanOut(h)
             \/ FanOutFailed(h) \/ FanOutJoined(h)
    <3>1. failure[h] # "Ok"
      BY DEF TypeOK, RootOK, IInv, StageErrors
    <3> QED
      BY <1>0, <1>3, <2>5, <2>6, <3>1 DEF Start, ObserveCancellation, AdmitGroup, MissingInput,
         Conclude, EmptySerial, StartSerial, StartFanOut, EnterGroup, FanOutFailed, FanOutJoined
  <2>7. ASSUME NEW i \in Branch,
               \/ SerialContinue(h, i) \/ SerialDone(h, i) \/ SerialFailed(h, i)
               \/ JoinOk(h, i) \/ JoinError(h, i)
        PROVE  EndShown(h)'
    BY <1>0, <1>3, <2>5, <2>7 DEF SerialContinue, SerialDone, SerialFailed, JoinOk, JoinError,
       JoinChild
  <2> QED
    BY <1>6, <2>2, <2>3, <2>4, <2>6, <2>7 DEF RootStep
<1>7. ASSUME NEW i \in Branch, StageWork(h, i) PROVE EndShown(h)'
  <2>1. root[h] \in {"serial", "fanout"}
    BY <1>0, <1>7, StageMove, WorkingLive, LiveStage
  <2>2. UNCHANGED <<verdict, answer>>
    BY <1>7, StageMove
  <2> QED
    BY <1>2, <1>3, <2>1, <2>2
<1>8. ASSUME NEW i \in Branch, RootPanics(h, i) PROVE EndShown(h)'
  <2>1. root[h] = "serial" /\ answer' = answer /\ verdict'[h] = "Join"
    BY <1>0, <1>8 DEF RootPanics
  <2> QED
    BY <1>2, <1>3, <2>1
<1>9. CASE CallerWork(h)
  <2>1. UNCHANGED <<plan, root, group, verdict>>
    BY <1>9, CallerFrame
  <2>2. verdict[h] = "Ok" =>
          /\ root'[h] \in {"finishing", "snapshot", "done"} /\ group'[h] > Len(plan'[h])
          /\ root'[h] # "finishing" /\ Room(log'[h]) => Mentions(log'[h], ScopeEvent("Completed"))
    BY <1>0, <1>1, <2>1 DEF EndShown, Grows
  <2>3. ASSUME evidence'[h] = evidence[h], answer'[h] \in {"None", "Ok"} => answer[h] \in {"None", "Ok"},
               answer'[h] = "Ok" => verdict[h] = "Ok" /\ root[h] = "done"
        PROVE  EndShown(h)'
    BY <1>0, <2>1, <2>2, <2>3 DEF EndShown, PassedShown
  <2>4. CASE Cancel(h) \/ Wait(h) \/ WaitCancelled(h) \/ GraceElapsed(h) \/ Reap(h)
    <3>1. UNCHANGED <<answer, evidence>>
      BY <2>4 DEF Cancel, Wait, WaitCancelled, GraceElapsed, Reap
    <3> QED
      BY <1>0, <2>3, <3>1 DEF EndShown
  <2>5. CASE WaitJoined(h)
    <3>1. /\ answer[h] = "None" /\ answer'[h] = verdict[h] /\ Ended(h)
          /\ evidence'[h] = IF root[h] = "panicked" THEN log[h] ELSE evidence[h]
      BY <1>0, <2>5 DEF WaitJoined, CallerInv
    <3>2. CASE verdict[h] = "Ok"
      <4>1. root[h] = "done"
        BY <1>0, <3>1, <3>2 DEF EndShown, Ended
      <4> QED
        BY <2>3, <3>1, <3>2, <4>1
    <3>3. CASE verdict[h] # "Ok"
      BY <1>2, <2>1, <3>1, <3>3
    <3> QED
      BY <3>2, <3>3
  <2>6. CASE Detach(h)
    <3>1. answer'[h] = "Cancelled"
      BY <1>0, <2>6 DEF Detach
    <3> QED
      BY <2>1, <2>2, <3>1 DEF EndShown
  <2> QED
    BY <1>9, <2>4, <2>5, <2>6 DEF CallerWork, CallerStep
<1> QED
  BY <1>5, <1>6, <1>7, <1>8, <1>9 DEF ScopeWork

-----------------------------------------------------------------------------
(* The records of all scopes.                                              *)

RecordInv(h) == AttemptInv(h) /\ CancelledInv(h) /\ EvidenceInv(h) /\ CallerInv(h)

RInv == IInv /\ \A h \in Handles : RecordInv(h)

\* A step that leaves a scope and its records as they are keeps what holds of
\* the records.
LEMMA SameRecordInv ==
  ASSUME NEW k \in Handles, Same(k), SameRecords(k), RecordInv(k)
  PROVE  RecordInv(k)'
<1> USE DEF Same, SameRecords
<1>1. \A i : (StageOf(k, i))' = StageOf(k, i)
  BY DEF StageOf, Current
<1>2. AttemptInv(k)'
  BY <1>1 DEF RecordInv, AttemptInv, LiveStages
<1>3. CancelledInv(k)'
  BY DEF RecordInv, CancelledInv
<1>4. CallerInv(k)'
  BY DEF RecordInv, CallerInv
<1>5. /\ PassedShown(k, log[k])' <=> PassedShown(k, log[k])
      /\ PassedShown(k, evidence[k])' <=> PassedShown(k, evidence[k])
  BY DEF PassedShown
<1>6. \A i \in Branch : /\ Shown(k, i, log[k])' <=> Shown(k, i, log[k])
                        /\ Shown(k, i, childLog[k][i])' <=> Shown(k, i, childLog[k][i])
  BY <1>1 DEF Shown
<1>7. StagesShown(k)'
  BY <1>6 DEF RecordInv, EvidenceInv, StagesShown
<1>8. EndShown(k)'
  BY <1>5 DEF RecordInv, EvidenceInv, EndShown
<1> QED
  BY <1>2, <1>3, <1>4, <1>5, <1>7, <1>8 DEF RecordInv, EvidenceInv

\* Before execute() there is nothing on record.
LEMMA InitRecords == ASSUME Init, NEW h \in Handles PROVE RecordInv(h)
<1>1. /\ root[h] = "unborn" /\ group[h] = 1 /\ plan[h] = <<>> /\ verdict[h] = "None"
      /\ log[h] = <<>> /\ answer[h] = "None" /\ waiter[h] = "holding" /\ ~supervised[h]
      /\ \A i \in Branch : pc[h][i] = "idle" /\ result[h][i] = "None" /\ childLog[h][i] = <<>>
  BY DEF Init
<1>2. AttemptInv(h)
  BY <1>1 DEF AttemptInv, LiveStages, BeforeAttempt
<1>3. CancelledInv(h)
  BY <1>1 DEF CancelledInv, AtMostOnce, Mentions
<1>4. EvidenceInv(h)
  BY <1>1 DEF EvidenceInv, PassedShown, StagesShown, EndShown
<1> QED
  BY <1>1, <1>2, <1>3, <1>4 DEF RecordInv, CallerInv

\* A step is of one scope, or leaves every scope and its records alone.
LEMMA StepScopes ==
  ASSUME TypeOK, [Next]_vars
  PROVE  \/ \E h \in Handles : /\ ScopeWork(h)
                               /\ \A k \in Handles : k # h => Same(k) /\ SameRecords(k)
         \/ \A k \in Handles : Same(k) /\ SameRecords(k)
<1>1. ASSUME NEW h \in Handles, ScopeWork(h)
      PROVE  \A k \in Handles : k # h => Same(k) /\ SameRecords(k)
  BY <1>1, OthersSame, OthersRecords DEF ScopeWork
<1>2. CASE UNCHANGED vars \/ \E n \in Names : ResetElapsed(n)
  <2>1. UNCHANGED <<plan, rootVars, stageVars, cancelled, log, callerVars, evidence, asked>>
    BY <1>2 DEF vars, ResetElapsed
  <2> QED
    BY <2>1 DEF Same, SameRecords, rootVars, stageVars, callerVars
<1>3. CASE Next
  BY <1>1, <1>2, <1>3, StepCases DEF ScopeWork
<1> QED
  BY <1>2, <1>3

\* Every step keeps the records of every scope consistent.
LEMMA RecordStep == Counting /\ RInv /\ [Next]_vars => RInv'
<1> SUFFICES ASSUME Counting, RInv, [Next]_vars PROVE RInv'
  OBVIOUS
<1>1. IInv /\ IInv' /\ TypeOK /\ Placed /\ \A h \in Handles : RecordInv(h)
  BY StepInv DEF RInv, IInv, Placed, ScopeInv
<1>2. ASSUME NEW h \in Handles, ScopeWork(h) PROVE RecordInv(h)'
  <2>1. AttemptInv(h) /\ CancelledInv(h) /\ EvidenceInv(h) /\ CallerInv(h)
    BY <1>1 DEF RecordInv
  <2>2. AttemptInv(h)' /\ CancelledInv(h)' /\ CallerInv(h)'
    BY <1>1, <1>2, <2>1, AttemptStep, CancelledStep, CallerKept
  <2>3. (Room(log[h]) => PassedShown(h, log[h]))'
    BY <1>1, <1>2, <2>1, PassedStep DEF Room
  <2>4. StagesShown(h)' /\ EndShown(h)'
    BY <1>1, <1>2, <2>1, StagesStep, EndStep
  <2> QED
    BY <2>2, <2>3, <2>4 DEF RecordInv, EvidenceInv
<1>3. \A k \in Handles : RecordInv(k)'
  BY <1>1, <1>2, StepScopes, SameRecordInv
<1> QED
  BY <1>1, <1>3 DEF RInv

-----------------------------------------------------------------------------
(* Merging the outputs of a fan-out.                                       *)

Entries(s) == {s[k] : k \in DOMAIN s}

NoRepeats(s) == \A j, k \in DOMAIN s : s[j] = s[k] => j = k

\* How numbers number: n entries that are 1 .. m, each once, are m entries, and
\* some number of a set is the least.  As Counting, it is proved in
\* PipelineProofs.
Numbering ==
  /\ \A m, n \in Nat : \A s \in [1 .. m -> 1 .. n] :
       Entries(s) = 1 .. n /\ NoRepeats(s) => m = n
  /\ \A T \in SUBSET Nat : T # {} => \E k \in T : \A j \in T : k <= j

\* Outputs that are those of n stages, each once, are n in number.
LEMMA OneOfEach ==
  ASSUME Numbering, NEW n \in Nat, NEW S, NEW s \in Seq(S), Entries(s) = 1 .. n, NoRepeats(s)
  PROVE  Len(s) = n
<1>1. PICK m \in Nat : m = Len(s) /\ DOMAIN s = 1 .. m
  BY SeqLength
<1>2. s \in [1 .. m -> 1 .. n]
  <2>1. \A k \in 1 .. m : s[k] \in 1 .. n
    BY <1>1 DEF Entries
  <2>2. s = [k \in DOMAIN s |-> s[k]]
    BY <1>1
  <2> QED
    BY <1>1, <2>1, <2>2
<1> QED
  BY <1>1, <1>2 DEF Numbering

\* Sorted by branch index, output k is that of stage k.
LEMMA SortedByIndex ==
  ASSUME Numbering, NEW n \in Nat, NEW m \in Nat, NEW t, DOMAIN t = 1 .. m, Entries(t) = 1 .. n,
         \A j, k \in DOMAIN t : j < k => t[j] < t[k]
  PROVE  \A k \in DOMAIN t : t[k] = k
<1> DEFINE Wrong == {k \in 1 .. m : t[k] # k}
<1> SUFFICES ASSUME Wrong # {} PROVE FALSE
  OBVIOUS
<1>1. PICK k \in Wrong : \A j \in Wrong : k <= j
  <2>1. Wrong \in SUBSET Nat
    OBVIOUS
  <2> QED
    BY <2>1 DEF Numbering
<1>2. \A j \in 1 .. m : j < k => t[j] = j
  BY <1>1
<1>3. \A j \in 1 .. m : t[j] \in 1 .. n
  BY DEF Entries
<1>4. t[k] > k
  <2>1. t[k] \in Nat /\ t[k] >= 1 /\ t[k] # k
    BY <1>3
  <2>2. ~(t[k] < k)
    <3> SUFFICES ASSUME t[k] < k PROVE FALSE
      OBVIOUS
    <3>1. t[k] \in 1 .. m
      BY <2>1
    <3>2. t[t[k]] = t[k] /\ t[t[k]] < t[k]
      BY <1>2, <3>1
    <3> QED
      BY <2>1, <3>2
  <2> QED
    BY <2>1, <2>2
<1>5. k \in 1 .. n
  BY <1>3, <1>4
<1>6. PICK j \in 1 .. m : t[j] = k
  BY <1>5 DEF Entries
<1>7. j # k /\ ~(j < k)
  BY <1>2, <1>6
<1>8. t[k] < t[j]
  BY <1>7
<1> QED
  BY <1>3, <1>4, <1>6, <1>8

\* The outputs that OutputsMerged speaks of.
OutputsFit(h) ==
  root[h] \in {"group", "entering"} /\ group[h] > 1 =>
    LET before == plan[h][group[h] - 1]
        width  == Len(before.stages)
    IN  before.kind = "FanOut" =>
          /\ Len(outputs[h]) = width
          /\ Entries(outputs[h]) = 1 .. width
          /\ before.join = "PreserveInputOrder" => \A k \in 1 .. width : outputs[h][k] = k

\* A fan-out that has seen no failure has collected the output of every child
\* it has joined, once.
Collected(h) ==
  root[h] = "fanout" /\ failure[h] = "None" =>
    /\ Entries(joined[h]) = {i \in Branch : pc[h][i] = "joined"}
    /\ NoRepeats(joined[h])

\* The root runs a group as the plan says, with children for its stages only.
InGroup(h) ==
  /\ root[h] = "serial" => Current(h).kind = "Serial"
  /\ root[h] = "fanout" => /\ Current(h).kind = "FanOut"
                           /\ \A i \in Branch : pc[h][i] = "joined" => i <= Width(h)

MergeInv(h) == InGroup(h) /\ Collected(h) /\ OutputsFit(h)

\* The entries of a sequence with one more element.
LEMMA OneMoreEntry ==
  ASSUME NEW s, NEW t, NEW n \in Nat, NEW i, DOMAIN s = 1 .. n, DOMAIN t = 1 .. n + 1,
         \A k \in 1 .. n : t[k] = s[k], t[n + 1] = i
  PROVE  Entries(t) = Entries(s) \cup {i}
<1>1. \A k \in 1 .. n + 1 : k \in 1 .. n \/ k = n + 1
  OBVIOUS
<1>2. n + 1 \in 1 .. n + 1 /\ \A k \in 1 .. n : k \in 1 .. n + 1
  OBVIOUS
<1>3. ASSUME NEW e \in Entries(t) PROVE e \in Entries(s) \cup {i}
  <2>1. PICK k \in 1 .. n + 1 : e = t[k]
    BY DEF Entries
  <2> QED
    BY <1>1, <2>1 DEF Entries
<1>4. ASSUME NEW e \in Entries(s) PROVE e \in Entries(t)
  <2>1. PICK k \in 1 .. n : e = s[k]
    BY DEF Entries
  <2> QED
    BY <1>2, <2>1 DEF Entries
<1>5. i \in Entries(t)
  BY <1>2 DEF Entries
<1> QED
  BY <1>3, <1>4, <1>5

\* A step of a scope keeps it in its group, over outputs collected once.
LEMMA GroupKept ==
  ASSUME IInv, NEW h \in Handles, MergeInv(h), ScopeWork(h)
  PROVE  InGroup(h)' /\ Collected(h)'
<1> USE DEF rootVars, stageVars
<1>0. /\ TypeOK /\ Placed /\ InGroup(h) /\ Collected(h) /\ ScopeInv(h)
      /\ root \in [Handles -> RootPoints]
      /\ pc \in [Handles -> [Branch -> StagePoints]]
      /\ joined \in [Handles -> Seq(Branch)]
      /\ failure \in [Handles -> StageErrors \cup {"None"}]
      /\ result \in [Handles -> [Branch -> StageErrors \cup {"None", "Ok"}]]
  BY DEF IInv, TypeOK, RootOK, StageOK, Placed, ScopeInv, MergeInv
<1>1. CASE root'[h] \notin {"serial", "fanout"}
  BY <1>1 DEF InGroup, Collected
<1>2. CASE root'[h] \in {"serial", "fanout"}
  <2>0. plan' = plan /\ group' = group
    BY <1>0, <1>2, GroupStep
  <2>1. (Current(h))' = Current(h) /\ (Width(h))' = Width(h)
    BY <2>0 DEF Current, Width
  <2>2. CASE StartSerial(h)
    BY <1>0, <2>1, <2>2 DEF StartSerial, EnterGroup, InGroup, Collected
  <2>3. CASE StartFanOut(h)
    <3>1. /\ Current(h).kind = "FanOut" /\ root'[h] = "fanout" /\ joined'[h] = <<>>
          /\ pc'[h] = [i \in Branch |-> IF i <= Width(h) THEN "queued" ELSE "idle"]
      BY <1>0, <2>3 DEF StartFanOut, EnterGroup, EnterStages
    <3>2. \A i \in Branch : pc'[h][i] # "joined"
      BY <3>1
    <3> QED
      BY <2>1, <3>1, <3>2 DEF InGroup, Collected, Entries, NoRepeats
  <2>4. ASSUME NEW i \in Branch, SerialContinue(h, i) PROVE InGroup(h)' /\ Collected(h)'
    BY <1>0, <2>1, <2>4 DEF SerialContinue, InGroup, Collected
  <2>5. ASSUME NEW i \in Branch, JoinChild(h, i) PROVE InGroup(h)'
    <3>1. /\ root[h] = "fanout" /\ root' = root /\ i \in LiveStages(h)
          /\ pc' = [pc EXCEPT ![h][i] = "joined"]
      BY <2>5 DEF JoinChild, LiveStages
    <3>2. i <= Width(h)
      BY <1>0, <3>1 DEF ScopeInv, PlacedIn
    <3>3. \A j \in Branch : pc'[h][j] = IF j = i THEN "joined" ELSE pc[h][j]
      BY <1>0, <3>1
    <3> QED
      BY <1>0, <2>1, <3>1, <3>2, <3>3 DEF InGroup
  <2>6. ASSUME NEW i \in Branch, JoinOk(h, i) PROVE Collected(h)'
    <3> SUFFICES ASSUME failure[h] = "None"
                 PROVE  /\ Entries(joined'[h]) = {j \in Branch : pc'[h][j] = "joined"}
                        /\ NoRepeats(joined'[h])
      BY <2>6 DEF JoinOk, Collected
    <3>1. /\ root[h] = "fanout" /\ pc[h][i] = "finished"
          /\ pc' = [pc EXCEPT ![h][i] = "joined"]
          /\ joined'[h] = Append(joined[h], i)
      BY <1>0, <2>6 DEF JoinOk, JoinChild
    <3>2. \A j \in Branch : pc'[h][j] = IF j = i THEN "joined" ELSE pc[h][j]
      BY <1>0, <3>1
    <3>3. /\ Entries(joined[h]) = {j \in Branch : pc[h][j] = "joined"}
          /\ NoRepeats(joined[h])
      BY <1>0, <3>1 DEF Collected
    <3>4. PICK n \in Nat :
            /\ DOMAIN joined[h] = 1 .. n /\ DOMAIN joined'[h] = 1 .. n + 1
            /\ \A k \in 1 .. n : joined'[h][k] = joined[h][k]
            /\ joined'[h][n + 1] = i
      <4>1. joined[h] \in Seq(Branch)
        BY <1>0
      <4>2. /\ DOMAIN joined[h] = 1 .. Len(joined[h]) /\ Len(joined[h]) \in Nat
            /\ DOMAIN Append(joined[h], i) = 1 .. Len(joined[h]) + 1
            /\ \A k \in 1 .. Len(joined[h]) : Append(joined[h], i)[k] = joined[h][k]
            /\ Append(joined[h], i)[Len(joined[h]) + 1] = i
        BY <4>1, SeqLength, Appended
      <4> QED
        BY <3>1, <4>2
    <3>5. \A k \in 1 .. n : joined[h][k] # i
      BY <3>1, <3>3, <3>4 DEF Entries
    <3>6. \A k \in 1 .. n + 1 : k \in 1 .. n \/ k = n + 1
      OBVIOUS
    <3>7. Entries(joined'[h]) = Entries(joined[h]) \cup {i}
      BY <3>4, OneMoreEntry
    <3>8. NoRepeats(joined'[h])
      BY <3>3, <3>4, <3>5, <3>6 DEF NoRepeats
    <3> QED
      BY <3>2, <3>3, <3>7, <3>8
  <2>7. ASSUME NEW i \in Branch, JoinError(h, i) PROVE Collected(h)'
    <3>1. failure'[h] # "None"
      <4>1. /\ pc[h][i] = "finished"
            /\ failure'[h] = IF failure[h] = "None" THEN result[h][i] ELSE failure[h]
        BY <1>0, <2>7 DEF JoinError, JoinChild
      <4> QED
        BY <1>0, <4>1 DEF ScopeInv, Settled
    <3> QED
      BY <3>1 DEF Collected
  <2>8. ASSUME UNCHANGED <<root, failure, joined>>,
               \A i \in Branch : pc'[h][i] = "joined" <=> pc[h][i] = "joined"
        PROVE  InGroup(h)' /\ Collected(h)'
    BY <1>0, <2>1, <2>8 DEF InGroup, Collected
  <2>9. ASSUME NEW i \in Branch, StageWork(h, i) PROVE InGroup(h)' /\ Collected(h)'
    <3>1. UNCHANGED <<root, failure, joined>> /\ pc[h][i] \in Working
      BY <2>9, StageMove
    <3>2. PICK point \in Inside \cup {"finished"} : pc' = [pc EXCEPT ![h][i] = point]
      BY <2>9, StageMove DEF MovesOn, Returns, Leave
    <3>3. \A j \in Branch : pc'[h][j] = "joined" <=> pc[h][j] = "joined"
      BY <1>0, <3>1, <3>2 DEF Inside, Working
    <3> QED
      BY <2>8, <3>1, <3>3
  <2>10. CASE CallerWork(h)
    BY <2>8, <2>10, CallerFrame
  <2> QED
    BY <1>0, <1>2, <2>2, <2>3, <2>4, <2>5, <2>6, <2>7, <2>9, <2>10, GroupStep
       DEF JoinOk, JoinError
<1> QED
  BY <1>1, <1>2

\* Once all children are joined without a failure, what is merged is the
\* outputs of all of them, in the order of the policy.
LEMMA MergeComplete ==
  ASSUME Numbering, IInv, NEW h \in Handles, InGroup(h), Collected(h), FanOutJoined(h)
  PROVE  /\ Len(outputs'[h]) = Width(h)
         /\ Entries(outputs'[h]) = 1 .. Width(h)
         /\ Current(h).join = "PreserveInputOrder" => \A k \in 1 .. Width(h) : outputs'[h][k] = k
<1>0. /\ TypeOK /\ ScopeInv(h) /\ joined[h] \in Seq(Branch)
      /\ outputs \in [Handles -> Seq(Nat)]
  BY DEF IInv, TypeOK, RootOK
<1>1. /\ root[h] = "fanout" /\ AllJoined(h) /\ failure[h] = "None"
  BY DEF FanOutJoined
<1>2. PICK t \in MergedResults(h) : outputs' = [outputs EXCEPT ![h] = t]
  BY DEF FanOutJoined
<1>3. PICK n \in Nat : n = Width(h) /\ n <= MaxStages
  BY <1>0, <1>1, GroupType DEF ScopeInv, PlacedIn
<1>4. Entries(joined[h]) = 1 .. n /\ NoRepeats(joined[h])
  <2>1. \A i \in 1 .. n : i \in Branch /\ pc[h][i] = "joined"
    BY <1>1, <1>3, Bounds DEF AllJoined, Branch
  <2>2. \A i \in Branch : pc[h][i] = "joined" => i \in 1 .. n
    BY <1>1, <1>3, Bounds DEF InGroup, Branch
  <2>3. {i \in Branch : pc[h][i] = "joined"} = 1 .. n
    BY <2>1, <2>2
  <2> QED
    BY <1>1, <2>3 DEF Collected
<1>5. Len(joined[h]) = n /\ DOMAIN joined[h] = 1 .. n
  BY <1>0, <1>4, OneOfEach, SeqLength
<1>6. outputs'[h] = t
  BY <1>0, <1>2
<1>7. CASE Current(h).join = "CompletionOrder"
  <2>1. t = joined[h]
    BY <1>2, <1>7 DEF MergedResults
  <2> QED
    BY <1>3, <1>4, <1>5, <1>6, <1>7, <2>1
<1>8. CASE Current(h).join # "CompletionOrder"
  <2>1. t \in [1 .. n -> Branch] /\ IsSortOf(t, joined[h])
    BY <1>2, <1>5, <1>8 DEF MergedResults
  <2>2. /\ DOMAIN t = 1 .. n /\ Entries(t) = 1 .. n
        /\ \A j, k \in DOMAIN t : j < k => t[j] < t[k]
    BY <1>4, <2>1 DEF IsSortOf, Entries
  <2>3. \A k \in DOMAIN t : t[k] = k
    BY <2>2, SortedByIndex
  <2>4. t \in Seq(Branch) /\ Len(t) = n
    BY <2>1
  <2> QED
    BY <1>3, <1>6, <2>2, <2>3, <2>4
<1> QED
  BY <1>7, <1>8

\* A step of a scope hands complete outputs on to the next group.
LEMMA OutputsKept ==
  ASSUME Numbering, IInv, NEW h \in Handles, MergeInv(h), ScopeWork(h)
  PROVE  OutputsFit(h)'
<1> USE DEF rootVars, stageVars
<1>0. /\ TypeOK /\ Placed /\ ScopeInv(h)
      /\ InGroup(h) /\ Collected(h) /\ OutputsFit(h)
      /\ root \in [Handles -> RootPoints] /\ group \in [Handles -> Nat \ {0}]
  BY DEF IInv, TypeOK, RootOK, Placed, ScopeInv, MergeInv
<1>1. ASSUME root'[h] \notin {"group", "entering"} PROVE OutputsFit(h)'
  BY <1>1 DEF OutputsFit
<1>2. ASSUME group'[h] = group[h] + 1, plan' = plan
      PROVE  plan'[h][group'[h] - 1] = Current(h)
  <2>1. group'[h] - 1 = group[h]
    BY <1>0, <1>2
  <2> QED
    BY <1>2, <2>1 DEF Current
<1>3. ASSUME group'[h] = group[h] + 1, plan' = plan, Current(h).kind = "Serial"
      PROVE  OutputsFit(h)'
  <2>1. plan'[h][group'[h] - 1].kind # "FanOut"
    BY <1>2, <1>3
  <2> QED
    BY <2>1 DEF OutputsFit
<1>4. CASE EmptySerial(h)
  <2>1. group'[h] = group[h] + 1 /\ plan' = plan /\ Current(h).kind = "Serial"
    BY <1>0, <1>4 DEF EmptySerial, EnterGroup
  <2> QED
    BY <1>3, <2>1
<1>5. ASSUME NEW i \in Branch, SerialDone(h, i) PROVE OutputsFit(h)'
  <2>1. group'[h] = group[h] + 1 /\ plan' = plan /\ Current(h).kind = "Serial"
    BY <1>0, <1>5 DEF SerialDone, InGroup
  <2> QED
    BY <1>3, <2>1
<1>6. CASE FanOutJoined(h)
  <2>1. group'[h] = group[h] + 1 /\ plan' = plan
    BY <1>0, <1>6 DEF FanOutJoined
  <2>2. plan'[h][group'[h] - 1] = Current(h)
    BY <1>2, <2>1
  <2>3. /\ Len(outputs'[h]) = Width(h)
        /\ Entries(outputs'[h]) = 1 .. Width(h)
        /\ Current(h).join = "PreserveInputOrder" => \A k \in 1 .. Width(h) : outputs'[h][k] = k
    BY <1>0, <1>6, MergeComplete
  <2> QED
    BY <2>2, <2>3 DEF OutputsFit, Width
<1>7. CASE Start(h)
  <2>1. group'[h] = 1
    BY <1>0, <1>7 DEF Start, ScopeInv, Settled
  <2> QED
    BY <2>1 DEF OutputsFit
<1>8. CASE \/ ObserveCancellation(h) \/ MissingInput(h) \/ GroupsExhausted(h)
           \/ StartSerial(h) \/ StartFanOut(h) \/ FanOutFailed(h) \/ Finish(h) \/ Snapshot(h)
  BY <1>0, <1>1, <1>8 DEF ObserveCancellation, MissingInput, GroupsExhausted, Conclude,
     StartSerial, StartFanOut, FanOutFailed, Finish, Snapshot
<1>9. ASSUME NEW i \in Branch, \/ SerialContinue(h, i) \/ SerialFailed(h, i) \/ JoinOk(h, i)
                               \/ JoinError(h, i) \/ RootPanics(h, i)
      PROVE  OutputsFit(h)'
  BY <1>0, <1>1, <1>9 DEF SerialContinue, SerialFailed, JoinOk, JoinError, JoinChild, RootPanics
<1>10. ASSUME NEW i \in Branch, StageWork(h, i) PROVE OutputsFit(h)'
  <2>1. root[h] \in {"serial", "fanout"} /\ root' = root
    BY <1>0, <1>10, StageMove, WorkingLive, LiveStage
  <2> QED
    BY <1>1, <2>1
<1>11. ASSUME NEW p \in Plans, Execute(h, p) PROVE OutputsFit(h)'
  BY <1>0, <1>1, <1>11 DEF Execute
<1>12. CASE CallerWork(h)
  <2>1. UNCHANGED <<plan, root, group, outputs>>
    BY <1>12, CallerFrame
  <2> QED
    BY <1>0, <2>1 DEF OutputsFit
<1>13. CASE AdmitGroup(h)
  <2>1. root[h] = "group" /\ UNCHANGED <<plan, group, outputs>>
    BY <1>13 DEF AdmitGroup
  <2> QED
    BY <1>0, <2>1 DEF OutputsFit
<1> QED
  BY <1>4, <1>5, <1>6, <1>7, <1>8, <1>9, <1>10, <1>11, <1>12, <1>13 DEF ScopeWork, RootStep

MInv == IInv /\ \A h \in Handles : MergeInv(h)

\* A step that leaves the scope alone leaves its outputs alone.
LEMMA SameMergeInv ==
  ASSUME NEW k \in Handles, Same(k), SameRecords(k), MergeInv(k)
  PROVE  MergeInv(k)'
<1> USE DEF Same, SameRecords
<1>1. InGroup(k)'
  BY DEF MergeInv, InGroup, Current, Width
<1>2. Collected(k)'
  BY DEF MergeInv, Collected
<1>3. OutputsFit(k)'
  BY DEF MergeInv, OutputsFit
<1> QED
  BY <1>1, <1>2, <1>3 DEF MergeInv

\* Every step keeps the outputs of every scope.
LEMMA MergeStep == Counting /\ Numbering /\ MInv /\ [Next]_vars => MInv'
<1> SUFFICES ASSUME Counting, Numbering, MInv, [Next]_vars PROVE MInv'
  OBVIOUS
<1>1. IInv /\ TypeOK /\ IInv' /\ \A h \in Handles : MergeInv(h)
  BY StepInv DEF MInv, IInv
<1>2. ASSUME NEW h \in Handles, ScopeWork(h) PROVE MergeInv(h)'
  BY <1>1, <1>2, GroupKept, OutputsKept DEF MergeInv
<1>3. \A k \in Handles : MergeInv(k)'
  BY <1>1, <1>2, StepScopes, SameMergeInv
<1> QED
  BY <1>1, <1>3 DEF MInv
=============================================================================
