-------------------------- MODULE PipelineRecords ---------------------------
(***************************************************************************)
(* What a step of the executor of Pipeline puts on record: attempts and    *)
(* lifecycle events.  The log is the closed form of its push loop; each    *)
(* step writes to the logs of its own scope in one of a few ways; so the   *)
(* attempts stay bounded and a cancellation is recorded once.              *)
(***************************************************************************)
EXTENDS PipelineTypes

USE EventCapacityAssumption, SMTT(4), ZenonT(10), SMTT(20), ZenonT(40), SMTT(40)

-----------------------------------------------------------------------------
(* The log, in positions: push and extend drop a prefix and append.        *)

\* extend by one event is push: the closed form of extend and the loop body.
LEMMA PushExtends ==
  ASSUME NEW S, NEW s \in Seq(S), Bounded(s), NEW e \in S
  PROVE  Push(s, e) = Extend(s, <<e>>)
<1> USE DEF Bounded
<1>1. Len(s) \in Nat /\ s \o <<e>> = Append(s, e) /\ Len(s \o <<e>>) = Len(s) + 1
  OBVIOUS
<1>2. CASE Len(s) = EventCapacity
  <2>1. Push(s, e) = Append(Tail(s), e)
    BY <1>2 DEF Push
  <2>2. Extend(s, <<e>>) = SubSeq(Append(s, e), 2, Len(s) + 1)
    BY <1>1, <1>2 DEF Extend
  <2>3. s # <<>>
    BY <1>2
  <2>4. /\ Append(Tail(s), e) \in Seq(S) /\ Len(Append(Tail(s), e)) = Len(s)
        /\ \A k \in 1 .. Len(s) : Append(Tail(s), e)[k] = IF k = Len(s) THEN e ELSE s[k + 1]
    BY <1>1, <2>3
  <2>5. /\ SubSeq(Append(s, e), 2, Len(s) + 1) \in Seq(S)
        /\ Len(SubSeq(Append(s, e), 2, Len(s) + 1)) = Len(s)
        /\ \A k \in 1 .. Len(s) : SubSeq(Append(s, e), 2, Len(s) + 1)[k] = Append(s, e)[k + 1]
    BY <1>1, <2>3, PartOfSeq
  <2>6. \A k \in 1 .. Len(s) : Append(s, e)[k + 1] = IF k = Len(s) THEN e ELSE s[k + 1]
    BY <1>1
  <2>7. Append(Tail(s), e) = SubSeq(Append(s, e), 2, Len(s) + 1)
    <3> DEFINE a == Append(Tail(s), e)
               b == SubSeq(Append(s, e), 2, Len(s) + 1)
    <3>1. /\ a \in Seq(S) /\ b \in Seq(S) /\ Len(a) = Len(s) /\ Len(b) = Len(s)
          /\ \A k \in 1 .. Len(s) : a[k] = b[k]
      BY <2>4, <2>5, <2>6
    <3> HIDE DEF a, b
    <3>2. a = b
      BY <3>1, SameEntries
    <3> QED
      BY <3>2 DEF a, b
  <2> QED
    BY <2>1, <2>2, <2>7
<1>3. CASE Len(s) # EventCapacity
  <2>1. Push(s, e) = Append(s, e)
    BY <1>3 DEF Push
  <2>2. Len(s) + 1 <= EventCapacity
    BY <1>1, <1>3
  <2> QED
    BY <1>1, <2>1, <2>2 DEF Extend
<1> QED
  BY <1>2, <1>3

\* What extend leaves of the old log and the incoming events: all but the
\* oldest off of them, and nothing is evicted while there is room.
Suffix(r, a, off) ==
  /\ Len(r) + off = Len(a)
  /\ \A k \in 1 .. Len(r) : r[k] = a[k + off]

\* extend evicts a prefix, and only when the log is full.
LEMMA ExtendShape ==
  ASSUME NEW S, NEW s \in Seq(S), Bounded(s), NEW t \in Seq(S)
  PROVE  \E off \in Nat : /\ Suffix(Extend(s, t), s \o t, off)
                          /\ off > 0 => Len(Extend(s, t)) = EventCapacity
<1> DEFINE a == s \o t
           r == Extend(s, t)
<1>1. a \in Seq(S) /\ Len(a) \in Nat
  BY Concatenated, SeqLength
<1>2. CASE Len(a) <= EventCapacity
  <2>1. r = a
    BY <1>2 DEF Extend
  <2> HIDE DEF a, r
  <2>2. Suffix(r, a, 0)
    BY <1>1, <2>1 DEF Suffix
  <2> QED
    BY <2>2 DEF a, r
<1>3. CASE EventCapacity < Len(a)
  <2>1. r = SubSeq(a, Len(a) - EventCapacity + 1, Len(a))
    BY <1>1, <1>3 DEF Extend
  <2> HIDE DEF a, r
  <2> DEFINE lo == Len(a) - EventCapacity + 1
  <2>2. \A k \in lo .. Len(a) : a[k] \in S
    BY <1>1, <1>3, SeqEntry
  <2>3. /\ Len(r) = EventCapacity
        /\ \A k \in 1 .. EventCapacity : r[k] = a[lo + k - 1]
    BY <1>1, <1>3, <2>1, <2>2, PartOfSeq
  <2>4. Suffix(r, a, Len(a) - EventCapacity)
    BY <1>1, <1>3, <2>3 DEF Suffix
  <2>5. Len(a) - EventCapacity \in Nat
    BY <1>1, <1>3
  <2> QED
    BY <2>3, <2>4, <2>5 DEF a, r
<1> QED
  BY <1>1, <1>2, <1>3

Room(s) == Len(s) < EventCapacity

AtMostOnce(s, x) == \A j, k \in DOMAIN s : s[j] = x /\ s[k] = x => j = k

\* What a log r made of s and t shows of event x: no event is invented, and
\* as long as there is room none is lost.
Adds(s, t, r, x) ==
  /\ Mentions(r, x) => Mentions(s, x) \/ Mentions(t, x)
  /\ Room(r) => Room(s) /\ Room(t)
  /\ Room(r) /\ (Mentions(s, x) \/ Mentions(t, x)) => Mentions(r, x)
  /\ AtMostOnce(s, x) /\ ~Mentions(t, x) => AtMostOnce(r, x)
  /\ ~Mentions(s, x) /\ AtMostOnce(t, x) => AtMostOnce(r, x)

\* That is what extend makes of them.
LEMMA ExtendMentions ==
  ASSUME NEW S, NEW s \in Seq(S), Bounded(s), NEW t \in Seq(S), NEW x
  PROVE  Adds(s, t, Extend(s, t), x)
<1> DEFINE r == Extend(s, t)
           a == s \o t
<1>1. PICK m \in Nat, n \in Nat, p \in Nat :
        /\ m = Len(s) /\ DOMAIN s = 1 .. m
        /\ n = Len(t) /\ DOMAIN t = 1 .. n
        /\ p = Len(r) /\ DOMAIN r = 1 .. p
  BY ExtendType, SeqLength
<1>2. /\ Len(a) = m + n
      /\ \A k \in 1 .. m + n : a[k] = IF k <= m THEN s[k] ELSE t[k - m]
  BY <1>1, Concatenated
<1>3. PICK off \in Nat : Suffix(r, a, off) /\ (off > 0 => p = EventCapacity)
  BY <1>1, ExtendShape
<1> HIDE DEF r, a
<1>4. p + off = m + n
  BY <1>1, <1>2, <1>3 DEF Suffix
<1>5. ASSUME NEW k \in 1 .. p
      PROVE  /\ k + off <= m => k + off \in 1 .. m /\ r[k] = s[k + off]
             /\ k + off > m => k + off - m \in 1 .. n /\ r[k] = t[k + off - m]
  <2>1. k + off \in 1 .. m + n
    BY <1>4
  <2>2. r[k] = a[k + off]
    BY <1>1, <1>3 DEF Suffix
  <2>3. a[k + off] = IF k + off <= m THEN s[k + off] ELSE t[k + off - m]
    BY <1>2, <2>1
  <2>4. k + off > m => k + off - m \in 1 .. n /\ ~(k + off <= m)
    BY <2>1
  <2> QED
    BY <2>1, <2>2, <2>3, <2>4
<1>6. ASSUME NEW k \in 1 .. p, r[k] = x
      PROVE  \/ k + off \in 1 .. m /\ s[k + off] = x
             \/ k + off - m \in 1 .. n /\ t[k + off - m] = x
  BY <1>5, <1>6
<1>7. Mentions(r, x) => Mentions(s, x) \/ Mentions(t, x)
  BY <1>1, <1>6 DEF Mentions
<1>8. ASSUME Room(r) PROVE off = 0 /\ Room(s) /\ Room(t)
  <2>1. p < EventCapacity
    BY <1>1, <1>8 DEF Room
  <2>2. off = 0 /\ m < EventCapacity /\ n < EventCapacity
    BY <1>3, <1>4, <2>1
  <2> QED
    BY <1>1, <2>2 DEF Room
<1>9. ASSUME Room(r), Mentions(s, x) \/ Mentions(t, x) PROVE Mentions(r, x)
  <2>1. p = m + n /\ off = 0
    BY <1>4, <1>8, <1>9
  <2>2. CASE Mentions(s, x)
    <3>1. PICK k \in 1 .. m : s[k] = x
      BY <1>1, <2>2 DEF Mentions
    <3>2. k \in 1 .. p /\ r[k] = s[k]
      BY <1>5, <2>1
    <3> QED
      BY <1>1, <3>1, <3>2 DEF Mentions
  <2>3. CASE Mentions(t, x)
    <3>1. PICK k \in 1 .. n : t[k] = x
      BY <1>1, <2>3 DEF Mentions
    <3>2. m + k \in 1 .. p /\ r[m + k] = t[k]
      BY <1>5, <2>1
    <3> QED
      BY <1>1, <3>1, <3>2 DEF Mentions
  <2> QED
    BY <1>9, <2>2, <2>3
<1>10. ASSUME AtMostOnce(s, x), ~Mentions(t, x) PROVE AtMostOnce(r, x)
  <2>1. \A k \in 1 .. p : r[k] = x => k + off \in 1 .. m /\ s[k + off] = x
    BY <1>1, <1>6, <1>10 DEF Mentions
  <2> SUFFICES ASSUME NEW j \in 1 .. p, NEW k \in 1 .. p, r[j] = x, r[k] = x
               PROVE  j = k
    BY <1>1 DEF AtMostOnce
  <2>2. j + off = k + off
    BY <1>1, <1>10, <2>1 DEF AtMostOnce
  <2> QED
    BY <2>2
<1>11. ASSUME ~Mentions(s, x), AtMostOnce(t, x) PROVE AtMostOnce(r, x)
  <2>1. \A k \in 1 .. p : r[k] = x => k + off - m \in 1 .. n /\ t[k + off - m] = x
    BY <1>1, <1>6, <1>11 DEF Mentions
  <2> SUFFICES ASSUME NEW j \in 1 .. p, NEW k \in 1 .. p, r[j] = x, r[k] = x
               PROVE  j = k
    BY <1>1 DEF AtMostOnce
  <2>2. j + off - m = k + off - m
    BY <1>1, <1>11, <2>1 DEF AtMostOnce
  <2> QED
    BY <2>2
<1> QED
  BY <1>7, <1>8, <1>9, <1>10, <1>11 DEF r, Adds

\* The same of push.
AddsOne(s, e, r, x) ==
  /\ Mentions(r, x) => Mentions(s, x) \/ x = e
  /\ Room(r) => Room(s)
  /\ Room(r) /\ (Mentions(s, x) \/ x = e) => Mentions(r, x)
  /\ AtMostOnce(s, x) /\ x # e => AtMostOnce(r, x)
  /\ ~Mentions(s, x) => AtMostOnce(r, x)

\* A push adds one event, or makes the log truncated.
LEMMA PushMentions ==
  ASSUME NEW S, NEW s \in Seq(S), Bounded(s), NEW e \in S, NEW x
  PROVE  AddsOne(s, e, Push(s, e), x)
<1>1. /\ <<e>> \in Seq(S)
      /\ Mentions(<<e>>, x) <=> x = e
      /\ AtMostOnce(<<e>>, x)
  BY DEF Mentions, AtMostOnce
<1>2. Push(s, e) = Extend(s, <<e>>)
  BY PushExtends
<1>3. PICK t \in Seq(S) : t = <<e>>
  BY <1>1
<1>4. Adds(s, t, Extend(s, t), x)
  BY ExtendMentions
<1> QED
  BY <1>1, <1>2, <1>3, <1>4 DEF Adds, AddsOne

\* extend is the loop over push that LifecycleLog::extend is: one more event
\* is one more push, and no event is none.
THEOREM ExtendIsPushLoop ==
  ASSUME NEW S, NEW s \in Seq(S), Bounded(s), NEW t \in Seq(S), NEW e \in S
  PROVE  /\ Extend(s, <<>>) = s
         /\ Extend(s, Append(t, e)) = Push(Extend(s, t), e)
<1>1. Extend(s, <<>>) = s
  <2>1. s \o <<>> = s
    BY NothingMore
  <2> QED
    BY <2>1 DEF Extend, Bounded
<1>2. Extend(s, Append(t, e)) = Push(Extend(s, t), e)
  <2> DEFINE u == Append(t, e)
             v == Extend(s, t)
             x == Extend(s, u)
             y == Extend(v, <<e>>)
  <2>1. /\ u \in Seq(S) /\ <<e>> \in Seq(S)
        /\ v \in Seq(S) /\ Bounded(v)
        /\ Push(v, e) = y
    BY Appended, ExtendType, PushExtends
  <2>2. /\ x \in Seq(S) /\ Bounded(x)
        /\ y \in Seq(S) /\ Bounded(y)
    BY <2>1, ExtendType
  <2>3. PICK i \in Nat : Suffix(v, s \o t, i) /\ (i > 0 => Len(v) = EventCapacity)
    BY ExtendShape
  <2>4. PICK j \in Nat : Suffix(x, s \o u, j) /\ (j > 0 => Len(x) = EventCapacity)
    BY <2>1, ExtendShape
  <2>5. PICK k \in Nat : Suffix(y, v \o <<e>>, k) /\ (k > 0 => Len(y) = EventCapacity)
    BY <2>1, ExtendShape
  <2>6. s \o u = Append(s \o t, e) /\ v \o <<e>> = Append(v, e)
    BY <2>1
  <2> HIDE DEF u, v, x, y
  <2>7. PICK a \in Seq(S) : a = s \o t
    BY Concatenated
  <2>8. /\ Len(Append(a, e)) = Len(a) + 1 /\ Len(Append(v, e)) = Len(v) + 1
        /\ \A n \in 1 .. Len(a) : Append(a, e)[n] = a[n]
        /\ \A n \in 1 .. Len(v) : Append(v, e)[n] = v[n]
        /\ Append(a, e)[Len(a) + 1] = e /\ Append(v, e)[Len(v) + 1] = e
    BY <2>1, Appended
  <2>9. PICK l \in Nat, m \in Nat, p \in Nat, q \in Nat :
          l = Len(a) /\ m = Len(v) /\ p = Len(x) /\ q = Len(y)
    BY <2>1, <2>2, SeqLength
  <2>10. /\ m + i = l /\ p + j = l + 1 /\ q + k = m + 1
         /\ m <= EventCapacity /\ p <= EventCapacity /\ q <= EventCapacity
         /\ i > 0 => m = EventCapacity
         /\ j > 0 => p = EventCapacity
         /\ k > 0 => q = EventCapacity
    BY <2>1, <2>2, <2>3, <2>4, <2>5, <2>6, <2>7, <2>8, <2>9 DEF Suffix, Bounded
  <2>11. p = q /\ j = i + k
    BY <2>10
  <2>12. ASSUME NEW n \in 1 .. p PROVE x[n] = y[n]
    <3>1. x[n] = Append(a, e)[n + j] /\ y[n] = Append(v, e)[n + k]
      BY <2>4, <2>5, <2>6, <2>7, <2>9, <2>11 DEF Suffix
    <3>2. CASE n + k = m + 1
      <4>1. n + j = l + 1
        BY <2>10, <2>11, <3>2
      <4> QED
        BY <2>8, <2>9, <3>1, <3>2, <4>1
    <3>3. CASE n + k # m + 1
      <4>1. n + k \in 1 .. m /\ n + j \in 1 .. l /\ n + j = (n + k) + i
        BY <2>10, <2>11, <3>3
      <4>2. v[n + k] = a[(n + k) + i]
        BY <2>3, <2>7, <2>9, <4>1 DEF Suffix
      <4> QED
        BY <2>8, <2>9, <3>1, <4>1, <4>2
    <3> QED
      BY <3>2, <3>3
  <2>13. x = y
    BY <2>2, <2>9, <2>11, <2>12, SameEntries
  <2> QED
    BY <2>1, <2>13 DEF u, v, x
<1> QED
  BY <1>1, <1>2

-----------------------------------------------------------------------------
(* What a step records.                                                    *)

\* What the records of scope k are is the same before and after the step.
SameRecords(k) ==
  /\ attempt'[k] = attempt[k] /\ outputs'[k] = outputs[k] /\ joined'[k] = joined[k]
  /\ log'[k] = log[k] /\ childLog'[k] = childLog[k] /\ evidence'[k] = evidence[k]
  /\ waiter'[k] = waiter[k] /\ answer'[k] = answer[k] /\ supervised'[k] = supervised[k]

\* A step of a stage execution that records nothing but, perhaps, a failure.
Quiet(h, i) ==
  /\ UNCHANGED <<attempt, log, childLog>>
  /\ \/ result' = result
     \/ \E r \in StageErrors : result' = [result EXCEPT ![h][i] = r]
  /\ \E point \in StagePoints :
       /\ pc' = [pc EXCEPT ![h][i] = point]
       /\ point \notin {"idle", "joined"}
       /\ point \in {"queued", "enter", "check", "call", "backoff"} =>
            pc[h][i] \in {"queued", "enter", "check", "call", "backoff"} \/ RetriesLeft(h, i)
       /\ point = "finished" => \E r \in StageErrors : result' = [result EXCEPT ![h][i] = r]

\* What each step of a stage execution records.
LEMMA StageRecord ==
  ASSUME NEW h \in Handles, NEW i \in Branch, StageWork(h, i)
  PROVE  \/ Quiet(h, i) \/ Call(h, i) \/ Succeed(h, i) \/ ChildPanics(h, i)
         \/ \E r \in StageErrors : Fail(h, i, r)
<1> USE DEF Quiet, StagePoints, StageErrors
<1>1. CASE AcquirePermit(h, i)
  BY <1>1 DEF AcquirePermit, Goto
<1>2. CASE EnterStage(h, i)
  BY <1>2 DEF EnterStage, Goto
<1>3. CASE DenyStage(h, i)
  BY <1>3 DEF DenyStage, Leave
<1>4. CASE ContinueAttempts(h, i)
  BY <1>4 DEF ContinueAttempts, Goto
<1>5. CASE StopAttempts(h, i) \/ BackoffCancelled(h, i)
  BY <1>5 DEF StopAttempts, BackoffCancelled
<1>6. CASE BackoffElapsed(h, i)
  BY <1>6 DEF BackoffElapsed, Goto
<1>7. CASE DeadlineElapsed(h, i)
  BY <1>7 DEF DeadlineElapsed, Leave
<1>8. ASSUME NEW r \in OperationResults, Return(h, i, r)
      PROVE  \/ Quiet(h, i) \/ Succeed(h, i) \/ \E e \in StageErrors : Fail(h, i, e)
  BY <1>8 DEF Return, OperationResults, Goto
<1> QED
  BY <1>1, <1>2, <1>3, <1>4, <1>5, <1>6, <1>7, <1>8 DEF StageWork, StageStep

\* A step of scope h leaves the records of every other scope as they are.
LEMMA OthersRecords ==
  ASSUME TypeOK, NEW h \in Handles, NEW k \in Handles, k # h,
         \/ \E p \in Plans : Execute(h, p)
         \/ RootStep(h)
         \/ \E i \in Branch : StageWork(h, i) \/ RootPanics(h, i)
         \/ CallerWork(h)
  PROVE  SameRecords(k)
<1> USE DEF rootVars, stageVars, callerVars, SameRecords
<1>0. /\ attempt \in [Handles -> [Branch -> Nat]]
      /\ log \in [Handles -> Seq(Events)] /\ evidence \in [Handles -> Seq(Events)]
      /\ childLog \in [Handles -> [Branch -> Seq(Events)]]
      /\ outputs \in [Handles -> Seq(Nat)] /\ joined \in [Handles -> Seq(Branch)]
  BY DEF TypeOK, RootOK, StageOK, LogOK
<1>1. ASSUME NEW p \in Plans, Execute(h, p) PROVE SameRecords(k)
  BY <1>1 DEF Execute
<1>2. CASE RootStep(h)
  <2>0. UNCHANGED callerVars
    BY <1>2, RootFrame
  <2>1. CASE \/ Start(h) \/ ObserveCancellation(h) \/ AdmitGroup(h) \/ MissingInput(h)
             \/ GroupsExhausted(h) \/ EmptySerial(h) \/ FanOutFailed(h) \/ Finish(h)
             \/ Snapshot(h)
    BY <1>0, <2>0, <2>1 DEF Start, ObserveCancellation, AdmitGroup, MissingInput,
                GroupsExhausted, Conclude, EmptySerial, FanOutFailed, Finish, Snapshot
  <2>2. CASE StartSerial(h) \/ StartFanOut(h)
    BY <1>0, <2>0, <2>2 DEF StartSerial, StartFanOut, EnterStages
  <2>3. ASSUME NEW i \in Branch,
               SerialContinue(h, i) \/ SerialDone(h, i) \/ SerialFailed(h, i)
        PROVE  SameRecords(k)
    BY <1>0, <2>0, <2>3 DEF SerialContinue, SerialDone, SerialFailed
  <2>4. ASSUME NEW i \in Branch, JoinOk(h, i) \/ JoinError(h, i) PROVE SameRecords(k)
    BY <1>0, <2>0, <2>4 DEF JoinOk, JoinError, JoinChild
  <2>5. CASE FanOutJoined(h)
    BY <1>0, <2>0, <2>5 DEF FanOutJoined
  <2> QED
    BY <1>2, <2>1, <2>2, <2>3, <2>4, <2>5 DEF RootStep
<1>3. ASSUME NEW i \in Branch, StageWork(h, i) PROVE SameRecords(k)
  <2>1. UNCHANGED <<rootVars, callerVars, evidence>>
    BY <1>3, StageMove
  <2>2. CASE Quiet(h, i)
    BY <2>1, <2>2 DEF Quiet
  <2>3. CASE Call(h, i)
    BY <1>0, <2>1, <2>3 DEF Call, Emit
  <2>4. CASE Succeed(h, i) \/ \E r \in StageErrors : Fail(h, i, r)
    BY <1>0, <2>1, <2>4 DEF Succeed, Fail, Emit
  <2>5. CASE ChildPanics(h, i)
    BY <1>0, <2>1, <2>5 DEF ChildPanics
  <2> QED
    BY <1>3, <2>2, <2>3, <2>4, <2>5, StageRecord
<1>4. ASSUME NEW i \in Branch, RootPanics(h, i) PROVE SameRecords(k)
  BY <1>4 DEF RootPanics
<1>5. CASE CallerWork(h)
  <2>1. /\ waiter \in [Handles -> WaiterPoints]
        /\ answer \in [Handles -> StageErrors \cup {"None", "Ok"}]
        /\ supervised \in [Handles -> BOOLEAN]
    BY DEF TypeOK, CallerOK
  <2> QED
    BY <1>0, <1>5, <2>1, CallerFrame DEF CallerWork, CallerStep, Cancel, Wait, WaitJoined,
       WaitCancelled, GraceElapsed, Detach, Reap
<1> QED
  BY <1>1, <1>2, <1>3, <1>4, <1>5

\* A step of scope h.
ScopeWork(h) ==
  \/ \E p \in Plans : Execute(h, p)
  \/ RootStep(h)
  \/ \E i \in Branch : StageWork(h, i) \/ RootPanics(h, i)
  \/ CallerWork(h)

\* While the root stays in a group, a step enters the group, joins a stage
\* execution or hands over to the next, or is of a stage or of the caller.
LEMMA GroupStep ==
  ASSUME TypeOK, NEW h \in Handles, ScopeWork(h), root'[h] \in {"serial", "fanout"}
  PROVE  /\ plan' = plan /\ group' = group
         /\ \/ StartSerial(h) \/ StartFanOut(h)
            \/ \E i \in Branch : \/ SerialContinue(h, i) \/ JoinOk(h, i) \/ JoinError(h, i)
                                 \/ StageWork(h, i)
            \/ CallerWork(h)
<1> USE DEF rootVars, stageVars
<1>0. root \in [Handles -> RootPoints]
  BY DEF TypeOK, RootOK
<1>1. ASSUME NEW p \in Plans, Execute(h, p) PROVE FALSE
  BY <1>0, <1>1 DEF Execute
<1>2. CASE \/ Start(h) \/ ObserveCancellation(h) \/ AdmitGroup(h) \/ MissingInput(h)
           \/ GroupsExhausted(h) \/ FanOutFailed(h) \/ Finish(h) \/ Snapshot(h)
  BY <1>0, <1>2 DEF Start, ObserveCancellation, AdmitGroup, MissingInput, GroupsExhausted,
                    Conclude, FanOutFailed, Finish, Snapshot
<1>3. CASE EmptySerial(h) \/ FanOutJoined(h)
  BY <1>0, <1>3 DEF EmptySerial, FanOutJoined
<1>4. CASE StartSerial(h) \/ StartFanOut(h)
  BY <1>4 DEF StartSerial, StartFanOut
<1>5. ASSUME NEW i \in Branch, SerialDone(h, i) \/ SerialFailed(h, i) \/ RootPanics(h, i)
      PROVE  FALSE
  BY <1>0, <1>5 DEF SerialDone, SerialFailed, RootPanics
<1>6. ASSUME NEW i \in Branch, SerialContinue(h, i) \/ JoinOk(h, i) \/ JoinError(h, i)
      PROVE  plan' = plan /\ group' = group
  BY <1>6 DEF SerialContinue, JoinOk, JoinError, JoinChild
<1>7. ASSUME NEW i \in Branch, StageWork(h, i) PROVE plan' = plan /\ group' = group
  BY <1>7, StageMove
<1>8. CASE CallerWork(h)
  BY <1>8, CallerFrame
<1> QED
  BY <1>1, <1>2, <1>3, <1>4, <1>5, <1>6, <1>7, <1>8 DEF ScopeWork, RootStep

-----------------------------------------------------------------------------
(* Attempts.                                                               *)

\* Points from which another attempt may start.
BeforeAttempt == {"queued", "enter", "check", "call", "backoff"}

\* A stage execution that may still start an attempt has one left, and one
\* that has not been entered has made none.
AttemptInv(h) ==
  \A i \in Branch :
    /\ i \in LiveStages(h) => attempt[h][i] <= StageOf(h, i).max_attempts
    /\ pc[h][i] \in BeforeAttempt => attempt[h][i] < StageOf(h, i).max_attempts
    /\ root[h] = "serial" /\ pc[h][i] = "idle" => attempt[h][i] = 0

\* Every step of a scope keeps its attempts within the retry policies.
LEMMA AttemptStep ==
  ASSUME IInv, IInv', NEW h \in Handles, AttemptInv(h), ScopeWork(h)
  PROVE  AttemptInv(h)'
<1> USE DEF rootVars, stageVars
<1>0. /\ TypeOK /\ ScopeInv(h) /\ ScopeInv(h)' /\ Placed
      /\ pc \in [Handles -> [Branch -> StagePoints]]
      /\ attempt \in [Handles -> [Branch -> Nat]]
      /\ pc' \in [Handles -> [Branch -> StagePoints]]
      /\ attempt' \in [Handles -> [Branch -> Nat]]
  BY DEF IInv, TypeOK, StageOK, Placed, ScopeInv
<1>1. CASE root'[h] \notin {"serial", "fanout"}
  <2>1. (LiveStages(h))' = {}
    BY <1>0, <1>1 DEF ScopeInv, PlacedIn
  <2> QED
    BY <1>1, <2>1 DEF AttemptInv, LiveStages, BeforeAttempt
<1>2. CASE root'[h] \in {"serial", "fanout"}
  <2>0. plan' = plan /\ group' = group
    BY <1>0, <1>2, GroupStep
  <2>1. \A i : (StageOf(h, i))' = StageOf(h, i)
    BY <2>0 DEF StageOf, Current
  <2>2. \A i \in (LiveStages(h))' : StageOf(h, i).max_attempts \in Nat \ {0}
    <3>1. group[h] \in DOMAIN plan[h] /\ (Width(h))' = Width(h)
      BY <1>0, <1>2, <2>0 DEF ScopeInv, PlacedIn, Width, Current
    <3>2. \A i \in (LiveStages(h))' : i \in Branch /\ i <= Width(h)
      BY <1>0, <3>1 DEF ScopeInv, PlacedIn, LiveStages
    <3>3. \A i \in 1 .. Width(h) : StageOf(h, i) \in Stage
      BY <1>0, <3>1, GroupType
    <3>4. \A i \in (LiveStages(h))' : i \in 1 .. Width(h)
      BY <1>0, <3>1, <3>2, GroupType, Bounds DEF Branch
    <3> QED
      BY <3>3, <3>4 DEF Stage
  <2>3. \A i \in Branch : pc'[h][i] \in BeforeAttempt => i \in (LiveStages(h))'
    BY DEF LiveStages, BeforeAttempt
  <2>4. ASSUME \A i \in Branch : attempt'[h][i] = 0 PROVE AttemptInv(h)'
    BY <2>1, <2>2, <2>3, <2>4 DEF AttemptInv
  <2>5. CASE StartSerial(h) \/ StartFanOut(h)
    <3>1. attempt' = [attempt EXCEPT ![h] = [i \in Branch |-> 0]]
      BY <2>5 DEF StartSerial, StartFanOut, EnterStages
    <3> QED
      BY <1>0, <2>4, <3>1
  <2>6. ASSUME NEW i \in Branch, SerialContinue(h, i) PROVE AttemptInv(h)'
    <3>1. /\ pc[h][i] = "finished" /\ root[h] = "serial" /\ attempt' = attempt
          /\ pc'[h] = [pc[h] EXCEPT ![i] = "joined", ![i + 1] = "enter"]
      BY <1>0, <2>6 DEF SerialContinue
    <3>2. \A j \in Branch : j # i /\ j # i + 1 => pc'[h][j] = pc[h][j]
      BY <1>0, <3>1
    <3>3. i \in LiveStages(h)
      BY <3>1 DEF LiveStages
    <3>4. i + 1 \in Branch => attempt[h][i + 1] = 0
      <4>1. i + 1 > i
        BY Bounds DEF Branch
      <4> QED
        BY <1>0, <3>1, <3>3, <4>1 DEF ScopeInv, SerialOrder, AttemptInv
    <3>5. pc'[h][i] = "joined"
      <4>1. i # i + 1
        BY Bounds DEF Branch
      <4> QED
        BY <1>0, <3>1, <4>1
    <3>6. ASSUME NEW j \in Branch, j # i, j # i + 1
          PROVE  /\ j \in (LiveStages(h))' => attempt'[h][j] <= StageOf(h, j).max_attempts
                 /\ pc'[h][j] \in BeforeAttempt => attempt'[h][j] < StageOf(h, j).max_attempts
                 /\ pc'[h][j] = "idle" => attempt'[h][j] = 0
      BY <3>1, <3>2, <3>6 DEF AttemptInv, LiveStages
    <3>7. i \notin (LiveStages(h))' /\ pc'[h][i] \notin BeforeAttempt \cup {"idle"}
      BY <3>5 DEF LiveStages, BeforeAttempt
    <3>8. ASSUME i + 1 \in Branch
          PROVE  /\ i + 1 \in (LiveStages(h))' => 0 <= StageOf(h, i + 1).max_attempts
                 /\ pc'[h][i + 1] \in BeforeAttempt => 0 < StageOf(h, i + 1).max_attempts
      BY <2>2, <2>3, <3>8
    <3> QED
      BY <2>1, <3>1, <3>4, <3>6, <3>7, <3>8 DEF AttemptInv
  <2>7. ASSUME NEW i \in Branch, JoinOk(h, i) \/ JoinError(h, i) PROVE AttemptInv(h)'
    <3>1. /\ pc' = [pc EXCEPT ![h][i] = "joined"] /\ attempt' = attempt /\ root' = root
      BY <2>7 DEF JoinOk, JoinError, JoinChild
    <3>2. \A j \in Branch : pc'[h][j] = IF j = i THEN "joined" ELSE pc[h][j]
      BY <1>0, <3>1
    <3> QED
      BY <2>1, <3>1, <3>2 DEF AttemptInv, LiveStages, BeforeAttempt
  <2>8. ASSUME NEW i \in Branch, StageWork(h, i) PROVE AttemptInv(h)'
    <3>0. /\ root' = root /\ pc[h][i] \in Working /\ i \in LiveStages(h)
          /\ StageOf(h, i).max_attempts \in Nat
      BY <1>0, <2>8, StageMove, WorkingLive, LiveStage
    <3>1. ASSUME NEW point \in StagePoints \ {"idle", "joined"},
                 pc' = [pc EXCEPT ![h][i] = point],
                 \A j \in Branch : j # i => attempt'[h][j] = attempt[h][j],
                 attempt'[h][i] <= StageOf(h, i).max_attempts,
                 point \in BeforeAttempt => attempt'[h][i] < StageOf(h, i).max_attempts
          PROVE  AttemptInv(h)'
      <4>1. \A j \in Branch : pc'[h][j] = IF j = i THEN point ELSE pc[h][j]
        BY <1>0, <3>1
      <4> QED
        BY <2>1, <3>0, <3>1, <4>1 DEF AttemptInv, LiveStages
    <3>2. attempt[h][i] <= StageOf(h, i).max_attempts
      BY <3>0 DEF AttemptInv
    <3>3. CASE Quiet(h, i)
      <4>1. PICK point \in StagePoints :
              /\ pc' = [pc EXCEPT ![h][i] = point]
              /\ point \notin {"idle", "joined"}
              /\ point \in BeforeAttempt => pc[h][i] \in BeforeAttempt \/ RetriesLeft(h, i)
        BY <3>3 DEF Quiet, BeforeAttempt
      <4>2. point \in BeforeAttempt => attempt[h][i] < StageOf(h, i).max_attempts
        BY <4>1 DEF AttemptInv, RetriesLeft
      <4> QED
        BY <3>1, <3>2, <3>3, <4>1, <4>2 DEF Quiet
    <3>4. CASE Call(h, i)
      <4>1. /\ pc[h][i] = "call" /\ pc' = [pc EXCEPT ![h][i] = "running"]
            /\ attempt' = [attempt EXCEPT ![h][i] = @ + 1]
        BY <3>4 DEF Call, Goto
      <4>2. /\ attempt'[h][i] = attempt[h][i] + 1 /\ attempt[h][i] \in Nat
            /\ \A j \in Branch : j # i => attempt'[h][j] = attempt[h][j]
        BY <1>0, <4>1
      <4>3. attempt[h][i] < StageOf(h, i).max_attempts
        BY <4>1 DEF AttemptInv, BeforeAttempt
      <4>4. attempt'[h][i] <= StageOf(h, i).max_attempts
        BY <3>0, <4>2, <4>3
      <4>5. "running" \in StagePoints \ {"idle", "joined"} /\ "running" \notin BeforeAttempt
        BY DEF StagePoints, BeforeAttempt
      <4> QED
        BY <3>1, <4>1, <4>2, <4>4, <4>5
    <3>5. CASE Succeed(h, i) \/ ChildPanics(h, i) \/ \E r \in StageErrors : Fail(h, i, r)
      <4>1. pc' = [pc EXCEPT ![h][i] = "finished"] /\ attempt' = attempt
        BY <3>5 DEF Succeed, Fail, ChildPanics, Leave
      <4>2. "finished" \in StagePoints \ {"idle", "joined"} /\ "finished" \notin BeforeAttempt
        BY DEF StagePoints, BeforeAttempt
      <4> QED
        BY <3>1, <3>2, <4>1, <4>2
    <3> QED
      BY <2>8, <3>3, <3>4, <3>5, StageRecord
  <2>9. CASE CallerWork(h)
    <3>1. UNCHANGED <<root, pc, attempt>>
      BY <2>9, CallerFrame
    <3> QED
      BY <2>1, <3>1 DEF AttemptInv, LiveStages
  <2> QED
    BY <1>0, <1>2, <2>5, <2>6, <2>7, <2>8, <2>9, GroupStep
<1> QED
  BY <1>1, <1>2

-----------------------------------------------------------------------------
(* Events.                                                                 *)

\* Events other than the record of a cancellation.
PlainEvents == {e \in Events : e # CancelledEvent}

DetachEvents == <<ScopeEvent("CancellationGraceElapsed"), ScopeEvent("TaskDetached")>>

\* How a step writes to the logs of its scope: it pushes one event, records
\* the cancellation, or appends the events of a child or of a detachment; a
\* child's log is pushed to, handed over or lost.
LogMoves(h) ==
  /\ \/ log'[h] = log[h]
     \/ \E e \in PlainEvents : log'[h] = Push(log[h], e)
     \/ log'[h] = Cancelled(log[h])
     \/ \E i \in Branch : log'[h] = Extend(log[h], childLog[h][i])
     \/ log'[h] = Extend(log[h], DetachEvents)
  /\ \A i \in Branch : \/ childLog'[h][i] = childLog[h][i]
                       \/ childLog'[h][i] = <<>>
                       \/ \E e \in PlainEvents : childLog'[h][i] = Push(childLog[h][i], e)

\* An event of another kind is not the record of a cancellation.
LEMMA PlainEvent ==
  ASSUME NEW kind, NEW stage, NEW number, NEW error, kind # "Cancelled",
         Event(kind, stage, number, error) \in Events
  PROVE  Event(kind, stage, number, error) \in PlainEvents
<1>1. Event(kind, stage, number, error).kind = kind /\ CancelledEvent.kind = "Cancelled"
  BY DEF Event, CancelledEvent, ScopeEvent
<1> QED
  BY <1>1 DEF PlainEvents

\* The events that run, run_fan_out and run_stage push are plain.
LEMMA PushedEvents ==
  ASSUME TypeOK, Placed, NEW h \in Handles
  PROVE  /\ ScopeEvent("Started") \in PlainEvents
         /\ ScopeEvent("Completed") \in PlainEvents
         /\ \A n \in Nat : /\ Event("FanOutStarted", "", n, "") \in PlainEvents
                           /\ Event("Joined", "", n, "") \in PlainEvents
         /\ \A i \in LiveStages(h) : \A n \in Nat : \A r \in StageErrors :
              LET name == StageOf(h, i).name
              IN /\ Event("StageAttempt", name, n, "") \in PlainEvents
                 /\ Event("StageSucceeded", name, 0, "") \in PlainEvents
                 /\ Event("StageFailed", name, 0, r) \in PlainEvents
<1>1. \A n \in Nat : /\ Event("Started", "", n, "") \in PlainEvents
                     /\ Event("Completed", "", n, "") \in PlainEvents
                     /\ Event("FanOutStarted", "", n, "") \in PlainEvents
                     /\ Event("Joined", "", n, "") \in PlainEvents
  <2>1. \A kind \in {"Started", "Completed", "FanOutStarted", "Joined"} :
          kind \in ScopeEvents /\ kind # "Cancelled"
    BY DEF ScopeEvents
  <2> QED
    BY <2>1, ScopeEventType, PlainEvent
<1>2. ASSUME NEW i \in LiveStages(h), NEW n \in Nat, NEW r \in StageErrors
      PROVE  /\ Event("StageAttempt", StageOf(h, i).name, n, "") \in PlainEvents
             /\ Event("StageSucceeded", StageOf(h, i).name, 0, "") \in PlainEvents
             /\ Event("StageFailed", StageOf(h, i).name, 0, r) \in PlainEvents
  <2>1. StageOf(h, i).name \in Names
    BY LiveStage
  <2>2. \A kind \in StageEvents : kind # "Cancelled"
    BY DEF StageEvents
  <2>3. {"StageAttempt", "StageSucceeded", "StageFailed"} \subseteq StageEvents
    BY DEF StageEvents
  <2> QED
    BY <2>1, <2>2, <2>3, StageEventType, PlainEvent
<1> QED
  BY <1>1, <1>2 DEF ScopeEvent

\* The log a stage execution emits to is pushed to.
LEMMA EmitMoves ==
  ASSUME TypeOK, NEW h \in Handles, NEW i \in Branch, NEW e \in PlainEvents, Emit(h, i, e)
  PROVE  LogMoves(h)
<1>1. /\ log \in [Handles -> Seq(Events)]
      /\ childLog \in [Handles -> [Branch -> Seq(Events)]]
  BY DEF TypeOK, LogOK
<1>2. CASE root[h] = "serial"
  BY <1>1, <1>2 DEF Emit, LogMoves
<1>3. CASE root[h] # "serial"
  <2>1. log' = log /\ childLog' = [childLog EXCEPT ![h][i] = Push(childLog[h][i], e)]
    BY <1>1, <1>3 DEF Emit
  <2>2. \A j \in Branch : childLog'[h][j] = IF j = i THEN Push(childLog[h][i], e) ELSE childLog[h][j]
    BY <1>1, <2>1
  <2> QED
    BY <2>1, <2>2 DEF LogMoves
<1> QED
  BY <1>2, <1>3

\* Every step of a scope writes to its logs in one of these ways.
LEMMA LogStep ==
  ASSUME TypeOK, Placed, NEW h \in Handles, ScopeWork(h)
  PROVE  LogMoves(h)
<1> USE DEF rootVars, stageVars
<1>0. /\ log \in [Handles -> Seq(Events)]
      /\ childLog \in [Handles -> [Branch -> Seq(Events)]]
  BY DEF TypeOK, LogOK
<1>1. ASSUME UNCHANGED <<log, childLog>> PROVE LogMoves(h)
  BY <1>1 DEF LogMoves
<1>2. ASSUME NEW e \in PlainEvents, log' = [log EXCEPT ![h] = Push(log[h], e)],
             childLog' = childLog \/ childLog' = [childLog EXCEPT ![h] = [i \in Branch |-> <<>>]]
      PROVE  LogMoves(h)
  BY <1>0, <1>2 DEF LogMoves
<1>3. CASE RootStep(h)
  <2>1. CASE Start(h)
    BY <1>0, <1>2, <2>1, PushedEvents DEF Start
  <2>2. CASE StartSerial(h)
    BY <1>0, <2>2 DEF StartSerial, EnterStages, LogMoves
  <2>3. CASE StartFanOut(h)
    <3>1. Width(h) \in Nat
      BY <2>3, GroupType DEF StartFanOut, EnterGroup, Placed, PlacedIn
    <3>2. Event("FanOutStarted", "", Width(h), "") \in PlainEvents
      BY <3>1, PushedEvents
    <3> QED
      BY <1>0, <1>2, <2>3, <3>2 DEF StartFanOut, EnterStages
  <2>4. ASSUME NEW i \in Branch, JoinChild(h, i) PROVE LogMoves(h)
    <3>1. /\ log' = [log EXCEPT ![h] = Extend(log[h], childLog[h][i])]
          /\ childLog' = [childLog EXCEPT ![h][i] = <<>>]
      BY <1>0, <2>4 DEF JoinChild
    <3>2. \A j \in Branch : childLog'[h][j] \in {childLog[h][j], <<>>}
      BY <1>0, <3>1
    <3> QED
      BY <1>0, <3>1, <3>2 DEF LogMoves
  <2>5. CASE FanOutJoined(h)
    <3>1. Len(joined[h]) \in Nat
      BY SeqLength DEF TypeOK, RootOK
    <3>2. Event("Joined", "", Len(joined[h]), "") \in PlainEvents
      BY <3>1, PushedEvents
    <3> QED
      BY <1>0, <1>2, <2>5, <3>2 DEF FanOutJoined
  <2>6. CASE Finish(h)
    <3>1. ScopeEvent("Completed") \in PlainEvents
      BY PushedEvents
    <3>2. /\ log'[h] \in {log[h], Cancelled(log[h]), Push(log[h], ScopeEvent("Completed"))}
          /\ childLog' = childLog
      BY <1>0, <2>6 DEF Finish
    <3> QED
      BY <3>1, <3>2 DEF LogMoves
  <2>7. CASE \/ ObserveCancellation(h) \/ AdmitGroup(h) \/ MissingInput(h)
             \/ GroupsExhausted(h) \/ EmptySerial(h) \/ FanOutFailed(h) \/ Snapshot(h)
             \/ \E i \in Branch : SerialContinue(h, i) \/ SerialDone(h, i) \/ SerialFailed(h, i)
    BY <1>1, <2>7 DEF Conclude, ObserveCancellation, AdmitGroup, MissingInput,
           GroupsExhausted, EmptySerial, FanOutFailed, Snapshot, SerialContinue, SerialDone, SerialFailed
  <2> QED
    BY <1>3, <2>1, <2>2, <2>3, <2>4, <2>5, <2>6, <2>7 DEF RootStep, JoinOk, JoinError
<1>4. ASSUME NEW i \in Branch, StageWork(h, i) PROVE LogMoves(h)
  <2>1. i \in LiveStages(h)
    BY <1>4, StageMove, WorkingLive
  <2>2. CASE Quiet(h, i)
    BY <1>1, <2>2 DEF Quiet
  <2>3. CASE Call(h, i)
    <3>1. attempt[h][i] + 1 \in Nat /\ "Fatal" \in StageErrors
      BY DEF TypeOK, StageOK, StageErrors
    <3>2. Event("StageAttempt", StageOf(h, i).name, attempt[h][i] + 1, "") \in PlainEvents
      BY <2>1, <3>1, PushedEvents
    <3> QED
      BY <2>3, <3>2, EmitMoves DEF Call
  <2>4. CASE Succeed(h, i)
    <3>1. "Fatal" \in StageErrors
      BY DEF StageErrors
    <3> QED
      BY <2>1, <2>4, <3>1, PushedEvents, EmitMoves DEF Succeed
  <2>5. ASSUME NEW r \in StageErrors, Fail(h, i, r) PROVE LogMoves(h)
    BY <2>1, <2>5, PushedEvents, EmitMoves DEF Fail
  <2>6. CASE ChildPanics(h, i)
    <3>1. childLog' = [childLog EXCEPT ![h][i] = <<>>] /\ log' = log
      BY <2>6 DEF ChildPanics
    <3>2. \A j \in Branch : childLog'[h][j] \in {childLog[h][j], <<>>}
      BY <1>0, <3>1
    <3> QED
      BY <3>1, <3>2 DEF LogMoves
  <2> QED
    BY <1>4, <2>2, <2>3, <2>4, <2>5, <2>6, StageRecord
<1>5. CASE CallerWork(h)
  <2>1. childLog' = childLog
    BY <1>5, CallerFrame
  <2>2. CASE WaitCancelled(h)
    BY <1>0, <2>1, <2>2 DEF WaitCancelled, LogMoves
  <2>3. CASE Detach(h)
    <3>1. log'[h] = Extend(log[h], DetachEvents)
      BY <1>0, <2>3 DEF Detach, DetachEvents
    <3> QED
      BY <2>1, <3>1 DEF LogMoves
  <2>4. CASE Cancel(h) \/ Wait(h) \/ WaitJoined(h) \/ GraceElapsed(h) \/ Reap(h)
    BY <1>1, <2>1, <2>4 DEF Cancel, Wait, WaitJoined, GraceElapsed, Reap
  <2> QED
    BY <1>5, <2>2, <2>3, <2>4 DEF CallerWork, CallerStep
<1>6. CASE (\E p \in Plans : Execute(h, p)) \/ \E i \in Branch : RootPanics(h, i)
  BY <1>1, <1>6 DEF Execute, RootPanics
<1> QED
  BY <1>3, <1>4, <1>5, <1>6 DEF ScopeWork

\* The root's log shows at most one cancellation, and no child records one.
CancelledInv(h) ==
  /\ AtMostOnce(log[h], CancelledEvent)
  /\ \A i \in Branch : ~Mentions(childLog[h][i], CancelledEvent)

\* Every step of a scope keeps it so: only cancelled() records a cancellation,
\* and it looks for an earlier one first.
LEMMA CancelledStep ==
  ASSUME TypeOK, Placed, NEW h \in Handles, CancelledInv(h), ScopeWork(h)
  PROVE  CancelledInv(h)'
<1>0. /\ log[h] \in Seq(Events) /\ Bounded(log[h])
      /\ \A i \in Branch : childLog[h][i] \in Seq(Events) /\ Bounded(childLog[h][i])
  BY DEF TypeOK, LogOK
<1>1. LogMoves(h)
  BY LogStep
<1>2. /\ CancelledEvent \in Events
      /\ \A e \in PlainEvents : e \in Events /\ CancelledEvent # e
  <2>1. "Cancelled" \in ScopeEvents
    BY DEF ScopeEvents
  <2> QED
    BY <2>1, ScopeEventType DEF CancelledEvent, PlainEvents
<1>3. DetachEvents \in Seq(Events) /\ ~Mentions(DetachEvents, CancelledEvent)
  <2>1. \A kind \in {"CancellationGraceElapsed", "TaskDetached"} :
          kind \in ScopeEvents /\ kind # "Cancelled"
    BY DEF ScopeEvents
  <2>2. /\ ScopeEvent("CancellationGraceElapsed") \in PlainEvents
        /\ ScopeEvent("TaskDetached") \in PlainEvents
    BY <2>1, ScopeEventType, PlainEvent DEF ScopeEvent
  <2> QED
    BY <1>2, <2>2 DEF DetachEvents, Mentions
<1>4. AtMostOnce(log'[h], CancelledEvent)
  <2>1. CASE log'[h] = log[h]
    BY <2>1 DEF CancelledInv
  <2>2. ASSUME NEW e \in PlainEvents, log'[h] = Push(log[h], e)
        PROVE  AtMostOnce(log'[h], CancelledEvent)
    <3>1. AddsOne(log[h], e, Push(log[h], e), CancelledEvent)
      BY <1>0, <1>2, PushMentions
    <3> QED
      BY <1>2, <2>2, <3>1 DEF AddsOne, CancelledInv
  <2>3. CASE log'[h] = Cancelled(log[h])
    <3>1. AddsOne(log[h], CancelledEvent, Push(log[h], CancelledEvent), CancelledEvent)
      BY <1>0, <1>2, PushMentions
    <3> QED
      BY <2>1, <2>3, <3>1 DEF AddsOne, Cancelled
  <2>4. ASSUME NEW i \in Branch, log'[h] = Extend(log[h], childLog[h][i])
        PROVE  AtMostOnce(log'[h], CancelledEvent)
    <3>1. Adds(log[h], childLog[h][i], Extend(log[h], childLog[h][i]), CancelledEvent)
      BY <1>0, ExtendMentions
    <3> QED
      BY <2>4, <3>1 DEF Adds, CancelledInv
  <2>5. CASE log'[h] = Extend(log[h], DetachEvents)
    <3>1. Adds(log[h], DetachEvents, Extend(log[h], DetachEvents), CancelledEvent)
      BY <1>0, <1>3, ExtendMentions
    <3> QED
      BY <1>3, <2>5, <3>1 DEF Adds, CancelledInv
  <2> QED
    BY <1>1, <2>1, <2>2, <2>3, <2>4, <2>5 DEF LogMoves
<1>5. ASSUME NEW i \in Branch PROVE ~Mentions(childLog'[h][i], CancelledEvent)
  <2>1. CASE childLog'[h][i] = childLog[h][i]
    BY <2>1 DEF CancelledInv
  <2>2. CASE childLog'[h][i] = <<>>
    BY <2>2 DEF Mentions
  <2>3. ASSUME NEW e \in PlainEvents, childLog'[h][i] = Push(childLog[h][i], e)
        PROVE  ~Mentions(childLog'[h][i], CancelledEvent)
    <3>1. AddsOne(childLog[h][i], e, Push(childLog[h][i], e), CancelledEvent)
      BY <1>0, <1>2, PushMentions
    <3> QED
      BY <1>2, <2>3, <3>1 DEF AddsOne, CancelledInv
  <2> QED
    BY <1>1, <2>1, <2>2, <2>3 DEF LogMoves
<1> QED
  BY <1>4, <1>5 DEF CancelledInv

\* What a log with room to spare shows, it showed all along.
Grows(old, new) ==
  Room(new) => Room(old) /\ \A x : Mentions(old, x) => Mentions(new, x)

\* A scope's log only grows, until it is full.
LEMMA LogGrows ==
  ASSUME TypeOK, Placed, NEW h \in Handles, ScopeWork(h)
  PROVE  Grows(log[h], log'[h])
<1>0. /\ log[h] \in Seq(Events) /\ Bounded(log[h])
      /\ \A i \in Branch : childLog[h][i] \in Seq(Events)
  BY DEF TypeOK, LogOK
<1>1. ASSUME NEW e \in Events, log'[h] = Push(log[h], e) PROVE Grows(log[h], log'[h])
  <2>1. \A x : AddsOne(log[h], e, log'[h], x)
    BY <1>0, <1>1, PushMentions
  <2> QED
    BY <2>1 DEF AddsOne, Grows
<1>2. ASSUME NEW t \in Seq(Events), log'[h] = Extend(log[h], t) PROVE Grows(log[h], log'[h])
  <2>1. \A x : Adds(log[h], t, log'[h], x)
    BY <1>0, <1>2, ExtendMentions
  <2> QED
    BY <2>1 DEF Adds, Grows
<1>3. CASE log'[h] = log[h]
  BY <1>3 DEF Grows
<1>4. CASE log'[h] = Cancelled(log[h])
  <2>1. CancelledEvent \in Events
    BY ScopeEventType DEF CancelledEvent, ScopeEvents
  <2> QED
    BY <1>1, <1>3, <1>4, <2>1 DEF Cancelled
<1>5. DetachEvents \in Seq(Events)
  <2>1. /\ ScopeEvent("CancellationGraceElapsed") \in Events
        /\ ScopeEvent("TaskDetached") \in Events
    BY ScopeEventType DEF ScopeEvents
  <2> QED
    BY <2>1 DEF DetachEvents
<1> QED
  BY <1>0, <1>1, <1>2, <1>3, <1>4, <1>5, LogStep DEF LogMoves, PlainEvents
=============================================================================
