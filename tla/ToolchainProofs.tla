-------------------------- MODULE ToolchainProofs ---------------------------
(***************************************************************************)
(* Proofs about the toolchain, for every value of the constants: async     *)
(* tasks as they are lowered, and the package registry with its clients.   *)
(***************************************************************************)
EXTENDS AsyncTask, PackageRegistry, TLAPS

USE SMTT(4), ZenonT(10), SMTT(20), ZenonT(40), SMTT(40)

-----------------------------------------------------------------------------
(***************************************************************************)
(* AsyncTask: an async task runs as its function is written, for any       *)
(* number of awaits and any control.                                       *)
(***************************************************************************)
(* Sequences.                                                              *)

\* A sequence is a function on 1 .. Len.
LEMMA SeqLength ==
  ASSUME NEW S, NEW s \in Seq(S)
  PROVE  Len(s) \in Nat /\ DOMAIN s = 1 .. Len(s) /\ s \in [1 .. Len(s) -> S]
OBVIOUS

\* Sequences with the same entries are one.
LEMMA SameEntries ==
  ASSUME NEW S, NEW s \in Seq(S), NEW t \in Seq(S), Len(t) = Len(s),
         \A k \in 1 .. Len(s) : t[k] = s[k]
  PROVE  s = t
OBVIOUS

\* A sequence over some elements is one over more.
LEMMA SeqOfMore ==
  ASSUME NEW S, NEW T, S \subseteq T
  PROVE  Seq(S) \subseteq Seq(T)
OBVIOUS

\* Concatenation puts one sequence behind the other.
LEMMA Concatenated ==
  ASSUME NEW S, NEW s \in Seq(S), NEW t \in Seq(S)
  PROVE  /\ s \o t \in Seq(S) /\ Len(s \o t) = Len(s) + Len(t)
         /\ \A k \in 1 .. Len(s) + Len(t) :
              (s \o t)[k] = IF k <= Len(s) THEN s[k] ELSE t[k - Len(s)]
OBVIOUS

\* The empty sequence adds nothing.
LEMMA NothingMore ==
  ASSUME NEW S, NEW s \in Seq(S)
  PROVE  s \o <<>> = s /\ <<>> \o s = s
OBVIOUS

\* Concatenation is associative.
LEMMA Regrouped ==
  ASSUME NEW S, NEW s \in Seq(S), NEW t \in Seq(S), NEW u \in Seq(S)
  PROVE  (s \o t) \o u = s \o (t \o u)
OBVIOUS

-----------------------------------------------------------------------------
(* An async task runs as its function is written.                          *)

\* The events before a panic, and the events of a task whose locals are d.
CalmEvents == {<<"started">>, <<"cancelled">>} \cup ({"suspended", "woken", "resumed"} \X Nat)
EventsOf(d) == CalmEvents \cup {<<"panicked">>, <<"completed">>, <<"dropped", d>>}

\* The first k awaits were not interrupted, and what that leaves in the log.
Through(k) == control.kind = "run" \/ k <= control.await
Past(k) == <<<<"started">>>> \o Uninterrupted(k)

\* What has happened when the task is at a state of the machine.
AtStart == at = 0 /\ taskEvents = <<<<"started">>>>
AtSuspend(k) == at = 2 * k + 1 /\ Through(k) /\ taskEvents = Past(k)
AtResume(k) ==
  /\ at = 2 * k + 2 /\ lastAwait = k
  /\ Through(k) /\ ~Injected("cancel", k)
  /\ taskEvents = Past(k) \o <<<<"suspended", k>>, <<"woken", k>>>>
AtComplete(n) == at = 2 * n + 1 /\ Through(n) /\ taskEvents = Past(n)
AtDrop(n) ==
  /\ at = 2 * n + 2 /\ control.await < n
  /\ \/ /\ control.kind = "cancel"
        /\ taskEvents = Past(control.await) \o <<<<"suspended", control.await>>, <<"cancelled">>>>
     \/ /\ control.kind = "panic"
        /\ taskEvents = Past(control.await + 1) \o <<<<"panicked">>>>
Waiting(k) ==
  /\ suspension = <<k, 2 * k + 2>> /\ Through(k) /\ ~Injected("cancel", k)
  /\ taskEvents = Past(k) \o <<<<"suspended", k>>>>

\* The inductive invariant: where the task is tells what has happened.
TaskInv ==
  /\ function \in Functions /\ control \in Controls
  /\ phase \in {"lower", "run", "running", "pending", "end"}
  /\ phase # "end" => outcome = "none"
  /\ phase \notin {"lower", "end"} =>
       machine = BuildMachine(function) /\ VerifyAsyncMachine(machine)
  /\ phase \in {"lower", "run"} => at = 0 /\ taskEvents = <<>>
  /\ phase = "running" =>
       \/ AtStart
       \/ \E k \in Nat : k < function.awaits /\ (AtSuspend(k) \/ AtResume(k))
       \/ AtComplete(function.awaits) \/ AtDrop(function.awaits)
  /\ phase = "pending" => \E k \in Nat : k < function.awaits /\ Waiting(k)
  /\ phase = "end" => TaskRunsAsWritten

\* The states of a machine with n awaits that drops the locals d.
HasStates(states, n, d) ==
  /\ states[1] = [kind |-> "start", next |-> IF n = 0 THEN 2 * n + 1 ELSE 1]
  /\ \A k \in Nat : k < n =>
       /\ states[2 * k + 2] =
            [kind |-> "suspend", await |-> k, resume |-> 2 * k + 2, cancel |-> 2 * n + 2]
       /\ states[2 * k + 3] = [kind |-> "resume", next |-> 2 * k + 3, panic |-> 2 * n + 2]
  /\ states[2 * n + 2] = [kind |-> "complete"]
  /\ states[2 * n + 3] = [kind |-> "cancel", drops |-> d]

\* build_machine builds them.
LEMMA MachineStates ==
  ASSUME NEW f, NEW n \in Nat, f.awaits = n
  PROVE  HasStates(BuildMachine(f).states, n, Locals(f))
<1> DEFINE complete == 1 + 2 * n
           cancel == complete + 1
           Transition(i) ==
             IF i = 0 THEN [kind |-> "start", next |-> IF n = 0 THEN complete ELSE 1]
             ELSE IF i = complete THEN [kind |-> "complete"]
             ELSE IF i = cancel THEN [kind |-> "cancel", drops |-> Locals(f)]
             ELSE IF i % 2 = 1 THEN [kind |-> "suspend", await |-> (i - 1) \div 2,
                                     resume |-> i + 1, cancel |-> cancel]
             ELSE [kind |-> "resume", next |-> i + 1, panic |-> cancel]
           states == [k \in 1 .. cancel + 1 |-> Transition(k - 1)]
<1>1. BuildMachine(f).states = states
  BY DEF BuildMachine
<1>2. \A i \in 1 .. 2 * n + 3 : states[i] = Transition(i - 1)
  OBVIOUS
<1> HIDE DEF states, Transition
<1>3. ASSUME NEW k \in Nat, k < n
      PROVE  /\ states[2 * k + 2] =
                  [kind |-> "suspend", await |-> k, resume |-> 2 * k + 2, cancel |-> 2 * n + 2]
             /\ states[2 * k + 3] = [kind |-> "resume", next |-> 2 * k + 3, panic |-> 2 * n + 2]
  <2>1. 2 * k + 2 \in 1 .. 2 * n + 3 /\ 2 * k + 3 \in 1 .. 2 * n + 3
    BY <1>3
  <2>2. states[2 * k + 2] = Transition(2 * k + 1) /\ states[2 * k + 3] = Transition(2 * k + 2)
    BY <1>2, <2>1
  <2>3. (2 * k + 1) % 2 = 1 /\ (2 * k + 2) % 2 = 0 /\ (2 * k) \div 2 = k
    OBVIOUS
  <2>4. 2 * k + 1 \notin {0, complete, cancel} /\ 2 * k + 2 \notin {0, complete, cancel}
    BY <1>3
  <2>5. Transition(2 * k + 1) =
          [kind |-> "suspend", await |-> k, resume |-> 2 * k + 2, cancel |-> 2 * n + 2]
    BY <2>3, <2>4 DEF Transition
  <2>6. Transition(2 * k + 2) = [kind |-> "resume", next |-> 2 * k + 3, panic |-> 2 * n + 2]
    BY <2>3, <2>4 DEF Transition
  <2> QED
    BY <2>2, <2>5, <2>6
<1>4. 1 \in 1 .. 2 * n + 3 /\ 2 * n + 2 \in 1 .. 2 * n + 3 /\ 2 * n + 3 \in 1 .. 2 * n + 3
  OBVIOUS
<1>5. Transition(0) = [kind |-> "start", next |-> IF n = 0 THEN 2 * n + 1 ELSE 1]
  BY DEF Transition
<1>6. Transition(2 * n + 1) = [kind |-> "complete"]
  BY DEF Transition
<1>7. Transition(2 * n + 2) = [kind |-> "cancel", drops |-> Locals(f)]
  BY DEF Transition
<1> QED
  BY <1>1, <1>2, <1>3, <1>4, <1>5, <1>6, <1>7 DEF HasStates

\* t has the m elements of s and the n of u behind them.
Consists(t, s, u, m, n) ==
  /\ Len(s) = m /\ Len(u) = n /\ Len(t) = m + n
  /\ (\A i \in 1 .. m : t[i] = s[i]) /\ \A i \in 1 .. n : t[m + i] = u[i]

\* Such a sequence is their concatenation.
LEMMA ConsistsOf ==
  ASSUME NEW S, NEW s \in Seq(S), NEW t \in Seq(S), NEW u \in Seq(S), NEW m \in Nat, NEW n \in Nat
  PROVE  Consists(t, s, u, m, n) => t = s \o u
<1>1. ASSUME Len(s) = m, Len(u) = n, Len(t) = m + n,
             \A i \in 1 .. m : t[i] = s[i], \A i \in 1 .. n : t[m + i] = u[i]
      PROVE  t = s \o u
  <2>1. /\ s \o u \in Seq(S) /\ Len(s \o u) = Len(s) + Len(u)
        /\ \A i \in 1 .. Len(s) + Len(u) :
             (s \o u)[i] = IF i <= Len(s) THEN s[i] ELSE u[i - Len(s)]
    BY Concatenated
  <2>2. /\ Len(s \o u) = m + n
        /\ \A i \in 1 .. m + n : (s \o u)[i] = IF i <= m THEN s[i] ELSE u[i - m]
    BY <1>1, <2>1
  <2>3. ASSUME NEW i \in 1 .. m + n PROVE t[i] = (s \o u)[i]
    <3>1. CASE i <= m
      BY <1>1, <2>2, <3>1
    <3>2. CASE ~(i <= m)
      <4>1. i - m \in 1 .. n /\ m + (i - m) = i
        BY <3>2
      <4> QED
        BY <1>1, <2>2, <3>2, <4>1
    <3> QED
      BY <3>1, <3>2
  <2> QED
    BY <1>1, <2>1, <2>2, <2>3, SameEntries
<1> QED
  BY <1>1 DEF Consists

\* The log of k + 1 awaits is the log of k of them and one round more.
LEMMA OneMoreAwait ==
  ASSUME NEW k \in Nat
  PROVE  /\ Past(k) \in Seq(CalmEvents) /\ Uninterrupted(k) \in Seq(CalmEvents)
         /\ Past(k + 1) = Past(k) \o <<<<"suspended", k>>, <<"woken", k>>, <<"resumed", k>>>>
<1> DEFINE E == CalmEvents
           round == <<<<"suspended", k>>, <<"woken", k>>, <<"resumed", k>>>>
           Event(j) == <<CASE j % 3 = 1 -> "suspended" [] j % 3 = 2 -> "woken"
                           [] OTHER -> "resumed", (j - 1) \div 3>>
<1>1. \A j \in Nat \ {0} : Event(j) \in E
  <2> SUFFICES ASSUME NEW j \in Nat \ {0} PROVE Event(j) \in E
    OBVIOUS
  <2>1. (j - 1) \div 3 \in Nat
    OBVIOUS
  <2>2. PICK w \in {"suspended", "woken", "resumed"} :
          w = CASE j % 3 = 1 -> "suspended" [] j % 3 = 2 -> "woken" [] OTHER -> "resumed"
    OBVIOUS
  <2> QED
    BY <2>1, <2>2 DEF CalmEvents
<1>2. \A n \in Nat : Uninterrupted(n) \in Seq(E) /\ Len(Uninterrupted(n)) = 3 * n
                     /\ \A j \in 1 .. 3 * n : Uninterrupted(n)[j] = Event(j)
  <2> SUFFICES ASSUME NEW n \in Nat
               PROVE  /\ Uninterrupted(n) \in Seq(E) /\ Len(Uninterrupted(n)) = 3 * n
                      /\ \A j \in 1 .. 3 * n : Uninterrupted(n)[j] = Event(j)
    OBVIOUS
  <2>1. Uninterrupted(n) = [j \in 1 .. 3 * n |-> Event(j)]
    BY DEF Uninterrupted
  <2> HIDE DEF Event, E
  <2>2. Uninterrupted(n) \in [1 .. 3 * n -> E]
    BY <1>1, <2>1
  <2>3. 3 * n \in Nat
    OBVIOUS
  <2>4. Uninterrupted(n) \in Seq(E)
    BY <2>2, <2>3
  <2> QED
    BY <2>1, <2>2, <2>3, <2>4
<1>3. /\ round \in Seq(E) /\ Len(round) = 3 /\ <<<<"started">>>> \in Seq(E)
      /\ round[1] = <<"suspended", k>> /\ round[2] = <<"woken", k>> /\ round[3] = <<"resumed", k>>
  BY DEF CalmEvents
<1>4. Event(3 * k + 1) = <<"suspended", k>> /\ Event(3 * k + 2) = <<"woken", k>>
      /\ Event(3 * k + 3) = <<"resumed", k>>
  <2>1. /\ (3 * k + 1) % 3 = 1 /\ (3 * k + 2) % 3 = 2 /\ (3 * k + 3) % 3 = 0
        /\ (3 * k) \div 3 = k /\ (3 * k + 1) \div 3 = k /\ (3 * k + 2) \div 3 = k
    OBVIOUS
  <2> QED
    BY <2>1
<1> HIDE DEF Event, E, round
<1>5. Uninterrupted(k + 1) = Uninterrupted(k) \o round
  <2>1. PICK m \in Nat : m = 3 * k
    OBVIOUS
  <2>2. /\ Uninterrupted(k) \in Seq(E) /\ Len(Uninterrupted(k)) = m
        /\ Uninterrupted(k + 1) \in Seq(E) /\ Len(Uninterrupted(k + 1)) = m + 3
    BY <1>2, <2>1
  <2>3. /\ \A j \in 1 .. m : Uninterrupted(k)[j] = Event(j)
        /\ \A j \in 1 .. m + 3 : Uninterrupted(k + 1)[j] = Event(j)
    <3>1. 3 * (k + 1) = m + 3 /\ k + 1 \in Nat
      BY <2>1
    <3>2. \A j \in 1 .. 3 * (k + 1) : Uninterrupted(k + 1)[j] = Event(j)
      BY <1>2, <3>1
    <3>3. \A j \in 1 .. 3 * k : Uninterrupted(k)[j] = Event(j)
      BY <1>2
    <3> QED
      BY <2>1, <3>1, <3>2, <3>3
  <2>4. \A i \in 1 .. m : i \in 1 .. m + 3
    OBVIOUS
  <2>5. \A i \in 1 .. m : Uninterrupted(k + 1)[i] = Uninterrupted(k)[i]
    BY <2>3, <2>4
  <2>6. m + 1 \in 1 .. m + 3 /\ m + 2 \in 1 .. m + 3 /\ m + 3 \in 1 .. m + 3
    OBVIOUS
  <2>7. \A i \in 1 .. 3 : Uninterrupted(k + 1)[m + i] = round[i]
    <3>1. /\ Uninterrupted(k + 1)[m + 1] = round[1] /\ Uninterrupted(k + 1)[m + 2] = round[2]
          /\ Uninterrupted(k + 1)[m + 3] = round[3]
      BY <1>3, <1>4, <2>1, <2>3, <2>6
    <3> QED
      BY <3>1
  <2>8. PICK s \in Seq(E), t \in Seq(E), u \in Seq(E) :
          s = Uninterrupted(k) /\ t = Uninterrupted(k + 1) /\ u = round
    BY <1>3, <2>2
  <2>9. Consists(t, s, u, m, 3)
    BY <1>3, <2>2, <2>5, <2>7, <2>8 DEF Consists
  <2>10. t = s \o u
    BY <2>9, ConsistsOf
  <2> QED
    BY <2>8, <2>10
<1>6. PICK first \in Seq(E) : first = <<<<"started">>>>
  BY <1>3
<1>7. PICK log \in Seq(E) : log = Uninterrupted(k)
  BY <1>2
<1>8. PICK more \in Seq(E) : more = round
  BY <1>3
<1>9. first \o log \in Seq(E) /\ first \o (log \o more) = (first \o log) \o more
  BY Concatenated, Regrouped
<1> QED
  BY <1>5, <1>6, <1>7, <1>8, <1>9 DEF Past, E, round

\* Elements behind a sequence, one after the other or at once.
OneByOne(s, a, b, c) ==
  /\ Append(s, a) = s \o <<a>>
  /\ Append(s \o <<a>>, b) = s \o <<a, b>>
  /\ Append(s \o <<a, b>>, c) = s \o <<a, b, c>>
  /\ (s \o <<a, b>>) \o <<c>> = s \o <<a, b, c>>

\* Appending them one by one gives the same log.
LEMMA Behind ==
  ASSUME NEW S, NEW s \in Seq(S), NEW a \in S, NEW b \in S, NEW c \in S
  PROVE  OneByOne(s, a, b, c)
<1>1. /\ <<a>> \in Seq(S) /\ <<b>> \in Seq(S) /\ <<c>> \in Seq(S)
      /\ <<a, b>> \in Seq(S) /\ <<a, b, c>> \in Seq(S)
  OBVIOUS
<1>2. <<a>> \o <<b>> = <<a, b>> /\ <<a, b>> \o <<c>> = <<a, b, c>>
  <2>1. PICK ta \in Seq(S), tb \in Seq(S), tc \in Seq(S), tab \in Seq(S), tabc \in Seq(S) :
          ta = <<a>> /\ tb = <<b>> /\ tc = <<c>> /\ tab = <<a, b>> /\ tabc = <<a, b, c>>
    BY <1>1
  <2>2. Consists(tab, ta, tb, 1, 1) /\ Consists(tabc, tab, tc, 2, 1)
    BY <2>1 DEF Consists
  <2>3. tab = ta \o tb /\ tabc = tab \o tc
    BY <2>2, ConsistsOf
  <2> QED
    BY <2>1, <2>3
<1>3. \A t \in Seq(S), e \in S : Append(t, e) = t \o <<e>>
  OBVIOUS
<1>4. s \o <<a>> \in Seq(S) /\ s \o <<a, b>> \in Seq(S)
  BY <1>1, Concatenated
<1>5. (s \o <<a>>) \o <<b>> = s \o (<<a>> \o <<b>>)
  BY <1>1, Regrouped
<1>6. (s \o <<a, b>>) \o <<c>> = s \o (<<a, b>> \o <<c>>)
  BY <1>1, Regrouped
<1>7. /\ Append(s, a) = s \o <<a>> /\ Append(s \o <<a>>, b) = (s \o <<a>>) \o <<b>>
      /\ Append(s \o <<a, b>>, c) = (s \o <<a, b>>) \o <<c>>
  BY <1>3, <1>4
<1> QED
  BY <1>2, <1>5, <1>6, <1>7 DEF OneByOne

\* Nothing has happened before the first await.
LEMMA NothingYet == Past(0) = <<<<"started">>>>
<1>1. Uninterrupted(0) = <<>>
  BY DEF Uninterrupted
<1>2. <<<<"started">>>> \in Seq({<<"started">>})
  OBVIOUS
<1>3. <<<<"started">>>> \o <<>> = <<<<"started">>>>
  BY <1>2, NothingMore
<1> QED
  BY <1>1, <1>3 DEF Past

\* No panic is among the calm events.
LEMMA CalmEventsCalm ==
  /\ <<"panicked">> \notin CalmEvents
  /\ <<"started">> \in CalmEvents /\ <<"cancelled">> \in CalmEvents
  /\ \A k \in Nat : {<<"suspended", k>>, <<"woken", k>>, <<"resumed", k>>} \subseteq CalmEvents
BY DEF CalmEvents

\* The log while one await is passed.
LEMMA PastGrows ==
  ASSUME NEW k \in Nat
  PROVE  /\ Append(Past(k), <<"suspended", k>>) = Past(k) \o <<<<"suspended", k>>>>
         /\ Append(Past(k) \o <<<<"suspended", k>>>>, <<"woken", k>>)
              = Past(k) \o <<<<"suspended", k>>, <<"woken", k>>>>
         /\ (Past(k) \o <<<<"suspended", k>>, <<"woken", k>>>>) \o <<<<"resumed", k>>>> = Past(k + 1)
<1>1. PICK s \in Seq(CalmEvents) : s = Past(k)
  BY OneMoreAwait
<1>2. PICK a \in CalmEvents, b \in CalmEvents, c \in CalmEvents :
        a = <<"suspended", k>> /\ b = <<"woken", k>> /\ c = <<"resumed", k>>
  BY CalmEventsCalm
<1>3. OneByOne(s, a, b, c)
  BY Behind
<1>4. Past(k + 1) = s \o <<a, b, c>>
  BY <1>1, <1>2, OneMoreAwait
<1> QED
  BY <1>1, <1>2, <1>3, <1>4 DEF OneByOne

\* The log with the events that end the task.
EndsWith(k, a, b, c) ==
  /\ Append(Past(k), a) = <<<<"started">>>> \o Append(Uninterrupted(k), a)
  /\ Append(Past(k) \o <<a>>, b) = <<<<"started">>>> \o (Uninterrupted(k) \o <<a, b>>)
  /\ Append(Past(k) \o <<a, b>>, c) = <<<<"started">>>> \o (Uninterrupted(k) \o <<a, b, c>>)

\* That is the log, with the start in front of everything that followed.
LEMMA PastEnds ==
  ASSUME NEW d, NEW k \in Nat, NEW a \in EventsOf(d), NEW b \in EventsOf(d), NEW c \in EventsOf(d)
  PROVE  EndsWith(k, a, b, c)
<1> DEFINE E == EventsOf(d)
<1>1. CalmEvents \subseteq E
  BY DEF EventsOf
<1>2. PICK s \in Seq(E) : s = Uninterrupted(k)
  BY <1>1, OneMoreAwait, SeqOfMore
<1>3. PICK f \in Seq(E) : f = <<<<"started">>>>
  <2>1. <<"started">> \in E
    BY <1>1, CalmEventsCalm
  <2>2. <<<<"started">>>> \in Seq(E)
    BY <2>1
  <2> QED
    BY <2>2
<1> HIDE DEF E
<1>4. <<a>> \in Seq(E) /\ <<a, b>> \in Seq(E) /\ <<a, b, c>> \in Seq(E)
  BY DEF E
<1>5. f \o s \in Seq(E)
  BY Concatenated
<1>6. OneByOne(f \o s, a, b, c) /\ OneByOne(s, a, b, c)
  BY <1>5, Behind DEF E
<1>7. /\ (f \o s) \o <<a>> = f \o (s \o <<a>>)
      /\ (f \o s) \o <<a, b>> = f \o (s \o <<a, b>>)
      /\ (f \o s) \o <<a, b, c>> = f \o (s \o <<a, b, c>>)
  BY <1>4, Regrouped
<1> QED
  BY <1>2, <1>3, <1>6, <1>7 DEF Past, OneByOne, EndsWith

-----------------------------------------------------------------------------
\* The control points of a running task, by the kind of the state it is at.
LEMMA WhereItIs ==
  ASSUME TaskInv, phase = "running"
  PROVE  /\ Running("start") => AtStart
         /\ Running("suspend") => \E k \in Nat : k < function.awaits /\ AtSuspend(k)
         /\ Running("resume") => \E k \in Nat : k < function.awaits /\ AtResume(k)
         /\ Running("complete") => AtComplete(function.awaits)
         /\ Running("cancel") => AtDrop(function.awaits)
<1>1. PICK n \in Nat : n = function.awaits
  BY TaskAssumption DEF TaskInv
<1>2. machine = BuildMachine(function)
  BY DEF TaskInv
<1>3. /\ machine.states[1].kind = "start"
      /\ \A k \in Nat : k < n => /\ machine.states[2 * k + 2].kind = "suspend"
                                 /\ machine.states[2 * k + 3].kind = "resume"
      /\ machine.states[2 * n + 2].kind = "complete" /\ machine.states[2 * n + 3].kind = "cancel"
  <2>1. HasStates(machine.states, n, Locals(function))
    BY <1>1, <1>2, MachineStates
  <2>2. ASSUME NEW k \in Nat, k < n
        PROVE  /\ machine.states[2 * k + 2].kind = "suspend"
               /\ machine.states[2 * k + 3].kind = "resume"
    <3>1. /\ machine.states[2 * k + 2] =
               [kind |-> "suspend", await |-> k, resume |-> 2 * k + 2, cancel |-> 2 * n + 2]
          /\ machine.states[2 * k + 3] =
               [kind |-> "resume", next |-> 2 * k + 3, panic |-> 2 * n + 2]
      BY <2>1, <2>2 DEF HasStates
    <3> QED
      BY <3>1
  <2>3. /\ machine.states[1].kind = "start" /\ machine.states[2 * n + 2].kind = "complete"
        /\ machine.states[2 * n + 3].kind = "cancel"
    BY <2>1 DEF HasStates
  <2> QED
    BY <2>2, <2>3
<1>4. CASE AtStart
  BY <1>3, <1>4 DEF Running, AtStart
<1>5. CASE \E k \in Nat : k < n /\ AtSuspend(k)
  <2>1. PICK k \in Nat : k < n /\ AtSuspend(k)
    BY <1>5
  <2>2. at + 1 = 2 * k + 2
    BY <2>1 DEF AtSuspend
  <2> QED
    BY <1>1, <1>3, <2>1, <2>2 DEF Running
<1>6. CASE \E k \in Nat : k < n /\ AtResume(k)
  <2>1. PICK k \in Nat : k < n /\ AtResume(k)
    BY <1>6
  <2>2. at + 1 = 2 * k + 3
    BY <2>1 DEF AtResume
  <2> QED
    BY <1>1, <1>3, <2>1, <2>2 DEF Running
<1>7. CASE AtComplete(n)
  <2>1. at + 1 = 2 * n + 2
    BY <1>7 DEF AtComplete
  <2> QED
    BY <1>1, <1>3, <1>7, <2>1 DEF Running
<1>8. CASE AtDrop(n)
  <2>1. at + 1 = 2 * n + 3
    BY <1>8 DEF AtDrop
  <2> QED
    BY <1>1, <1>3, <1>8, <2>1 DEF Running
<1> QED
  BY <1>1, <1>4, <1>5, <1>6, <1>7, <1>8 DEF TaskInv

\* Lowering, the start of the runner and its first transition.
LEMMA TaskBegins == ASSUME TaskInv, Lower \/ NewRunner \/ Start PROVE TaskInv'
<1>1. PICK n \in Nat : n = function.awaits
  BY TaskAssumption DEF TaskInv
<1>2. CASE Lower
  BY <1>2 DEF TaskInv, Lower, TaskRunsAsWritten
<1>3. CASE NewRunner
  <2>1. /\ phase' = "running" /\ outcome' = "none" /\ taskEvents' = <<<<"started">>>> /\ at' = 0
        /\ UNCHANGED <<function, control, machine>>
    BY <1>3 DEF TaskInv, NewRunner
  <2> QED
    BY <1>3, <2>1 DEF TaskInv, NewRunner, AtStart
<1>4. CASE Start
  <2>1. /\ phase = "running" /\ Running("start")
        /\ UNCHANGED <<function, control, machine, phase, taskEvents, outcome>>
    BY <1>4 DEF Start, Running
  <2>2. AtStart
    BY <2>1, WhereItIs
  <2>3. machine.states[1].next = IF n = 0 THEN 2 * n + 1 ELSE 1
    <3>1. HasStates(machine.states, n, Locals(function))
      BY <1>1, <2>1, MachineStates DEF TaskInv
    <3> QED
      BY <3>1 DEF HasStates
  <2>4. at' = machine.states[1].next
    BY <1>4, <2>2 DEF Start, State, AtStart
  <2>5. taskEvents' = Past(0) /\ Through(0)' /\ control' = control
    BY <2>1, <2>2, NothingYet, TaskAssumption DEF AtStart, Through, TaskInv
  <2>6. CASE n = 0
    <3>1. AtComplete(n)'
      BY <2>3, <2>4, <2>5, <2>6 DEF AtComplete
    <3> QED
      BY <1>1, <2>1, <3>1 DEF TaskInv
  <2>7. CASE n # 0
    <3>1. AtSuspend(0)'
      BY <2>3, <2>4, <2>5, <2>7 DEF AtSuspend
    <3>2. 0 < n
      BY <2>7
    <3> QED
      BY <1>1, <2>1, <3>1, <3>2 DEF TaskInv
  <2> QED
    BY <2>6, <2>7
<1> QED
  BY <1>2, <1>3, <1>4

\* An await: the cancelled one goes to the drop state, the others wait.
LEMMA TaskSuspends == ASSUME TaskInv, Suspend PROVE TaskInv'
<1>1. PICK n \in Nat : n = function.awaits
  BY TaskAssumption DEF TaskInv
<1>2. /\ phase = "running" /\ Running("suspend")
      /\ UNCHANGED <<function, control, machine, lastAwait, outcome>>
  BY DEF Suspend, Running
<1>3. PICK k \in Nat : k < n /\ AtSuspend(k)
  BY <1>1, <1>2, WhereItIs
<1>4. machine.states[2 * k + 2] =
        [kind |-> "suspend", await |-> k, resume |-> 2 * k + 2, cancel |-> 2 * n + 2]
  <2>1. HasStates(machine.states, n, Locals(function))
    BY <1>1, <1>2, MachineStates DEF TaskInv
  <2> QED
    BY <1>3, <2>1 DEF HasStates
<1>5. State = [kind |-> "suspend", await |-> k, resume |-> 2 * k + 2, cancel |-> 2 * n + 2]
  <2>1. at + 1 = 2 * k + 2
    BY <1>3 DEF AtSuspend
  <2> QED
    BY <1>4, <2>1 DEF State
<1>6. CASE Injected("cancel", k)
  <2>1. /\ taskEvents' = taskEvents \o <<<<"suspended", k>>, <<"cancelled">>>>
        /\ at' = 2 * n + 2 /\ phase' = phase
    BY <1>5, <1>6 DEF Suspend
  <2>2. AtDrop(n)'
    BY <1>2, <1>3, <1>6, <2>1 DEF AtDrop, AtSuspend, Injected
  <2> QED
    BY <1>1, <1>2, <2>1, <2>2 DEF TaskInv
<1>7. CASE ~Injected("cancel", k)
  <2>1. /\ taskEvents' = Append(taskEvents, <<"suspended", k>>)
        /\ phase' = "pending" /\ suspension' = <<k, 2 * k + 2>>
    BY <1>5, <1>7 DEF Suspend
  <2>2. Append(Past(k), <<"suspended", k>>) = Past(k) \o <<<<"suspended", k>>>>
    BY PastGrows
  <2>3. Waiting(k)'
    BY <1>2, <1>3, <1>7, <2>1, <2>2 DEF Waiting, AtSuspend, Through, Injected
  <2> QED
    BY <1>1, <1>2, <1>3, <2>1, <2>3 DEF TaskInv
<1> QED
  BY <1>6, <1>7

\* Waking up resumes the await that was suspended.
LEMMA TaskWakes == ASSUME TaskInv, Wake PROVE TaskInv'
<1>1. PICK k \in Nat : k < function.awaits /\ Waiting(k)
  BY DEF TaskInv, Wake
<1>2. /\ phase = "pending" /\ phase' = "running" /\ taskEvents' = Append(taskEvents, <<"woken", k>>)
      /\ lastAwait' = k /\ at' = 2 * k + 2
      /\ UNCHANGED <<function, control, machine, outcome>>
  BY <1>1 DEF Wake, Waiting
<1>3. Append(Past(k) \o <<<<"suspended", k>>>>, <<"woken", k>>)
        = Past(k) \o <<<<"suspended", k>>, <<"woken", k>>>>
  BY PastGrows
<1>4. AtResume(k)'
  BY <1>1, <1>2, <1>3 DEF AtResume, Waiting, Through, Injected
<1> QED
  BY <1>1, <1>2, <1>4 DEF TaskInv

\* A resumed await goes on to the next one, or panics.
LEMMA TaskResumes == ASSUME TaskInv, Resume PROVE TaskInv'
<1>1. PICK n \in Nat : n = function.awaits
  BY TaskAssumption DEF TaskInv
<1>2. /\ phase = "running" /\ Running("resume")
      /\ UNCHANGED <<function, control, machine, lastAwait>>
  BY DEF Resume, Running
<1>3. PICK k \in Nat : k < n /\ AtResume(k)
  BY <1>1, <1>2, WhereItIs
<1>4. State = [kind |-> "resume", next |-> 2 * k + 3, panic |-> 2 * n + 2]
  <2>1. HasStates(machine.states, n, Locals(function))
    BY <1>1, <1>2, MachineStates DEF TaskInv
  <2>2. machine.states[2 * k + 3] = [kind |-> "resume", next |-> 2 * k + 3, panic |-> 2 * n + 2]
    BY <1>3, <2>1 DEF HasStates
  <2>3. at + 1 = 2 * k + 3
    BY <1>3 DEF AtResume
  <2> QED
    BY <2>2, <2>3 DEF State
<1>5. lastAwait = k /\ lastAwait # NoAwait
  BY <1>3 DEF AtResume, NoAwait
<1>6. /\ phase' = phase /\ outcome' = outcome
      /\ at' = IF Injected("panic", k) THEN 2 * n + 2 ELSE 2 * k + 3
      /\ taskEvents' = taskEvents \o <<<<"resumed", k>>>>
                     \o (IF Injected("panic", k) THEN <<<<"panicked">>>> ELSE <<>>)
  BY <1>4, <1>5 DEF Resume
<1>7. taskEvents \o <<<<"resumed", k>>>> = Past(k + 1) /\ Past(k + 1) \in Seq(CalmEvents)
  <2>1. k + 1 \in Nat
    OBVIOUS
  <2>2. Past(k + 1) \in Seq(CalmEvents)
    BY <2>1, OneMoreAwait
  <2>3. (Past(k) \o <<<<"suspended", k>>, <<"woken", k>>>>) \o <<<<"resumed", k>>>> = Past(k + 1)
    BY PastGrows
  <2> QED
    BY <1>3, <2>2, <2>3 DEF AtResume
<1>8. CASE Injected("panic", k)
  <2>1. taskEvents' = Past(k + 1) \o <<<<"panicked">>>>
    BY <1>6, <1>7, <1>8
  <2>2. AtDrop(n)'
    BY <1>2, <1>3, <1>6, <1>8, <2>1 DEF AtDrop, Injected
  <2> QED
    BY <1>1, <1>2, <1>6, <2>2 DEF TaskInv
<1>9. CASE ~Injected("panic", k)
  <2>1. taskEvents' = Past(k + 1)
    BY <1>6, <1>7, <1>9, NothingMore
  <2>2. Through(k + 1)' /\ at' = 2 * (k + 1) + 1
    BY <1>2, <1>3, <1>6, <1>9, TaskAssumption DEF Through, Injected, AtResume, TaskInv
  <2>3. CASE k + 1 = n
    <3>1. AtComplete(n)'
      BY <2>1, <2>2, <2>3 DEF AtComplete
    <3> QED
      BY <1>1, <1>2, <1>6, <3>1 DEF TaskInv
  <2>4. CASE k + 1 < n
    <3>1. AtSuspend(k + 1)' /\ k + 1 \in Nat
      BY <2>1, <2>2 DEF AtSuspend
    <3> QED
      BY <1>1, <1>2, <1>6, <2>4, <3>1 DEF TaskInv
  <2> QED
    BY <1>3, <2>3, <2>4
<1> QED
  BY <1>8, <1>9

\* The end of a task that was not interrupted.
LEMMA TaskCompletes == ASSUME TaskInv, Complete PROVE TaskInv'
<1>1. PICK n \in Nat : n = function.awaits
  BY TaskAssumption DEF TaskInv
<1>2. /\ phase = "running" /\ Running("complete") /\ phase' = "end" /\ outcome' = "complete"
      /\ taskEvents' = Append(taskEvents, <<"completed">>) /\ UNCHANGED <<function, control>>
  BY DEF Complete, Running
<1>3. AtComplete(n)
  BY <1>1, <1>2, WhereItIs
<1>4. ~(control.kind # "run" /\ control.await < n)
  BY <1>3, TaskAssumption DEF AtComplete, Through, TaskInv
<1>5. Append(Past(n), <<"completed">>)
        = <<<<"started">>>> \o Append(Uninterrupted(n), <<"completed">>)
  <2>1. PICK e \in EventsOf({}) : e = <<"completed">>
    BY DEF EventsOf
  <2>2. EndsWith(n, e, e, e)
    BY PastEnds
  <2> QED
    BY <2>1, <2>2 DEF EndsWith
<1>6. taskEvents' = ExpectedEvents(function, control)'
  BY <1>1, <1>2, <1>3, <1>4, <1>5 DEF ExpectedEvents, AtComplete
<1> QED
  BY <1>1, <1>2, <1>4, <1>6 DEF TaskInv, TaskRunsAsWritten

\* The drop of a cancelled or panicked frame: its events tell which it was.
LEMMA TaskDrops == ASSUME TaskInv, DropFrame PROVE TaskInv'
<1> DEFINE c == control.await
           locals == Locals(function)
<1>1. PICK n \in Nat : n = function.awaits
  BY TaskAssumption DEF TaskInv
<1>2. /\ phase = "running" /\ Running("cancel") /\ phase' = "end"
      /\ outcome' = IF Panicked THEN "panicked" ELSE "complete"
      /\ UNCHANGED <<function, control>>
  BY DEF DropFrame, Running
<1>3. AtDrop(n)
  BY <1>1, <1>2, WhereItIs
<1>4. c \in Nat /\ c < n /\ control \in Controls
  BY <1>3, TaskAssumption DEF AtDrop, TaskInv
<1>5. taskEvents' = Append(taskEvents, <<"dropped", locals>>)
  <2>1. HasStates(machine.states, n, locals)
    BY <1>1, <1>2, MachineStates DEF TaskInv
  <2>2. machine.states[2 * n + 3].drops = locals
    <3>1. machine.states[2 * n + 3] = [kind |-> "cancel", drops |-> locals]
      BY <2>1 DEF HasStates
    <3> QED
      BY <3>1
  <2>3. at + 1 = 2 * n + 3
    BY <1>3 DEF AtDrop
  <2>4. State.drops = locals
    BY <2>2, <2>3 DEF State
  <2> QED
    BY <2>4 DEF DropFrame
<1>6. CASE control.kind = "cancel"
  <2>1. taskEvents = Past(c) \o <<<<"suspended", c>>, <<"cancelled">>>>
    BY <1>3, <1>6 DEF AtDrop
  <2>2. taskEvents' = <<<<"started">>>> \o (Uninterrupted(c)
                    \o <<<<"suspended", c>>, <<"cancelled">>, <<"dropped", locals>>>>)
    <3>1. /\ <<"suspended", c>> \in EventsOf(locals) /\ <<"cancelled">> \in EventsOf(locals)
          /\ <<"dropped", locals>> \in EventsOf(locals)
      BY <1>4, CalmEventsCalm DEF EventsOf
    <3>2. EndsWith(c, <<"suspended", c>>, <<"cancelled">>, <<"dropped", locals>>)
      BY <1>4, <3>1, PastEnds
    <3> QED
      BY <1>5, <2>1, <3>2 DEF EndsWith
  <2>3. taskEvents' = ExpectedEvents(function, control)'
    BY <1>1, <1>2, <1>4, <1>6, <2>2 DEF ExpectedEvents
  <2>4. ~Panicked
    <3>1. taskEvents \in Seq(CalmEvents)
      <4>1. Past(c) \in Seq(CalmEvents)
        BY <1>4, OneMoreAwait
      <4>2. PICK a \in CalmEvents, b \in CalmEvents : a = <<"suspended", c>> /\ b = <<"cancelled">>
        BY <1>4, CalmEventsCalm
      <4>3. <<a, b>> \in Seq(CalmEvents)
        OBVIOUS
      <4> QED
        BY <2>1, <4>1, <4>2, <4>3, Concatenated
    <3> QED
      BY <3>1, CalmEventsCalm DEF Panicked
  <2> QED
    BY <1>1, <1>2, <1>4, <1>6, <2>3, <2>4 DEF TaskInv, TaskRunsAsWritten
<1>7. CASE control.kind = "panic"
  <2>1. taskEvents = Past(c + 1) \o <<<<"panicked">>>>
    BY <1>3, <1>7 DEF AtDrop
  <2>2. taskEvents' = <<<<"started">>>> \o (Uninterrupted(c + 1)
                    \o <<<<"panicked">>, <<"dropped", locals>>>>)
    <3>1. <<"panicked">> \in EventsOf(locals) /\ <<"dropped", locals>> \in EventsOf(locals)
      BY DEF EventsOf
    <3>2. c + 1 \in Nat
      BY <1>4
    <3>3. EndsWith(c + 1, <<"panicked">>, <<"dropped", locals>>, <<"panicked">>)
      BY <3>1, <3>2, PastEnds
    <3> QED
      BY <1>5, <2>1, <3>3 DEF EndsWith
  <2>3. taskEvents' = ExpectedEvents(function, control)'
    BY <1>1, <1>2, <1>4, <1>7, <2>2 DEF ExpectedEvents
  <2>4. Panicked
    <3> DEFINE E == CalmEvents \cup {<<"panicked">>}
    <3>1. PICK s \in Seq(E), u \in Seq(E) : s = Past(c + 1) /\ u = <<<<"panicked">>>>
      <4>1. Past(c + 1) \in Seq(CalmEvents)
        <5>1. PICK k \in Nat : k = c + 1
          BY <1>4
        <5> QED
          BY <5>1, OneMoreAwait
      <4>2. <<<<"panicked">>>> \in Seq(E)
        OBVIOUS
      <4> QED
        BY <4>1, <4>2, SeqOfMore
    <3>2. PICK m \in Nat : m = Len(s)
      BY SeqLength
    <3>3. Len(u) = 1 /\ u[1] = <<"panicked">>
      BY <3>1
    <3>4. /\ s \o u \in Seq(E) /\ Len(s \o u) = Len(s) + Len(u)
          /\ \A i \in 1 .. Len(s) + Len(u) :
               (s \o u)[i] = IF i <= Len(s) THEN s[i] ELSE u[i - Len(s)]
      BY Concatenated
    <3>5. (s \o u)[m + 1] = <<"panicked">> /\ m + 1 \in DOMAIN (s \o u)
      BY <3>2, <3>3, <3>4
    <3> QED
      BY <2>1, <3>1, <3>5 DEF Panicked
  <2> QED
    BY <1>1, <1>2, <1>4, <1>7, <2>3, <2>4 DEF TaskInv, TaskRunsAsWritten
<1> QED
  BY <1>3, <1>6, <1>7 DEF AtDrop

\* Every async function, whatever its number of awaits and wherever it is
\* cancelled or made to panic, runs to its end with the events its source
\* calls for (build_machine, verify_async_machine, advance).
THEOREM TaskFollowsSource == TaskSpec => []TaskRunsAsWritten
<1>1. TaskInit => TaskInv
  BY DEF TaskInit, TaskInv
<1>2. TaskInv /\ [TaskNext]_taskVars => TaskInv'
  <2> SUFFICES ASSUME TaskInv, [TaskNext]_taskVars PROVE TaskInv'
    OBVIOUS
  <2>1. CASE TaskNext
    BY <2>1, TaskBegins, TaskSuspends, TaskWakes, TaskResumes, TaskCompletes, TaskDrops DEF TaskNext
  <2>2. CASE UNCHANGED taskVars
    BY <2>2 DEF taskVars, TaskInv, AtStart, AtSuspend, AtResume, AtComplete, AtDrop, Waiting, Through,
       Injected, TaskRunsAsWritten
  <2> QED
    BY <2>1, <2>2
<1>3. TaskInv => TaskRunsAsWritten
  BY DEF TaskInv, TaskRunsAsWritten
<1> QED
  BY <1>1, <1>2, <1>3, PTL DEF TaskSpec

-----------------------------------------------------------------------------
(***************************************************************************)
(* PackageRegistry, for every set of publishers, versions, nonces and      *)
(* edits, and every history of losses, repetitions and retries: stored     *)
(* releases are final, receipts are honoured, a nonce is accepted once,    *)
(* and edits of the manifest lose only what overlapping edits lose.        *)
(***************************************************************************)
USE RegistryAssumption

ClientFields == {"at", "read", "request", "reply", "runs"}

ClientsTyped ==
  /\ DOMAIN client = Publishers
  /\ \A p \in Publishers : DOMAIN client[p] = ClientFields

ReleasesTyped == \A k \in DOMAIN releases : DOMAIN releases[k] = {"archive", "yanked"}

\* The registry holds the archive of a request under its name and version.
Holds(r) ==
  /\ ReleaseKey(r.archive) \in DOMAIN releases
  /\ releases[ReleaseKey(r.archive)].archive = r.archive

\* A reply belongs to the request the client waits on: none before the request
\* is sent, and a receipt only when the registry holds its archive.
RepliesHold ==
  \A p \in Publishers :
    /\ client[p].at \in {"assemble", "signed"} => client[p].reply = NoReply
    /\ client[p].at \in {"sent", "published"} /\ client[p].reply.kind = "receipt"
         => Holds(client[p].request)
    /\ client[p].at = "published" => client[p].reply.kind = "receipt"

\* The inductive invariant of publication.
PublicationInv == ClientsTyped /\ RepliesHold

-----------------------------------------------------------------------------
(* The registry.                                                           *)

\* publish adds the release and keeps every other one.
LEMMA StoreAdds ==
  ASSUME NEW r, Accepts(r), StoreRelease(r)
  PROVE  /\ ReleaseKey(r.archive) \notin DOMAIN releases
         /\ DOMAIN releases' = DOMAIN releases \cup {ReleaseKey(r.archive)}
         /\ releases'[ReleaseKey(r.archive)] = [archive |-> r.archive, yanked |-> FALSE]
         /\ \A k \in DOMAIN releases : releases'[k] = releases[k]
BY DEF Accepts, StoreRelease

\* yank marks a release and keeps its archive.
LEMMA YankMarks ==
  ASSUME NEW k \in DOMAIN releases, Yank(k),
         ReleasesTyped
  PROVE  /\ DOMAIN releases' = DOMAIN releases
         /\ \A j \in DOMAIN releases :
              /\ DOMAIN releases'[j] = {"archive", "yanked"}
              /\ releases'[j].archive = releases[j].archive
              /\ releases[j].yanked => releases'[j].yanked
<1>1. releases' = [releases EXCEPT ![k].yanked = TRUE]
  BY DEF Yank
<1> QED
  BY <1>1 DEF ReleasesTyped

\* Only publish and yank touch the releases.
LEMMA OthersKeepReleases ==
  ASSUME NEW p, NEW a,
         \/ Discover(p) \/ Assemble(p) \/ AssembleFails(p) \/ Post(p) \/ TakeReply(p)
         \/ GiveUp(p) \/ Authorize(p)
         \/ AddRead(a) \/ AddPersist(a) \/ AddFails(a)
         \/ (\E m \in inFlight : Lose(m[1], m[2]))
         \/ UNCHANGED registryVars
  PROVE  UNCHANGED releases
BY DEF Discover, Assemble, AssembleFails, Post, TakeReply, GiveUp, Authorize, AddRead, AddPersist,
       AddFails, Lose, registryVars, publishVars

\* What ReleasesImmutable says of a step.
Final ==
  \A k \in DOMAIN releases :
    /\ k \in DOMAIN releases'
    /\ releases'[k].archive = releases[k].archive
    /\ releases[k].yanked => releases'[k].yanked

\* No step changes or removes a stored release.
LEMMA ReleasesStep ==
  ASSUME ReleasesTyped, [RegistryNext]_registryVars
  PROVE  ReleasesTyped' /\ Final
<1>1. ASSUME UNCHANGED releases
      PROVE  ReleasesTyped' /\ Final
  BY <1>1 DEF ReleasesTyped, Final
<1>2. ASSUME NEW p, NEW r, Publish(p, r)
      PROVE  ReleasesTyped' /\ Final
  <2>1. CASE Accepts(r) /\ StoreRelease(r)
    <3>1. /\ DOMAIN releases' = DOMAIN releases \cup {ReleaseKey(r.archive)}
          /\ releases'[ReleaseKey(r.archive)] = [archive |-> r.archive, yanked |-> FALSE]
          /\ \A k \in DOMAIN releases : releases'[k] = releases[k]
      BY <2>1, StoreAdds
    <3> QED
      BY <3>1 DEF ReleasesTyped, Final
  <2>2. CASE UNCHANGED releases
    BY <1>1, <2>2
  <2> QED
    BY <1>2, <2>1, <2>2 DEF Publish
<1>3. ASSUME NEW k \in DOMAIN releases, Yank(k)
      PROVE  ReleasesTyped' /\ Final
  BY <1>3, YankMarks DEF ReleasesTyped, Final
<1> QED
  BY <1>1, <1>2, <1>3, OthersKeepReleases DEF RegistryNext

\* A stored release is final: no publication, replay or yank changes its archive,
\* removes it, or takes a yank back.
THEOREM ReleasesAreImmutable == RegistrySpec => ReleasesImmutable
<1>1. RegistryInit => ReleasesTyped
  BY DEF RegistryInit, ReleasesTyped
<1>2. ReleasesTyped /\ [RegistryNext]_registryVars => ReleasesTyped'
  BY ReleasesStep
<1>3. ReleasesTyped /\ [RegistryNext]_registryVars => [Final]_registryVars
  BY ReleasesStep
<1> QED
  BY <1>1, <1>2, <1>3, PTL DEF RegistrySpec, ReleasesImmutable, Final
-----------------------------------------------------------------------------
(* Receipts.                                                               *)

\* A step that changes at most one client, and the releases only as Final
\* allows, preserves the invariant if that client keeps it.
LEMMA OneClientChanges ==
  ASSUME NEW p \in Publishers, PublicationInv, Final, ClientsTyped',
         \A q \in Publishers \ {p} : client'[q] = client[q],
         client'[p].at \in {"assemble", "signed"} => client'[p].reply = NoReply,
         client'[p].at \in {"sent", "published"} /\ client'[p].reply.kind = "receipt"
           => Holds(client[p].request)' ,
         client'[p].at = "published" => client'[p].reply.kind = "receipt"
  PROVE  PublicationInv'
<1>1. ASSUME NEW q \in Publishers, q # p
      PROVE  /\ client'[q].at \in {"assemble", "signed"} => client'[q].reply = NoReply
             /\ client'[q].at \in {"sent", "published"} /\ client'[q].reply.kind = "receipt"
                  => Holds(client[q].request)'
             /\ client'[q].at = "published" => client'[q].reply.kind = "receipt"
  <2>1. client'[q] = client[q]
    BY <1>1
  <2> QED
    BY <2>1 DEF PublicationInv, RepliesHold, Final, Holds
<1> QED
  BY <1>1 DEF PublicationInv, RepliesHold

\* Every step of `syllog publish` keeps the invariant.
LEMMA ClientStep ==
  ASSUME NEW p \in Publishers, PublicationInv, Final, UNCHANGED releases,
         \/ Discover(p) \/ Assemble(p) \/ AssembleFails(p) \/ Post(p)
         \/ TakeReply(p) \/ GiveUp(p)
  PROVE  PublicationInv'
<1> USE DEF ClientsTyped, ClientFields
<1>0. ClientsTyped
  BY DEF PublicationInv
<1>1. CASE Discover(p)
  <2>1. client' = [client EXCEPT ![p] = [at |-> "assemble", read |-> manifest, request |-> <<>>,
                                         reply |-> NoReply, runs |-> client[p].runs - 1]]
    BY <1>1 DEF Discover
  <2>2. ClientsTyped'
    BY <1>0, <2>1
  <2>3. /\ client'[p].at = "assemble" /\ client'[p].reply = NoReply
        /\ \A q \in Publishers \ {p} : client'[q] = client[q]
    BY <1>0, <2>1
  <2> QED
    BY <2>2, <2>3, OneClientChanges
<1>2. CASE Assemble(p)
  <2>1. PICK v \in Versions, n \in Nonces :
          client' = [client EXCEPT ![p].at = "signed",
                       ![p].request = Sign(Package, p, n, PackageArchive(p, v, client[p].read, manifest))]
    BY <1>2 DEF Assemble
  <2>2. ClientsTyped'
    BY <1>0, <2>1
  <2>3. /\ client'[p].at = "signed" /\ client'[p].reply = client[p].reply
        /\ \A q \in Publishers \ {p} : client'[q] = client[q]
    BY <1>0, <2>1
  <2>4. client[p].reply = NoReply
    BY <1>2 DEF Assemble, PublicationInv, RepliesHold
  <2> QED
    BY <2>2, <2>3, <2>4, OneClientChanges
<1>3. CASE AssembleFails(p) \/ GiveUp(p)
  <2>1. client' = [client EXCEPT ![p].at = "failed"]
    BY <1>3 DEF AssembleFails, GiveUp
  <2>2. ClientsTyped'
    BY <1>0, <2>1
  <2>3. /\ client'[p].at = "failed"
        /\ \A q \in Publishers \ {p} : client'[q] = client[q]
    BY <1>0, <2>1
  <2> QED
    BY <2>2, <2>3, OneClientChanges
<1>4. CASE Post(p)
  <2>1. PICK r \in Posted(client[p].request) :
          client' = [client EXCEPT ![p].at = "sent", ![p].request = r]
    BY <1>4 DEF Post
  <2>2. ClientsTyped'
    BY <1>0, <2>1
  <2>3. /\ client'[p].at = "sent" /\ client'[p].reply = client[p].reply
        /\ \A q \in Publishers \ {p} : client'[q] = client[q]
    BY <1>0, <2>1
  <2>4. client[p].reply = NoReply
    BY <1>4 DEF Post, PublicationInv, RepliesHold
  <2>5. client'[p].reply.kind # "receipt"
    BY <2>3, <2>4 DEF NoReply
  <2> QED
    BY <2>2, <2>3, <2>5, OneClientChanges
<1>5. CASE TakeReply(p)
  <2>1. client' = [client EXCEPT ![p].at = IF ReceiptMatches(p) THEN "published" ELSE "failed"]
    BY <1>5 DEF TakeReply
  <2>2. ClientsTyped'
    BY <1>0, <2>1
  <2>3. /\ client'[p].at = IF ReceiptMatches(p) THEN "published" ELSE "failed"
        /\ client'[p].reply = client[p].reply /\ client'[p].request = client[p].request
        /\ \A q \in Publishers \ {p} : client'[q] = client[q]
    BY <1>0, <2>1
  <2>4. CASE ReceiptMatches(p)
    <3>1. client[p].reply.kind = "receipt"
      BY <2>4 DEF ReceiptMatches, Receipt
    <3>2. Holds(client[p].request)
      BY <1>5, <3>1 DEF TakeReply, PublicationInv, RepliesHold
    <3>3. Holds(client[p].request)'
      BY <2>3, <3>2 DEF Holds
    <3> QED
      BY <2>2, <2>3, <2>4, <3>1, <3>3, OneClientChanges
  <2>5. CASE ~ReceiptMatches(p)
    BY <2>2, <2>3, <2>5, OneClientChanges
  <2> QED
    BY <2>4, <2>5
<1> QED
  BY <1>1, <1>2, <1>3, <1>4, <1>5

\* A request that arrives, however often, keeps the invariant: a receipt is
\* sent by the step that stores the archive.
LEMMA PublishStep ==
  ASSUME NEW p \in Publishers, NEW r, PublicationInv, Final, Publish(p, r)
  PROVE  PublicationInv'
<1> USE DEF ClientsTyped, ClientFields
<1>0. ClientsTyped
  BY DEF PublicationInv
<1>1. CASE UNCHANGED client
  <2>1. ClientsTyped'
    BY <1>0, <1>1
  <2>2. /\ client'[p].at \in {"assemble", "signed"} => client'[p].reply = NoReply
        /\ client'[p].at \in {"sent", "published"} /\ client'[p].reply.kind = "receipt"
             => Holds(client[p].request)'
        /\ client'[p].at = "published" => client'[p].reply.kind = "receipt"
    BY <1>1 DEF PublicationInv, RepliesHold, Final, Holds
  <2> QED
    BY <1>1, <2>1, <2>2, OneClientChanges
<1>2. CASE /\ client[p].at = "sent" /\ client[p].request = r
           /\ client' = [client EXCEPT ![p].reply =
                           IF Accepts(r) THEN Receipt(r) ELSE [kind |-> "refused"]]
  <2>1. ClientsTyped'
    BY <1>0, <1>2
  <2>2. /\ client'[p].at = "sent" /\ client'[p].request = r
        /\ client'[p].reply = IF Accepts(r) THEN Receipt(r) ELSE [kind |-> "refused"]
        /\ \A q \in Publishers \ {p} : client'[q] = client[q]
    BY <1>0, <1>2
  <2>3. CASE Accepts(r)
    <3>1. StoreRelease(r)
      BY <2>3 DEF Publish
    <3>2. /\ ReleaseKey(r.archive) \in DOMAIN releases'
          /\ releases'[ReleaseKey(r.archive)].archive = r.archive
      <4>1. /\ DOMAIN releases' = DOMAIN releases \cup {ReleaseKey(r.archive)}
            /\ releases'[ReleaseKey(r.archive)] = [archive |-> r.archive, yanked |-> FALSE]
        BY <2>3, <3>1, StoreAdds
      <4> QED
        BY <4>1
    <3>3. Holds(client[p].request)'
      BY <2>2, <3>2 DEF Holds, ReleaseKey
    <3> QED
      BY <2>1, <2>2, <3>3, OneClientChanges
  <2>4. CASE ~Accepts(r)
    <3>1. client'[p].reply.kind # "receipt"
      BY <2>2, <2>4
    <3> QED
      BY <2>1, <2>2, <3>1, OneClientChanges
  <2> QED
    BY <2>3, <2>4
<1> QED
  BY <1>1, <1>2 DEF Publish

\* Requests in the network come from publishers.
Addressed == \A m \in inFlight : m[1] \in Publishers

\* Only Post adds to the network, and it names its publisher.
LEMMA AddressedStep ==
  ASSUME Addressed, [RegistryNext]_registryVars
  PROVE  Addressed'
<1>1. ASSUME NEW p \in Publishers, Post(p)
      PROVE  Addressed'
  BY <1>1 DEF Addressed, Post
<1>2. ASSUME inFlight' \subseteq inFlight
      PROVE  Addressed'
  BY <1>2 DEF Addressed
<1>3. ASSUME NEW p, NEW r, Publish(p, r) \/ Lose(p, r)
      PROVE  inFlight' \subseteq inFlight
  BY <1>3 DEF Publish, Lose
<1>4. ASSUME NEW p, NEW a,
             \/ Discover(p) \/ Assemble(p) \/ AssembleFails(p) \/ TakeReply(p)
             \/ GiveUp(p) \/ Authorize(p) \/ Yank(p)
             \/ AddRead(a) \/ AddPersist(a) \/ AddFails(a)
             \/ UNCHANGED registryVars
      PROVE  inFlight' \subseteq inFlight
  BY <1>4 DEF Discover, Assemble, AssembleFails, TakeReply, GiveUp, Authorize, Yank, AddRead,
              AddPersist, AddFails, registryVars, publishVars
<1> QED
  BY <1>1, <1>2, <1>3, <1>4 DEF RegistryNext

\* Steps that touch neither clients nor archives keep the invariant.
LEMMA ClientsUnchanged ==
  ASSUME PublicationInv, Final, UNCHANGED client
  PROVE  PublicationInv'
BY DEF PublicationInv, ClientsTyped, RepliesHold, Final, Holds

\* A publish command that reported success is right, whatever was lost,
\* repeated or published since.
THEOREM ReceiptsAreHonoured == RegistrySpec => []ReceiptHonoured
<1> DEFINE Inv == PublicationInv /\ ReleasesTyped /\ Addressed
<1>1. RegistryInit => Inv
  <2> SUFFICES ASSUME RegistryInit PROVE Inv
    OBVIOUS
  <2>1. PICK s \in Sessions : client = [p \in Publishers |-> Idle(s.runs[p])]
    BY DEF RegistryInit
  <2>2. PublicationInv
    BY <2>1 DEF PublicationInv, ClientsTyped, ClientFields, RepliesHold, Idle
  <2> QED
    BY <2>2 DEF RegistryInit, ReleasesTyped, Addressed
<1>2. Inv /\ [RegistryNext]_registryVars => Inv'
  <2> SUFFICES ASSUME Inv, [RegistryNext]_registryVars PROVE Inv'
    OBVIOUS
  <2>1. ReleasesTyped' /\ Final /\ Addressed'
    BY ReleasesStep, AddressedStep
  <2>2. ASSUME NEW p \in Publishers,
               \/ Discover(p) \/ Assemble(p) \/ AssembleFails(p) \/ Post(p)
               \/ TakeReply(p) \/ GiveUp(p)
        PROVE  PublicationInv'
    BY <2>1, <2>2, ClientStep, OthersKeepReleases
  <2>3. ASSUME NEW m \in inFlight, Publish(m[1], m[2])
        PROVE  PublicationInv'
    BY <2>1, <2>3, PublishStep DEF Addressed
  <2>4. ASSUME UNCHANGED client
        PROVE  PublicationInv'
    BY <2>1, <2>4, ClientsUnchanged
  <2>5. ASSUME NEW p, NEW r,
               \/ Authorize(p) \/ Lose(p, r) \/ Yank(p)
               \/ AddRead(p) \/ AddPersist(p) \/ AddFails(p) \/ UNCHANGED registryVars
        PROVE  UNCHANGED client
    BY <2>5 DEF Authorize, Lose, Yank, AddRead, AddPersist, AddFails, registryVars, publishVars
  <2> HIDE DEF Inv
  <2>6. PublicationInv'
    BY <2>2, <2>3, <2>4, <2>5 DEF RegistryNext
  <2> QED
    BY <2>1, <2>6 DEF Inv
<1>3. Inv => ReceiptHonoured
  BY DEF PublicationInv, RepliesHold, Holds, ReceiptHonoured
<1> QED
  BY <1>1, <1>2, <1>3, PTL DEF RegistrySpec

-----------------------------------------------------------------------------
(* Nonces.                                                                 *)

\* Every accepted request left its nonce behind.
NonceInv == NonceAcceptedOnce /\ \A r \in accepted : <<r.namespace, r.nonce>> \in usedNonces

\* Delivering a request again, or running the command again with its nonce,
\* publishes nothing more; what is stored came in a signed, accepted request.
THEOREM NoncesAcceptedOnce == RegistrySpec => []NonceAcceptedOnce
<1> DEFINE Inv == NonceInv /\ ReleasesTyped
<1>1. RegistryInit => Inv
  BY DEF RegistryInit, NonceInv, NonceAcceptedOnce, ReleasesTyped
<1>2. Inv /\ [RegistryNext]_registryVars => Inv'
  <2> SUFFICES ASSUME Inv, [RegistryNext]_registryVars PROVE Inv'
    OBVIOUS
  <2>1. ReleasesTyped'
    BY ReleasesStep
  <2>2. ASSUME NEW r, Accepts(r), StoreRelease(r)
        PROVE  NonceInv'
    <3>1. /\ accepted' = accepted \cup {r}
          /\ usedNonces' = usedNonces \cup {<<r.namespace, r.nonce>>}
          /\ <<r.namespace, r.nonce>> \notin usedNonces
      BY <2>2 DEF Accepts, StoreRelease
    <3>2. \A s, t \in accepted' : s.namespace = t.namespace /\ s.nonce = t.nonce => s = t
      BY <3>1 DEF NonceInv, NonceAcceptedOnce
    <3>3. \A s \in accepted' : <<s.namespace, s.nonce>> \in usedNonces'
      BY <3>1 DEF NonceInv
    <3>4. ASSUME NEW k \in DOMAIN releases'
          PROVE  \E s \in accepted' : s.archive = releases'[k].archive /\ VerifySignature(s)
      <4>1. CASE k \in DOMAIN releases
        BY <2>2, <3>1, <4>1, StoreAdds DEF NonceInv, NonceAcceptedOnce
      <4>2. CASE k = ReleaseKey(r.archive)
        <5>1. releases'[k] = [archive |-> r.archive, yanked |-> FALSE]
          BY <2>2, <4>2, StoreAdds
        <5>2. r \in accepted' /\ VerifySignature(r)
          BY <2>2, <3>1 DEF Accepts
        <5> QED
          BY <5>1, <5>2
      <4> QED
        BY <2>2, <3>4, <4>1, <4>2, StoreAdds
    <3> QED
      BY <3>2, <3>3, <3>4 DEF NonceInv, NonceAcceptedOnce, VerifySignature, SigningBytes
  <2>3. ASSUME NEW k \in DOMAIN releases, Yank(k)
        PROVE  NonceInv'
    <3>1. /\ DOMAIN releases' = DOMAIN releases
          /\ \A j \in DOMAIN releases : releases'[j].archive = releases[j].archive
      BY <2>3, YankMarks
    <3>2. accepted' = accepted /\ usedNonces' = usedNonces
      BY <2>3 DEF Yank
    <3>3. \A j \in DOMAIN releases' :
            \E s \in accepted' : s.archive = releases'[j].archive /\ VerifySignature(s)
      BY <3>1, <3>2 DEF NonceInv, NonceAcceptedOnce
    <3> QED
      BY <3>2, <3>3 DEF NonceInv, NonceAcceptedOnce, VerifySignature, SigningBytes
  <2>4. ASSUME UNCHANGED <<releases, usedNonces, accepted>>
        PROVE  NonceInv'
    BY <2>4 DEF NonceInv, NonceAcceptedOnce, VerifySignature, SigningBytes
  <2>5. ASSUME NEW p, NEW r, Publish(p, r)
        PROVE  NonceInv'
    BY <2>2, <2>4, <2>5 DEF Publish
  <2>6. ASSUME NEW p, NEW r,
               \/ Discover(p) \/ Assemble(p) \/ AssembleFails(p) \/ Post(p) \/ TakeReply(p)
               \/ GiveUp(p) \/ Authorize(p) \/ Lose(p, r)
               \/ AddRead(p) \/ AddPersist(p) \/ AddFails(p) \/ UNCHANGED registryVars
        PROVE  UNCHANGED <<releases, usedNonces, accepted>>
    BY <2>6 DEF Discover, Assemble, AssembleFails, Post, TakeReply, GiveUp, Authorize, Lose,
                AddRead, AddPersist, AddFails, registryVars, publishVars
  <2> HIDE DEF Inv
  <2>7. NonceInv'
    BY <2>3, <2>4, <2>5, <2>6 DEF RegistryNext
  <2> QED
    BY <2>1, <2>7 DEF Inv
<1>3. Inv => NonceAcceptedOnce
  BY DEF NonceInv
<1> QED
  BY <1>1, <1>2, <1>3, PTL DEF RegistrySpec

-----------------------------------------------------------------------------
(* Edits of the manifest.                                                  *)

Done == {a \in Adders : edit[a].at = "done"}

EditsTyped ==
  /\ DOMAIN edit = Adders
  /\ \A a \in Adders : DOMAIN edit[a] = {"at", "document", "seen"}

\* The document has the dependency a asked for, or what one of the given
\* adders asked for under the same name.
Carries(document, a, adders) ==
  /\ Requirement[a].name \in DOMAIN document
  /\ \E b \in adders : /\ Requirement[b].name = Requirement[a].name
                       /\ document[Requirement[a].name] = Requirement[b].range

\* The inductive invariant: the manifest carries every finished edit that was
\* not overtaken, and so does a staged document for the edits it was made
\* after, beside its own.
EditInv ==
  /\ EditsTyped
  /\ \A a \in Done : a \in overtaken \/ Carries(manifest, a, Done)
  /\ \A s \in Adders : edit[s].at = "staged" =>
       /\ edit[s].seen \subseteq Done
       /\ Carries(edit[s].document, s, {s})
       /\ \A a \in edit[s].seen :
            a \in overtaken \/ Carries(edit[s].document, a, Done \cup {s})

\* An edit keeps what the document carried and adds its own requirement.
LEMMA WithCarries ==
  ASSUME NEW document, NEW s \in Adders
  PROVE  /\ Carries(With(document, Requirement[s]), s, {s})
         /\ \A a, adders : Carries(document, a, adders)
              => Carries(With(document, Requirement[s]), a, adders \cup {s})
BY DEF Carries, With

\* What a document carries it carries for a larger set of adders.
LEMMA CarriesMore ==
  ASSUME NEW document, NEW a, NEW few, NEW many, few \subseteq many, Carries(document, a, few)
  PROVE  Carries(document, a, many)
BY DEF Carries

\* Reading the manifest.
LEMMA ReadStep ==
  ASSUME NEW s \in Adders, EditInv, AddRead(s)
  PROVE  EditInv'
<1> DEFINE D == With(manifest, Requirement[s])
<1>1. edit' = [edit EXCEPT ![s] = [at |-> "staged", document |-> D, seen |-> Done]]
  BY DEF AddRead, Done
<1>2. /\ edit'[s].at = "staged" /\ edit'[s].document = D /\ edit'[s].seen = Done
      /\ \A a \in Adders \ {s} : edit'[a] = edit[a]
      /\ EditsTyped'
  BY <1>1 DEF EditInv, EditsTyped
<1>3. manifest' = manifest /\ overtaken' = overtaken /\ edit[s].at = "idle"
  BY DEF AddRead
<1>4. Done' = Done
  BY <1>2, <1>3 DEF Done
<1>5. \A a \in Done' : a \in overtaken' \/ Carries(manifest', a, Done')
  BY <1>3, <1>4 DEF EditInv
<1>6. ASSUME NEW t \in Adders, edit'[t].at = "staged"
      PROVE  /\ edit'[t].seen \subseteq Done'
             /\ Carries(edit'[t].document, t, {t})
             /\ \A a \in edit'[t].seen :
                  a \in overtaken' \/ Carries(edit'[t].document, a, Done' \cup {t})
  <2>1. CASE t = s
    <3>1. Carries(D, s, {s})
      BY WithCarries
    <3>2. \A a \in Done : a \in overtaken \/ Carries(D, a, Done \cup {s})
      BY WithCarries DEF EditInv
    <3> HIDE DEF D
    <3> QED
      BY <1>2, <1>3, <1>4, <2>1, <3>1, <3>2
  <2>2. CASE t # s
    BY <1>2, <1>3, <1>4, <1>6, <2>2 DEF EditInv
  <2> QED
    BY <2>1, <2>2
<1> QED
  BY <1>2, <1>5, <1>6 DEF EditInv, Carries

\* Replacing the manifest.
LEMMA PersistStep ==
  ASSUME NEW s \in Adders, EditInv, AddPersist(s)
  PROVE  EditInv'
<1>1. edit' = [edit EXCEPT ![s].at = "done"]
  BY DEF AddPersist
<1>2. /\ edit'[s].at = "done"
      /\ \A a \in Adders \ {s} : edit'[a] = edit[a]
      /\ EditsTyped'
  BY <1>1 DEF EditInv, EditsTyped
<1>3. /\ edit[s].at = "staged" /\ manifest' = edit[s].document
      /\ overtaken' = overtaken \cup (Done \ edit[s].seen)
  BY DEF AddPersist, Done
<1>4. Done' = Done \cup {s}
  BY <1>2, <1>3 DEF Done
<1>5. ASSUME NEW a \in Done'
      PROVE  a \in overtaken' \/ Carries(manifest', a, Done')
  <2>1. CASE a = s
    BY <1>3, <1>4, <2>1, CarriesMore DEF EditInv
  <2>2. CASE a \in edit[s].seen
    BY <1>3, <1>4, <2>2 DEF EditInv
  <2> QED
    BY <1>3, <1>4, <1>5, <2>1, <2>2
<1>6. ASSUME NEW t \in Adders, edit'[t].at = "staged"
      PROVE  /\ edit'[t].seen \subseteq Done'
             /\ Carries(edit'[t].document, t, {t})
             /\ \A a \in edit'[t].seen :
                  a \in overtaken' \/ Carries(edit'[t].document, a, Done' \cup {t})
  <2>1. t # s /\ edit'[t] = edit[t]
    BY <1>2, <1>6
  <2>2. ASSUME NEW a \in edit[t].seen
        PROVE  a \in overtaken' \/ Carries(edit[t].document, a, Done' \cup {t})
    <3>1. a \in overtaken \/ Carries(edit[t].document, a, Done \cup {t})
      BY <1>6, <2>1, <2>2 DEF EditInv
    <3> QED
      BY <1>3, <1>4, <3>1, CarriesMore
  <2> QED
    BY <1>4, <1>6, <2>1, <2>2 DEF EditInv
<1> QED
  BY <1>2, <1>5, <1>6 DEF EditInv, Carries

\* A failed edit leaves the manifest alone.
LEMMA FailStep ==
  ASSUME NEW s \in Adders, EditInv, AddFails(s)
  PROVE  EditInv'
<1>1. edit' = [edit EXCEPT ![s].at = "failed"]
  BY DEF AddFails
<1>2. /\ edit'[s].at = "failed"
      /\ \A a \in Adders \ {s} : edit'[a] = edit[a]
      /\ EditsTyped'
  BY <1>1 DEF EditInv, EditsTyped
<1>3. manifest' = manifest /\ overtaken' = overtaken /\ edit[s].at # "done"
  BY DEF AddFails
<1>4. Done' = Done
  BY <1>2, <1>3 DEF Done
<1>5. \A a \in Done' : a \in overtaken' \/ Carries(manifest', a, Done')
  BY <1>3, <1>4 DEF EditInv
<1>6. ASSUME NEW t \in Adders, edit'[t].at = "staged"
      PROVE  /\ edit'[t].seen \subseteq Done'
             /\ Carries(edit'[t].document, t, {t})
             /\ \A a \in edit'[t].seen :
                  a \in overtaken' \/ Carries(edit'[t].document, a, Done' \cup {t})
  <2>1. t # s /\ edit'[t] = edit[t]
    BY <1>2, <1>6
  <2> QED
    BY <1>3, <1>4, <1>6, <2>1 DEF EditInv
<1> QED
  BY <1>2, <1>5, <1>6 DEF EditInv, Carries

\* Editing the manifest loses nothing but what overlapping edits lose.
THEOREM AddsAreKept == RegistrySpec => []AddsKept
<1>1. RegistryInit => EditInv
  <2> SUFFICES ASSUME RegistryInit PROVE EditInv
    OBVIOUS
  <2>1. EditsTyped /\ \A a \in Adders : edit[a].at \notin {"done", "staged"}
    BY DEF RegistryInit, EditsTyped
  <2>2. Done = {}
    BY <2>1 DEF Done
  <2> QED
    BY <2>1, <2>2 DEF EditInv
<1>2. EditInv /\ [RegistryNext]_registryVars => EditInv'
  <2> SUFFICES ASSUME EditInv, [RegistryNext]_registryVars PROVE EditInv'
    OBVIOUS
  <2>1. ASSUME UNCHANGED addVars
        PROVE  EditInv'
    <3>1. manifest' = manifest /\ edit' = edit /\ overtaken' = overtaken
      BY <2>1 DEF addVars
    <3>2. Done' = Done /\ EditsTyped'
      BY <3>1 DEF Done, EditInv, EditsTyped
    <3>3. (\A a \in Done : a \in overtaken \/ Carries(manifest, a, Done))'
      BY <3>1, <3>2 DEF EditInv, Carries
    <3> QED
      BY <3>1, <3>2, <3>3 DEF EditInv, Carries
  <2>2. ASSUME NEW p, NEW r,
               \/ Discover(p) \/ Assemble(p) \/ AssembleFails(p) \/ Post(p) \/ TakeReply(p)
               \/ GiveUp(p) \/ Authorize(p) \/ Lose(p, r) \/ Publish(p, r) \/ Yank(p)
               \/ UNCHANGED registryVars
        PROVE  UNCHANGED addVars
    BY <2>2 DEF Discover, Assemble, AssembleFails, Post, TakeReply, GiveUp, Authorize, Lose,
                Publish, Yank, registryVars, addVars
  <2> QED
    BY <2>1, <2>2, ReadStep, PersistStep, FailStep DEF RegistryNext
<1>3. EditInv => AddsKept
  <2> SUFFICES ASSUME EditInv, NEW a \in Adders, edit[a].at = "done", a \notin overtaken
               PROVE  /\ Requirement[a].name \in DOMAIN manifest
                      /\ \/ manifest[Requirement[a].name] = Requirement[a].range
                         \/ \E b \in Adders \ {a} :
                              /\ edit[b].at = "done"
                              /\ Requirement[b].name = Requirement[a].name
                              /\ manifest[Requirement[a].name] = Requirement[b].range
    BY DEF AddsKept
  <2>1. Carries(manifest, a, Done)
    BY DEF EditInv, Done
  <2> QED
    BY <2>1 DEF Carries, Done
<1> QED
  BY <1>1, <1>2, <1>3, PTL DEF RegistrySpec

HIDE RegistryAssumption
=============================================================================
