--------------------------- MODULE ServiceProofs ----------------------------
(***************************************************************************)
(* Proofs about the services a program and its author talk to, for every   *)
(* value of the constants: the routing of invocations, the development     *)
(* server, the query database and provider streams.                        *)
(***************************************************************************)
EXTENDS TokenStream, ProviderRouting, DevServer, QueryDatabase, TLAPS

USE SMTT(4), ZenonT(10), SMTT(20), ZenonT(40), SMTT(40)

-----------------------------------------------------------------------------
(***************************************************************************)
(* ProviderRouting, for every set of adapters, callers and every list of   *)
(* routes: invocations agree on their adapters, although they took their   *)
(* snapshots of the registry at different times.                           *)
(***************************************************************************)
USE RoutesAssumption

Fields == {"at", "snapshot", "route", "skipped", "adapter"}

CallsTyped ==
  /\ DOMAIN call = Callers
  /\ \A c \in Callers : DOMAIN call[c] = Fields

\* Adapters are added to the registry and never replaced: a snapshot is a part
\* of the registry as it is now.
SnapshotsHold ==
  /\ \A n \in DOMAIN adapters : AbiCompatible(adapters[n])
  /\ \A c \in Callers : \A n \in DOMAIN call[c].snapshot :
       n \in DOMAIN adapters /\ call[c].snapshot[n] = adapters[n]

\* A route was selected for c: the first that was not tripped then.
Selected(c) ==
  /\ call[c].route \in DOMAIN Routes
  /\ Routes[call[c].route].name \notin call[c].skipped
  /\ \A k \in 1 .. call[c].route - 1 : Routes[k].name \in call[c].skipped

\* The provider of that route was looked up in the snapshot of c.
Resolved(c) ==
  /\ Routes[call[c].route].provider \in DOMAIN call[c].snapshot
  /\ call[c].adapter = call[c].snapshot[Routes[call[c].route].provider]

Routed(c) ==
  /\ call[c].at \in {"resolve", "resolved"} => Selected(c)
  /\ call[c].at = "resolved" => Resolved(c)

RoutesSelected == \A c \in Callers : Routed(c)

\* The inductive invariant.
RoutingInv == CallsTyped /\ SnapshotsHold /\ RoutesSelected

-----------------------------------------------------------------------------
\* An invocation that stands where it stood is routed as it was.
LEMMA RoutedAsBefore == ASSUME NEW c, call'[c] = call[c], Routed(c) PROVE Routed(c)'
BY DEF Routed, Selected, Resolved

\* The registry starts empty and no invocation has begun.
LEMMA InitRoutingInv == RoutingInit => RoutingInv
<1> SUFFICES ASSUME RoutingInit PROVE RoutingInv
  OBVIOUS
<1>1. CallsTyped
  BY DEF RoutingInit, CallsTyped, Fields
<1>2. /\ DOMAIN adapters = {}
      /\ \A c \in Callers : DOMAIN call[c].snapshot = {} /\ call[c].at = "start"
  BY DEF RoutingInit
<1>3. SnapshotsHold
  BY <1>2 DEF SnapshotsHold
<1>4. RoutesSelected
  BY <1>2 DEF RoutesSelected, Routed
<1> QED
  BY <1>1, <1>3, <1>4 DEF RoutingInv

\* Registrations extend the registry: snapshots still agree with it.
LEMMA RegisterStep ==
  ASSUME RoutingInv, NEW a \in Adapters, Register(a)
  PROVE  RoutingInv'
<1>1. /\ DOMAIN adapters' = DOMAIN adapters \cup {a.name}
      /\ adapters'[a.name] = a
      /\ \A n \in DOMAIN adapters : adapters'[n] = adapters[n]
      /\ AbiCompatible(a)
      /\ call' = call
  BY DEF Register
<1>2. CallsTyped'
  BY <1>1 DEF RoutingInv, CallsTyped
<1>3. SnapshotsHold'
  <2>1. \A n \in DOMAIN adapters' : AbiCompatible(adapters'[n])
    BY <1>1 DEF RoutingInv, SnapshotsHold
  <2> QED
    BY <1>1, <2>1 DEF RoutingInv, SnapshotsHold
<1>4. RoutesSelected'
  BY <1>1, RoutedAsBefore DEF RoutingInv, RoutesSelected
<1> QED
  BY <1>2, <1>3, <1>4 DEF RoutingInv

\* Tripping and restoring routes changes nothing that was selected before.
LEMMA TripStep ==
  ASSUME RoutingInv, UNCHANGED <<adapters, call>>
  PROVE  RoutingInv'
<1>1. CallsTyped' /\ SnapshotsHold'
  BY DEF RoutingInv, CallsTyped, SnapshotsHold
<1>2. RoutesSelected'
  BY RoutedAsBefore DEF RoutingInv, RoutesSelected
<1> QED
  BY <1>1, <1>2 DEF RoutingInv

\* A snapshot is the registry as it is when it is taken.
LEMMA SnapshotStep ==
  ASSUME RoutingInv, NEW c \in Callers, Snapshot(c)
  PROVE  RoutingInv'
<1>1. /\ adapters' = adapters
      /\ call' = [call EXCEPT ![c] = [at |-> "select", snapshot |-> adapters, route |-> 0,
                                      skipped |-> {}, adapter |-> <<>>]]
  BY DEF Snapshot
<1>2. /\ DOMAIN call' = Callers
      /\ call'[c] = [at |-> "select", snapshot |-> adapters, route |-> 0,
                     skipped |-> {}, adapter |-> <<>>]
      /\ \A d \in Callers \ {c} : call'[d] = call[d]
  BY <1>1 DEF RoutingInv, CallsTyped
<1>3. CallsTyped'
  BY <1>2 DEF RoutingInv, CallsTyped, Fields
<1>4. SnapshotsHold'
  <2>1. call'[c].snapshot = adapters
    BY <1>2
  <2> QED
    BY <1>1, <1>2, <2>1 DEF RoutingInv, SnapshotsHold
<1>5. RoutesSelected'
  <2>1. Routed(c)'
    BY <1>2 DEF Routed
  <2>2. \A d \in Callers \ {c} : Routed(d)'
    BY <1>2, RoutedAsBefore DEF RoutingInv, RoutesSelected
  <2> QED
    BY <2>1, <2>2 DEF RoutesSelected
<1> QED
  BY <1>3, <1>4, <1>5 DEF RoutingInv

\* The router selects the first route that is not tripped at that moment.
LEMMA SelectStep ==
  ASSUME RoutingInv, NEW c \in Callers, SelectRoute(c)
  PROVE  RoutingInv'
<1> DEFINE next(k) == IF k = 0 THEN "noRoute" ELSE "resolve"
<1>1. PICK k \in DOMAIN Routes \cup {0} :
        /\ Select(k)
        /\ call' = [call EXCEPT ![c].route = k, ![c].skipped = unavailable, ![c].at = next(k)]
        /\ adapters' = adapters
  BY DEF SelectRoute
<1>2. DOMAIN call = Callers /\ DOMAIN call[c] = Fields
  BY DEF RoutingInv, CallsTyped
<1>3. /\ DOMAIN call' = Callers
      /\ DOMAIN call'[c] = Fields
      /\ call'[c].at = next(k)
      /\ call'[c].route = k
      /\ call'[c].skipped = unavailable
      /\ call'[c].snapshot = call[c].snapshot
      /\ \A d \in Callers \ {c} : call'[d] = call[d]
  BY <1>1, <1>2 DEF Fields
<1>4. CallsTyped'
  BY <1>3 DEF RoutingInv, CallsTyped
<1>5. SnapshotsHold'
  BY <1>1, <1>3 DEF RoutingInv, SnapshotsHold
<1>6. RoutesSelected'
  <2>1. k # 0 => Selected(c)'
    BY <1>1, <1>3 DEF Selected, Select, Available
  <2>2. Routed(c)'
    BY <1>3, <2>1 DEF Routed
  <2>3. \A d \in Callers \ {c} : Routed(d)'
    BY <1>3, RoutedAsBefore DEF RoutingInv, RoutesSelected
  <2> QED
    BY <2>2, <2>3 DEF RoutesSelected
<1> QED
  BY <1>4, <1>5, <1>6 DEF RoutingInv

\* The provider of the route is looked up in the snapshot, not in the registry.
LEMMA ResolveStep ==
  ASSUME RoutingInv, NEW c \in Callers, ResolveRoute(c)
  PROVE  RoutingInv'
<1> DEFINE provider == Routes[call[c].route].provider
           found == provider \in DOMAIN call[c].snapshot
           next == IF found THEN "resolved" ELSE "unknown"
           handle == IF found THEN call[c].snapshot[provider] ELSE <<>>
<1>1. /\ adapters' = adapters
      /\ call[c].at = "resolve"
      /\ call' = [call EXCEPT ![c].at = next, ![c].adapter = handle]
  BY DEF ResolveRoute
<1>2. DOMAIN call = Callers /\ DOMAIN call[c] = Fields
  BY DEF RoutingInv, CallsTyped
<1>3. /\ DOMAIN call' = Callers
      /\ DOMAIN call'[c] = Fields
      /\ call'[c].at = next
      /\ call'[c].adapter = handle
      /\ call'[c].route = call[c].route
      /\ call'[c].skipped = call[c].skipped
      /\ call'[c].snapshot = call[c].snapshot
      /\ \A d \in Callers \ {c} : call'[d] = call[d]
  BY <1>1, <1>2 DEF Fields
<1>4. CallsTyped'
  BY <1>3 DEF RoutingInv, CallsTyped
<1>5. SnapshotsHold'
  <2>1. \A d \in Callers : call'[d].snapshot = call[d].snapshot
    BY <1>3
  <2>2. adapters' = adapters
    BY <1>1
  <2> QED
    BY <2>1, <2>2 DEF RoutingInv, SnapshotsHold
<1>6. RoutesSelected'
  <2>1. Selected(c)
    BY <1>1 DEF RoutingInv, RoutesSelected, Routed
  <2>2. Selected(c)'
    BY <1>3, <2>1 DEF Selected
  <2>3. Routed(c)'
    BY <1>3, <2>2 DEF Routed, Resolved
  <2>4. \A d \in Callers \ {c} : Routed(d)'
    BY <1>3, RoutedAsBefore DEF RoutingInv, RoutesSelected
  <2> QED
    BY <2>3, <2>4 DEF RoutesSelected
<1> QED
  BY <1>4, <1>5, <1>6 DEF RoutingInv

\* Every step keeps the invariant.
LEMMA NextRoutingInv ==
  ASSUME RoutingInv, [RoutingNext]_routingVars
  PROVE  RoutingInv'
<1>1. ASSUME NEW r, Trip(r) \/ Restore(r)
      PROVE  RoutingInv'
  BY <1>1, TripStep DEF Trip, Restore
<1>2. CASE UNCHANGED routingVars
  BY <1>2, TripStep DEF routingVars
<1> QED
  BY <1>1, <1>2, RegisterStep, SnapshotStep, SelectStep, ResolveStep DEF RoutingNext

\* The invariant makes any two resolved invocations agree.
LEMMA InvAgrees == RoutingInv => CallersAgree
<1> SUFFICES ASSUME RoutingInv,
                    NEW c \in Callers, call[c].at = "resolved",
                    NEW d \in Callers, call[d].at = "resolved"
             PROVE  /\ AbiCompatible(call[c].adapter)
                    /\ Routes[call[c].route].provider = Routes[call[d].route].provider
                         => call[c].adapter = call[d].adapter
                    /\ \A k \in 1 .. call[c].route - 1 : Routes[k].name \in call[c].skipped
                    /\ Routes[call[c].route].name \notin call[c].skipped
  BY DEF CallersAgree
<1>1. /\ Routes[call[c].route].provider \in DOMAIN adapters
      /\ call[c].adapter = adapters[Routes[call[c].route].provider]
      /\ call[d].adapter = adapters[Routes[call[d].route].provider]
  BY DEF RoutingInv, RoutesSelected, Routed, Resolved, SnapshotsHold
<1>2. Selected(c)
  BY DEF RoutingInv, RoutesSelected, Routed
<1> QED
  BY <1>1, <1>2 DEF RoutingInv, SnapshotsHold, Selected

\* However registrations and trips interleave with invocations, two invocations
\* that resolve one provider get one adapter, of the runtime's ABI, on the first
\* route that was available.
THEOREM CallersAlwaysAgree == RoutingSpec => []CallersAgree
<1>1. RoutingInv /\ [RoutingNext]_routingVars => RoutingInv'
  BY NextRoutingInv
<1> QED
  BY <1>1, InitRoutingInv, InvAgrees, PTL DEF RoutingSpec

HIDE RoutesAssumption

-----------------------------------------------------------------------------
(***************************************************************************)
(* DevServer, for any targets, contents and channel capacity: no edit      *)
(* falls between a poll and a build.                                       *)
(***************************************************************************)
DevTyped ==
  /\ disk \in [Paths -> Contents]
  /\ past \in [Paths -> SUBSET Contents]
  /\ observed \in [Paths -> Contents \cup {"unseen"}]
  /\ pending \in [Paths -> {"no", "waiting", "due"}]
  /\ ready \subseteq Paths
  /\ target \in DOMAIN Targets
  /\ DOMAIN built = Paths

\* What is on disk, and what was observed there, the file has contained.
Remembered ==
  \A p \in Paths : disk[p] \in past[p] /\ observed[p] \in past[p] \cup {"unseen"}

\* Path p is out of the pending set and its source is not yet read.
Entering(p) == task = "building" /\ Targets[target].path = p

\* A path that is not pending, not about to be read and not edited since the
\* last poll was built from what it contains.
UpToDate ==
  \A p \in Paths :
    ~Ended /\ pending[p] = "no" /\ observed[p] = disk[p] /\ ~Entering(p) =>
      built[p] = Text(disk[p])

\* The inductive invariant.
DevInv == DevTyped /\ Remembered /\ UpToDate

-----------------------------------------------------------------------------
\* The server starts with every path unobserved, so that nothing counts as built.
LEMMA InitDev == Init => DevInv
<1> SUFFICES ASSUME Init PROVE DevInv
  OBVIOUS
<1>1. 1 \in DOMAIN Targets
  BY TargetsAssumption
<1>2. DevTyped
  BY <1>1 DEF Init, DevTyped
<1>3. Remembered
  BY DEF Init, Remembered
<1>4. \A p \in Paths : observed[p] # disk[p]
  BY ContentsAssumption DEF Init
<1> QED
  BY <1>2, <1>3, <1>4 DEF DevInv, UpToDate

\* The poll: what it finds changed is pending, the rest was up to date.
LEMMA TickStep == ASSUME DevInv, Tick PROVE DevInv'
<1> USE DEF DevInv, buildVars, clientVars
<1>1. /\ task = "select" /\ task' = "loop" /\ observed' = disk
      /\ UNCHANGED <<disk, past, target, built>>
      /\ \A p \in Paths : pending'[p] = IF observed[p] # disk[p] THEN "waiting" ELSE pending[p]
  BY DEF Tick
<1>2. DevTyped'
  <2>1. pending' \in [Paths -> {"no", "waiting", "due"}] /\ ready' \subseteq Paths
    BY DEF DevTyped, Tick
  <2> QED
    BY <1>1, <2>1 DEF DevTyped
<1>3. Remembered'
  BY <1>1 DEF Remembered
<1>4. UpToDate'
  BY <1>1 DEF UpToDate, Entering, Ended
<1> QED
  BY <1>2, <1>3, <1>4

\* A path leaves the pending set and its build is about to read it.
LEMMA BeginStep == ASSUME DevInv, BeginBuild PROVE DevInv'
<1> USE DEF DevInv, clientVars
<1>1. PICK p \in ready, k \in DOMAIN Targets :
        /\ Targets[k].path = p
        /\ ready' = ready \ {p}
        /\ pending' = [pending EXCEPT ![p] = "no"]
        /\ target' = k
  BY DEF BeginBuild, Find
<1>2. /\ p \in Paths /\ task = "loop" /\ task' = "building"
      /\ UNCHANGED <<disk, past, observed, built>>
  BY DEF BeginBuild, DevTyped
<1>3. target' \in DOMAIN Targets /\ Targets[target'].path = p
  BY <1>1
<1>4. DevTyped'
  BY <1>1, <1>2, <1>3 DEF DevTyped
<1>5. Remembered'
  BY <1>2 DEF Remembered
<1>6. \A q \in Paths : q # p => pending'[q] = pending[q]
  BY <1>1 DEF DevTyped
<1>7. UpToDate'
  BY <1>2, <1>3, <1>6 DEF UpToDate, Entering, Ended
<1> QED
  BY <1>4, <1>5, <1>7

\* The source is read after its path left the pending set: an edit before
\* the read is built, an edit after it is found by the next poll.
LEMMA SourceReadStep == ASSUME DevInv, SendBuilding PROVE DevInv'
<1> USE DEF DevInv, watchVars, clientVars
<1> DEFINE path == Targets[target].path
<1>1. /\ task = "building" /\ task' = "diagnostics"
      /\ built' = [built EXCEPT ![path] = Text(disk[path])]
      /\ UNCHANGED <<disk, past, observed, pending, ready, target>>
  BY DEF SendBuilding
<1>2. path \in Paths
  BY DEF DevTyped, Paths
<1>3. DevTyped'
  BY <1>1 DEF DevTyped
<1>4. Remembered'
  BY <1>1 DEF Remembered
<1>5. /\ built'[path] = Text(disk[path])
      /\ \A q \in Paths : q # path => built'[q] = built[q]
  BY <1>1, <1>2 DEF DevTyped
<1>6. UpToDate'
  BY <1>1, <1>5 DEF UpToDate, Entering, Ended
<1> QED
  BY <1>3, <1>4, <1>6

\* An edit that brings no earlier contents back is seen by the next poll.
LEMMA EditStep == ASSUME ~Reverts, DevInv, NEW p \in Paths, Edit(p) PROVE DevInv'
<1> USE DEF DevInv, watchVars, buildVars, clientVars
<1>1. PICK c \in Contents : /\ c \notin past[p]
                            /\ disk' = [disk EXCEPT ![p] = c]
                            /\ past' = [past EXCEPT ![p] = past[p] \cup {c}]
  BY DEF Edit
<1>2. UNCHANGED <<observed, pending, ready, task, target, built>>
  BY DEF Edit
<1>3. DevTyped'
  BY <1>1, <1>2 DEF DevTyped
<1>4. /\ disk'[p] = c /\ past'[p] = past[p] \cup {c}
      /\ \A q \in Paths : q # p => disk'[q] = disk[q] /\ past'[q] = past[q]
  BY <1>1 DEF DevTyped
<1>5. Remembered'
  BY <1>2, <1>4 DEF Remembered
<1>6. observed[p] # c
  BY <1>1, ContentsAssumption DEF Remembered
<1>7. UpToDate'
  BY <1>2, <1>4, <1>6 DEF UpToDate, Entering, Ended
<1> QED
  BY <1>3, <1>5, <1>7

\* Every other step leaves the files, the polls and the builds alone.
LEMMA OtherStep ==
  ASSUME DevInv, UNCHANGED <<disk, past, observed, ready, target, built>>,
         pending' = pending \/ \E p \in Paths : pending' = [pending EXCEPT ![p] = "due"],
         task' = task \/ (task # "building" /\ task' # "building" /\ ~Ended) \/ Ended'
  PROVE  DevInv'
<1> USE DEF DevInv
<1>1. DevTyped'
  BY DEF DevTyped
<1>2. Remembered'
  BY DEF Remembered
<1>3. \A p \in Paths : pending'[p] = "no" => pending[p] = "no"
  BY DEF DevTyped
<1>4. UpToDate'
  BY <1>3 DEF UpToDate, Entering, Ended
<1> QED
  BY <1>1, <1>2, <1>4

\* Every step of the task, the command and the editor keeps the invariant.
LEMMA DevStep == ASSUME ~Reverts, DevInv, [Next]_vars PROVE DevInv'
<1> USE DEF watchVars, buildVars, clientVars
<1>1. CASE Tick \/ BeginBuild \/ SendBuilding
  BY <1>1, TickStep, BeginStep, SourceReadStep
<1>2. CASE \E p \in Paths : Edit(p)
  BY <1>2, EditStep
<1>3. CASE \/ EndTick \/ SendDiagnostics \/ SendReady \/ SendRestarted \/ SendFails
           \/ ObserveShutdown \/ TaskPanics \/ ReceiveEvent \/ LeaveLoop \/ JoinTask
           \/ UNCHANGED vars
  BY <1>3, OtherStep DEF EndTick, SendDiagnostics, SendReady, SendRestarted, SendFails,
     ObserveShutdown, TaskPanics, ReceiveEvent, LeaveLoop, JoinTask, vars, Ended
<1>4. CASE \E p \in Paths : DebounceElapsed(p)
  BY <1>4, OtherStep DEF DebounceElapsed
<1> QED
  BY <1>1, <1>2, <1>3, <1>4 DEF Next, TaskStep

\* When the service is idle, with nothing pending and the last poll up to date,
\* every path was last built from what it contains: an edit between observe_changes
\* and the read in build_target is built or polled again.  The contents of a
\* file must not come back: the server compares fingerprints with the last
\* poll only.
THEOREM EditsNotLost == ~Reverts => (Spec => []QuietIsCurrent)
<1> SUFFICES ASSUME ~Reverts PROVE Spec => []QuietIsCurrent
  OBVIOUS
<1>1. DevInv /\ [Next]_vars => DevInv'
  BY DevStep
<1>2. DevInv => QuietIsCurrent
  BY DEF DevInv, UpToDate, Entering, Ended, QuietIsCurrent
<1> QED
  BY <1>1, <1>2, InitDev, PTL DEF Spec

-----------------------------------------------------------------------------
(***************************************************************************)
(* QueryDatabase, for every set of files, packages and texts and every     *)
(* bound of the revision counter: no query ever answers from a stale       *)
(* cache.  The caches hold only what the sources say now; a revision or a  *)
(* fingerprint that matches by accident does no harm.                      *)
(***************************************************************************)
\* What parse would answer for a file without caches, were it not cancelled.
Current(file) ==
  IF file \in DOMAIN sources THEN CheckSource(file, sources[file].text) ELSE UnsetSource(file)

CurrentAnswers(package) ==
  [i \in DOMAIN packages[package] |-> Current(packages[package][i])]

\* The inductive invariant.  What is cached is current; only files with a text
\* and packages with files are cached.
CachesCurrent ==
  /\ \A f \in DOMAIN parseCache :
       f \in DOMAIN sources /\ parseCache[f].result = Current(f)
  /\ \A p \in DOMAIN hirCache :
       /\ p \in DOMAIN packages
       /\ hirCache[p].result = BuildHir(packages[p], CurrentAnswers(p))

-----------------------------------------------------------------------------
\* While the caches are current and nothing is cancelled, parse answers what the
\* sources say.
LEMMA ParseCurrent ==
  ASSUME CachesCurrent, ~stopped, NEW f
  PROVE  ParseAnswer(f) = Current(f)
BY DEF CachesCurrent, ParseAnswer, ParseHit, Current

\* The same for all files of a package.
LEMMA ParsesCurrent ==
  ASSUME CachesCurrent, ~stopped, NEW p
  PROVE  ParseAnswers(p) = CurrentAnswers(p)
<1>1. \A f : ParseAnswer(f) = Current(f)
  BY ParseCurrent
<1> QED
  BY <1>1 DEF ParseAnswers, CurrentAnswers

\* A hir query that is not cancelled answers what the sources say.
LEMMA HirCurrent ==
  ASSUME CachesCurrent, ~stopped, NEW p \in DOMAIN packages
  PROVE  HirAnswer(p) = BuildHir(packages[p], CurrentAnswers(p))
<1>1. ParseAnswers(p) = CurrentAnswers(p)
  BY ParsesCurrent
<1>2. CASE HirHit(p)
  <2>1. p \in DOMAIN hirCache
    BY <1>2 DEF HirHit
  <2> QED
    BY <1>2, <2>1 DEF HirAnswer, CachesCurrent
<1>3. CASE ~HirHit(p)
  BY <1>1, <1>3 DEF HirAnswer
<1> QED
  BY <1>2, <1>3

\* Filling the parse cache keeps it current.
LEMMA ParsedCurrent ==
  ASSUME CachesCurrent, NEW files
  PROVE  \A f \in DOMAIN Parsed(files) :
           f \in DOMAIN sources /\ Parsed(files)[f].result = Current(f)
<1> DEFINE kept == {f \in files : ~stopped /\ f \in DOMAIN sources}
<1> SUFFICES ASSUME NEW f \in DOMAIN Parsed(files)
             PROVE  f \in DOMAIN sources /\ Parsed(files)[f].result = Current(f)
  OBVIOUS
<1>1. f \in DOMAIN parseCache \cup kept
  BY DEF Parsed
<1>2. Parsed(files)[f] = IF f \in kept THEN [revision |-> sources[f].revision, result |-> ParseAnswer(f)]
                         ELSE parseCache[f]
  BY <1>1 DEF Parsed
<1>3. CASE f \in kept
  <2>1. ~stopped /\ f \in DOMAIN sources
    BY <1>3
  <2>2. ParseAnswer(f) = Current(f)
    BY <2>1, ParseCurrent
  <2> QED
    BY <1>2, <1>3, <2>1, <2>2
<1>4. CASE f \notin kept
  BY <1>1, <1>2, <1>4 DEF CachesCurrent
<1> QED
  BY <1>3, <1>4

-----------------------------------------------------------------------------
\* Every operation of the database keeps its caches current.
LEMMA CachesStayCurrent ==
  ASSUME CachesCurrent, [DatabaseNext]_databaseVars
  PROVE  CachesCurrent'
<1>1. ASSUME NEW f \in Files, ParseQuery(f)
      PROVE  CachesCurrent'
  <2>1. parseCache' = Parsed({f}) /\ UNCHANGED <<sources, packages, hirCache>>
    BY <1>1 DEF ParseQuery
  <2>2. \A g : Current(g)' = Current(g)
    BY <2>1 DEF Current
  <2>3. \A p : CurrentAnswers(p)' = CurrentAnswers(p)
    BY <2>1 DEF CurrentAnswers, Current
  <2> QED
    BY <2>1, <2>2, <2>3, ParsedCurrent DEF CachesCurrent
<1>2. ASSUME NEW f \in Files, NEW t \in SourceTexts, SetSource(f, t)
      PROVE  CachesCurrent'
  <2>1. /\ sources' = WithSource(f, t)
        /\ packages' = packages
        /\ parseCache' = Restrict(parseCache, DOMAIN parseCache \ {f})
        /\ hirCache' = Restrict(hirCache, {p \in DOMAIN hirCache : f \notin Range(packages[p])})
    BY <1>2 DEF SetSource
  <2>2. /\ DOMAIN sources' = DOMAIN sources \cup {f}
        /\ \A g \in DOMAIN sources \ {f} : sources'[g] = sources[g]
    BY <2>1 DEF WithSource
  <2>3. \A g : g # f => Current(g)' = Current(g)
    BY <2>2 DEF Current
  <2>4. \A g \in DOMAIN parseCache' :
          g \in DOMAIN sources' /\ parseCache'[g].result = Current(g)'
    BY <2>1, <2>2, <2>3 DEF CachesCurrent, Restrict
  <2>5. ASSUME NEW p, f \notin Range(packages[p])
        PROVE  CurrentAnswers(p)' = CurrentAnswers(p)
    <3>1. \A i \in DOMAIN packages[p] : packages[p][i] # f
      BY <2>5 DEF Range
    <3> QED
      BY <2>1, <2>3, <3>1 DEF CurrentAnswers
  <2>6. \A p \in DOMAIN hirCache' :
          /\ p \in DOMAIN packages'
          /\ hirCache'[p].result = BuildHir(packages'[p], CurrentAnswers(p)')
    BY <2>1, <2>5 DEF CachesCurrent, Restrict
  <2> QED
    BY <2>4, <2>6 DEF CachesCurrent
<1>3. ASSUME NEW p \in Packages, Hir(p)
      PROVE  CachesCurrent'
  <2> DEFINE builds == ~stopped /\ p \in DOMAIN packages /\ ~HirHit(p)
  <2>1. UNCHANGED <<sources, packages, stopped>>
    BY <1>3 DEF Hir
  <2>2. \A g : Current(g)' = Current(g)
    BY <2>1 DEF Current
  <2>3. \A q : CurrentAnswers(q)' = CurrentAnswers(q)
    BY <2>1, <2>2 DEF CurrentAnswers
  <2>4. CASE builds
    <3>1. /\ parseCache' = Parsed(Range(packages[p]))
          /\ hirCache' = [q \in DOMAIN hirCache \cup {p} |->
                            IF q = p THEN [fingerprint |-> Fingerprint(p), result |-> HirAnswer(p)]
                            ELSE hirCache[q]]
      BY <1>3, <2>4 DEF Hir
    <3>2. HirAnswer(p) = BuildHir(packages[p], CurrentAnswers(p))
      BY <2>4, HirCurrent
    <3>3. \A f \in DOMAIN parseCache' :
            f \in DOMAIN sources' /\ parseCache'[f].result = Current(f)'
      BY <2>1, <2>2, <3>1, ParsedCurrent
    <3>4. \A q \in DOMAIN hirCache' :
            /\ q \in DOMAIN packages'
            /\ hirCache'[q].result = BuildHir(packages'[q], CurrentAnswers(q)')
      BY <2>1, <2>3, <2>4, <3>1, <3>2 DEF CachesCurrent
    <3> QED
      BY <3>3, <3>4 DEF CachesCurrent
  <2>5. CASE ~builds
    <3>1. UNCHANGED <<parseCache, hirCache>>
      BY <1>3, <2>5 DEF Hir
    <3> QED
      BY <2>1, <2>2, <2>3, <3>1 DEF CachesCurrent
  <2> QED
    BY <2>4, <2>5
<1>4. ASSUME NEW p \in Packages, NEW fs \in SUBSET Files, SetPackageFiles(p, fs)
      PROVE  CachesCurrent'
  <2>1. /\ UNCHANGED <<sources, parseCache>>
        /\ DOMAIN packages' = DOMAIN packages \cup {p}
        /\ \A q \in DOMAIN packages \ {p} : packages'[q] = packages[q]
        /\ hirCache' = Restrict(hirCache, DOMAIN hirCache \ {p})
    BY <1>4 DEF SetPackageFiles
  <2>2. \A g : Current(g)' = Current(g)
    BY <2>1 DEF Current
  <2>3. \A q \in DOMAIN packages \ {p} : CurrentAnswers(q)' = CurrentAnswers(q)
    BY <2>1, <2>2 DEF CurrentAnswers
  <2> QED
    BY <2>1, <2>2, <2>3 DEF CachesCurrent, Restrict
<1>5. CASE CancelQueries \/ ResetCancellation \/ UNCHANGED databaseVars
  <2>1. UNCHANGED <<sources, packages, parseCache, hirCache>>
    BY <1>5 DEF CancelQueries, ResetCancellation, databaseVars
  <2>2. \A g : Current(g)' = Current(g)
    BY <2>1 DEF Current
  <2>3. \A p : CurrentAnswers(p)' = CurrentAnswers(p)
    BY <2>1, <2>2 DEF CurrentAnswers
  <2> QED
    BY <2>1, <2>2, <2>3 DEF CachesCurrent
<1> QED
  BY <1>1, <1>2, <1>3, <1>4, <1>5 DEF DatabaseNext

\* Current caches give fresh answers, cancelled or not.
LEMMA CurrentIsFresh ==
  ASSUME CachesCurrent
  PROVE  AnswersFresh
<1>1. ASSUME NEW f
      PROVE  ParseAnswer(f) = FreshParse(f)
  BY ParseCurrent DEF ParseAnswer, FreshParse, Current
<1>2. ASSUME NEW p
      PROVE  HirAnswer(p) = FreshHir(p)
  <2>1. CASE stopped \/ p \notin DOMAIN packages
    BY <2>1 DEF HirAnswer, FreshHir
  <2>2. CASE ~stopped /\ p \in DOMAIN packages
    <3>1. HirAnswer(p) = BuildHir(packages[p], CurrentAnswers(p))
      BY <2>2, HirCurrent
    <3>2. FreshAnswers(p) = CurrentAnswers(p)
      BY <2>2 DEF FreshAnswers, CurrentAnswers, FreshParse, Current
    <3> QED
      BY <2>2, <3>1, <3>2 DEF FreshHir
  <2> QED
    BY <2>1, <2>2
<1> QED
  BY <1>1, <1>2 DEF AnswersFresh

\* After any history of edits, membership changes, cancellations and queries,
\* every query of the incremental database answers what one without caches would.
THEOREM AnswersAlwaysFresh == DatabaseSpec => []AnswersFresh
<1>1. DatabaseInit => CachesCurrent
  BY DEF DatabaseInit, CachesCurrent
<1>2. CachesCurrent /\ [DatabaseNext]_databaseVars => CachesCurrent'
  BY CachesStayCurrent
<1>3. CachesCurrent => AnswersFresh
  BY CurrentIsFresh
<1> QED
  BY <1>1, <1>2, <1>3, PTL DEF DatabaseSpec

-----------------------------------------------------------------------------
(***************************************************************************)
(* TokenStream, for every reply, channel capacity and interleaving:        *)
(* cancellation stops a stream after at most one more token, its           *)
(* notification is never lost, errors are reported once and last, and a    *)
(* stream that ends without one lost nothing.                              *)
(***************************************************************************)
(* Sequences.                                                              *)

\* A sequence is a function on 1 .. Len.
LEMMA SeqLength ==
  ASSUME NEW S, NEW s \in Seq(S)
  PROVE  Len(s) \in Nat /\ DOMAIN s = 1 .. Len(s) /\ s \in [1 .. Len(s) -> S]
OBVIOUS

\* The empty sequence, and what is not empty.
LEMMA NoEntries ==
  ASSUME NEW S
  PROVE  <<>> \in Seq(S) /\ Len(<<>>) = 0 /\ \A s \in Seq(S) : s # <<>> => Len(s) > 0
OBVIOUS

\* A sequence over some elements is one over more.
LEMMA SeqOfMore ==
  ASSUME NEW S, NEW T, S \subseteq T
  PROVE  Seq(S) \subseteq Seq(T)
OBVIOUS

\* Append adds one entry behind the others.
LEMMA Appended ==
  ASSUME NEW S, NEW s \in Seq(S), NEW e \in S
  PROVE  /\ Append(s, e) \in Seq(S) /\ Append(s, e) # <<>>
         /\ Len(Append(s, e)) = Len(s) + 1 /\ Append(s, e)[Len(s) + 1] = e
         /\ \A k \in 1 .. Len(s) : Append(s, e)[k] = s[k]
OBVIOUS

\* Tail takes the first entry away.
LEMMA HeadAndTail ==
  ASSUME NEW S, NEW s \in Seq(S), s # <<>>
  PROVE  /\ Head(s) \in S /\ Tail(s) \in Seq(S) /\ Len(Tail(s)) = Len(s) - 1
         /\ \A k \in 1 .. Len(Tail(s)) : Tail(s)[k] = s[k + 1]
OBVIOUS

-----------------------------------------------------------------------------
(* Which steps change what.                                                *)

\* The steps that are neither the adapter's nor cancel()'s.
Elsewhere == Reading \/ TransportStep \/ Receive \/ SeeEnd \/ DropStream \/ Deadline

\* They leave the adapter, the flag and the counter alone.
LEMMA ElsewhereKeeps ==
  ASSUME Elsewhere \/ UNCHANGED streamVars
  PROVE  UNCHANGED <<adapter, wake, cancelled, notify, late>>
BY DEF Elsewhere, Reading, ReadChunk, ReadEof, ReadFails, LocalDeadline, TransportStep, SendFrame,
       SendRefused, AllSent, SendTerminalError, Receive, SeeEnd, DropStream, Deadline,
       streamVars, adapterVars

\* The steps that are neither the adapter's nor the consumer's.
Background == Reading \/ TransportStep \/ Deadline \/ Cancel \/ NotifyWaiters

\* They leave both and their channel alone, and never clear the flag.
LEMMA BackgroundKeeps ==
  ASSUME Background \/ UNCHANGED streamVars
  PROVE  UNCHANGED <<adapter, tokens, open, got, ended>> /\ (cancelled => cancelled')
<1>1. CASE Reading
  BY <1>1 DEF Reading, ReadChunk, ReadEof, ReadFails, LocalDeadline, adapterVars, consumerVars
<1>2. CASE TransportStep
  BY <1>2 DEF TransportStep, SendFrame, SendRefused, AllSent, SendTerminalError, adapterVars,
     consumerVars
<1>3. CASE Deadline \/ Cancel \/ NotifyWaiters
  BY <1>3 DEF Deadline, Cancel, NotifyWaiters, adapterVars, consumerVars
<1>4. CASE UNCHANGED streamVars
  BY <1>4 DEF streamVars, adapterVars, consumerVars
<1> QED
  BY <1>1, <1>2, <1>3, <1>4 DEF Background

-----------------------------------------------------------------------------
(* At most one token after cancel().                                       *)

\* The inductive invariant: the token that slipped through was the last one,
\* because its adapter is in front of the next check of the flag.
LateInv ==
  \/ late = 0
  \/ late = 1 /\ cancelled /\ adapter \in {"recv", "check", "terminal", "done"}

\* Every step of the adapter keeps the invariant.
LEMMA LateAdapter ==
  ASSUME LateInv, AdapterStep \/ Opened \/ OpenFails
  PROVE  LateInv'
<1>1. CASE Opened \/ OpenFails
  BY <1>1 DEF LateInv, Opened, OpenFails, LeaveWith
<1>2. CASE Recv \/ RecvEnd
  <2>1. UNCHANGED <<late, cancelled>>
    BY <1>2 DEF Recv, RecvEnd
  <2>2. adapter = "recv" /\ adapter' \in {"recv", "check", "terminal", "done"}
    BY <1>2 DEF Recv, RecvEnd, LeaveWith, Handle
  <2> QED
    BY <2>1, <2>2 DEF LateInv
<1>3. CASE Check
  BY <1>3 DEF LateInv, Check, IsCancelled, LeaveWith
<1>4. CASE Enroll \/ Recheck \/ Poll \/ Parked
  BY <1>4 DEF LateInv, Enroll, Recheck, Poll, Parked
<1>5. CASE Offer
  BY <1>5 DEF LateInv, Offer
<1>6. CASE SendTerminal
  BY <1>6 DEF LateInv, SendTerminal
<1> QED
  BY <1>1, <1>2, <1>3, <1>4, <1>5, <1>6 DEF AdapterStep

\* After cancel() has set the flag at most one more token enters the channel.
THEOREM OneTokenAfterCancelAlways == StreamSpec => []OneTokenAfterCancel
<1>1. StreamInit => LateInv
  BY DEF StreamInit, LateInv
<1>2. LateInv /\ [StreamNext]_streamVars => LateInv'
  <2> SUFFICES ASSUME LateInv, [StreamNext]_streamVars PROVE LateInv'
    OBVIOUS
  <2>1. CASE Elsewhere \/ UNCHANGED streamVars
    BY <2>1, ElsewhereKeeps DEF LateInv
  <2>2. CASE Cancel \/ NotifyWaiters
    BY <2>2 DEF LateInv, Cancel, NotifyWaiters, adapterVars
  <2>3. CASE AdapterStep \/ Opened \/ OpenFails
    BY <2>3, LateAdapter
  <2> QED
    BY <2>1, <2>2, <2>3 DEF StreamNext, Elsewhere
<1>3. LateInv => OneTokenAfterCancel
  BY DEF LateInv, OneTokenAfterCancel
<1> QED
  BY <1>1, <1>2, <1>3, PTL DEF StreamSpec

-----------------------------------------------------------------------------
(* No lost notification.                                                   *)

\* A sink that waits behind its last look at the flag has been woken once
\* cancel() is through (cancelled() of stream.rs registers before it looks).
WakeNotLost ==
  cancelled /\ ~notify /\ adapter \in {"poll", "offer", "parked"} => wake = "woken"

\* The inductive invariant: the sink is registered from its second look on.
WakeInv ==
  /\ WakeNotLost
  /\ cancelled \in BOOLEAN /\ (notify => cancelled)
  /\ adapter \in {"recheck", "poll", "offer", "parked"} => wake \in {"waiting", "woken"}

\* Every step of the adapter keeps the invariant.
LEMMA WakeAdapter ==
  ASSUME WakeInv, AdapterStep \/ Opened \/ OpenFails
  PROVE  WakeInv'
<1> USE DEF WakeInv, WakeNotLost
<1>1. CASE Opened \/ OpenFails
  BY <1>1 DEF Opened, OpenFails, LeaveWith
<1>2. CASE Recv \/ RecvEnd
  <2>1. UNCHANGED <<wake, notify, cancelled>>
    BY <1>2 DEF Recv, RecvEnd
  <2>2. adapter' \in {"recv", "check", "terminal", "done"}
    BY <1>2 DEF Recv, RecvEnd, LeaveWith, Handle
  <2> QED
    BY <2>1, <2>2
<1>3. CASE Check \/ Enroll
  BY <1>3 DEF Check, Enroll, LeaveWith
<1>4. CASE Recheck
  BY <1>4 DEF Recheck, IsCancelled, LeaveWith
<1>5. CASE Poll \/ Parked
  BY <1>5 DEF Poll, Parked, LeaveWith
<1>6. CASE Offer
  BY <1>6 DEF Offer, LeaveWith
<1>7. CASE SendTerminal
  BY <1>7 DEF SendTerminal
<1> QED
  BY <1>1, <1>2, <1>3, <1>4, <1>5, <1>6, <1>7 DEF AdapterStep

\* The notification of cancel() reaches every sink that will not look at the
\* flag again: the safety half of SinkWakes, for every capacity.
THEOREM WakeNeverLost == StreamSpec => []WakeNotLost
<1>1. StreamInit => WakeInv
  BY DEF StreamInit, WakeInv, WakeNotLost
<1>2. WakeInv /\ [StreamNext]_streamVars => WakeInv'
  <2> SUFFICES ASSUME WakeInv, [StreamNext]_streamVars PROVE WakeInv'
    OBVIOUS
  <2>1. CASE Elsewhere \/ UNCHANGED streamVars
    BY <2>1, ElsewhereKeeps DEF WakeInv, WakeNotLost
  <2>2. CASE Cancel
    BY <2>2 DEF WakeInv, WakeNotLost, Cancel, adapterVars
  <2>3. CASE NotifyWaiters
    BY <2>3 DEF WakeInv, WakeNotLost, NotifyWaiters
  <2>4. CASE AdapterStep \/ Opened \/ OpenFails
    BY <2>4, WakeAdapter
  <2> QED
    BY <2>1, <2>2, <2>3, <2>4 DEF StreamNext, Elsewhere
<1>3. WakeInv => WakeNotLost
  BY DEF WakeInv
<1> QED
  BY <1>1, <1>2, <1>3, PTL DEF StreamSpec

-----------------------------------------------------------------------------
(* Errors in channels.                                                     *)

\* What a channel holds is a sequence, of whatever was sent into it.
ASeq(q) == \E S : q \in Seq(S)

HasErr(q) == \E k \in DOMAIN q : IsErr(q[k])
Reported(q) == \A k \in DOMAIN q : IsErr(q[k]) => q[k].error # "Cancelled"
ErrAtEnd(q) == Reported(q) /\ \A k \in DOMAIN q : IsErr(q[k]) => k = Len(q)

\* Sending x.
Sent(q, x, r) ==
  /\ ASeq(r) /\ (HasErr(r) <=> HasErr(q) \/ IsErr(x))
  /\ Reported(q) /\ (IsErr(x) => x.error # "Cancelled") =>
       Reported(r) /\ (~HasErr(q) => ErrAtEnd(r))

\* That is what a bounded channel does with what is sent into it.
LEMMA SentIs == ASSUME NEW q, NEW x, ASeq(q) PROVE Sent(q, x, Append(q, x))
<1>1. PICK S : q \in Seq(S)
  BY DEF ASeq
<1>2. PICK T : q \in Seq(T) /\ x \in T
  <2>1. q \in Seq(S \cup {x}) /\ x \in S \cup {x}
    BY <1>1, SeqOfMore
  <2> QED
    BY <2>1
<1>3. PICK n \in Nat : n = Len(q) /\ DOMAIN q = 1 .. n
  BY <1>1
<1>4. PICK r : r = Append(q, x)
  OBVIOUS
<1>5. /\ r \in Seq(T) /\ Len(r) = Len(q) + 1
      /\ (\A i \in 1 .. Len(q) : r[i] = q[i]) /\ r[Len(q) + 1] = x
  <2>1. /\ Append(q, x) \in Seq(T) /\ Len(Append(q, x)) = Len(q) + 1
        /\ Append(q, x)[Len(q) + 1] = x
        /\ \A i \in 1 .. Len(q) : Append(q, x)[i] = q[i]
    BY <1>2, Appended
  <2> QED
    BY <1>4, <2>1
<1>6. Len(r) = n + 1 /\ DOMAIN r = 1 .. n + 1 /\ (\A i \in 1 .. n : r[i] = q[i]) /\ r[n + 1] = x
  BY <1>3, <1>5, SeqLength
<1>7. \A i \in 1 .. n + 1 : i \in 1 .. n \/ i = n + 1
  OBVIOUS
<1>8. n + 1 \in 1 .. n + 1 /\ \A i \in 1 .. n : i \in 1 .. n + 1
  OBVIOUS
<1>9. ASeq(r)
  BY <1>5 DEF ASeq
<1>10. HasErr(r) <=> HasErr(q) \/ IsErr(x)
  BY <1>3, <1>6, <1>7, <1>8 DEF HasErr
<1>11. Reported(q) /\ (IsErr(x) => x.error # "Cancelled") => Reported(r)
  BY <1>3, <1>6, <1>7 DEF Reported
<1>12. ~HasErr(q) => \A i \in DOMAIN r : IsErr(r[i]) => i = Len(r)
  BY <1>3, <1>6, <1>7 DEF HasErr
<1> QED
  BY <1>4, <1>9, <1>10, <1>11, <1>12 DEF Sent, ErrAtEnd

\* Receiving the first element.
Received(q, r) ==
  /\ ASeq(r) /\ (HasErr(q) <=> IsErr(Head(q)) \/ HasErr(r))
  /\ Reported(q) => Reported(r) /\ (IsErr(Head(q)) => Head(q).error # "Cancelled")
  /\ ErrAtEnd(q) => ErrAtEnd(r) /\ (IsErr(Head(q)) => r = <<>>)

\* That is what recv leaves in the channel.
LEMMA ReceivedIs == ASSUME NEW q, ASeq(q), q # <<>> PROVE Received(q, Tail(q))
<1>1. PICK S : q \in Seq(S)
  BY DEF ASeq
<1>2. PICK n \in Nat : n = Len(q) /\ DOMAIN q = 1 .. n
  BY <1>1
<1>3. PICK r, h : r = Tail(q) /\ h = Head(q)
  OBVIOUS
<1>4. /\ r \in Seq(S) /\ Len(r) = Len(q) - 1 /\ \A i \in 1 .. Len(r) : r[i] = q[i + 1]
  BY <1>1, <1>3, HeadAndTail
<1>5. n # 0 /\ h = q[1]
  BY <1>1, <1>2, <1>3, NoEntries
<1>6. PICK m \in Nat : n = m + 1
  BY <1>5
<1>7. Len(r) = m /\ DOMAIN r = 1 .. m /\ \A i \in 1 .. m : r[i] = q[i + 1]
  BY <1>2, <1>4, <1>6
<1>8. /\ \A i \in 1 .. m : i + 1 \in 1 .. n /\ (i + 1 = n <=> i = m)
      /\ 1 \in 1 .. n /\ (1 = n => m = 0)
      /\ \A i \in 1 .. n : i = 1 \/ \E j \in 1 .. m : i = j + 1
  <2>1. \A i \in 1 .. n : i = 1 \/ i - 1 \in 1 .. m
    BY <1>6
  <2> QED
    BY <1>6, <2>1
<1>9. ASeq(r)
  BY <1>4 DEF ASeq
<1>10. HasErr(q) <=> IsErr(h) \/ HasErr(r)
  <2>1. ASSUME NEW i \in 1 .. n, IsErr(q[i]) PROVE IsErr(h) \/ HasErr(r)
    <3>1. CASE i = 1
      BY <1>5, <2>1, <3>1
    <3>2. CASE \E j \in 1 .. m : i = j + 1
      <4>1. PICK j \in 1 .. m : i = j + 1
        BY <3>2
      <4>2. IsErr(r[j]) /\ j \in DOMAIN r
        BY <1>7, <2>1, <4>1
      <4> QED
        BY <4>2 DEF HasErr
    <3> QED
      BY <1>8, <3>1, <3>2
  <2>2. ASSUME NEW i \in 1 .. m, IsErr(r[i]) PROVE HasErr(q)
    BY <1>2, <1>7, <1>8, <2>2 DEF HasErr
  <2>3. IsErr(h) => HasErr(q)
    BY <1>2, <1>5, <1>8 DEF HasErr
  <2> QED
    BY <1>2, <1>7, <2>1, <2>2, <2>3 DEF HasErr
<1>11. Reported(q) => Reported(r) /\ (IsErr(h) => h.error # "Cancelled")
  BY <1>2, <1>5, <1>7, <1>8 DEF Reported
<1>12. ErrAtEnd(q) => \A i \in DOMAIN r : IsErr(r[i]) => i = Len(r)
  BY <1>2, <1>7, <1>8 DEF ErrAtEnd
<1>13. ErrAtEnd(q) /\ IsErr(h) => r = <<>>
  <2>1. ErrAtEnd(q) /\ IsErr(h) => 1 = n
    BY <1>2, <1>5, <1>8 DEF ErrAtEnd
  <2>2. m = 0 => r = <<>>
    BY <1>4, <1>7, NoEntries
  <2> QED
    BY <1>8, <2>1, <2>2
<1> QED
  BY <1>3, <1>9, <1>10, <1>11, <1>12, <1>13 DEF Received, ErrAtEnd

-----------------------------------------------------------------------------
(* No failure passes for the end of the reply.                             *)

\* The inductive invariant, about errors: one is the adapter's last word.
ErrorInv ==
  /\ ASeq(tokens) /\ ASeq(got) /\ ASeq(frames)
  /\ ErrAtEnd(tokens) /\ ErrAtEnd(got) /\ Reported(frames)
  /\ HasErr(tokens) => adapter = "done"
  /\ HasErr(got) => adapter = "done" /\ tokens = <<>>
  /\ adapter = "terminal" => error # "Cancelled"
  /\ fail # "Cancelled"

\* The transport's half: it is done when all was read and sent, or its error
\* is on the way, or nobody listens.
TransportInv ==
  /\ reply \in Replies /\ (adapter = "open" => transport = "idle")
  /\ over /\ fail = "none" =>
       ~dec.error /\ (reply.kind = "local" => rest = <<>> /\ reply.exit = "ok")
  /\ transport \in {"idle", "read", "terminal", "done"} => out = <<>>
  /\ transport = "terminal" => over /\ fail # "none"
  /\ transport = "done" /\ ~FramesClosed => over /\ (fail = "none" \/ HasErr(frames))

\* The adapter's half: it ends with an error, a cancellation or a whole reply.
EndInv ==
  /\ notify \/ wake = "woken" => cancelled
  /\ adapter = "done" => ~open \/ cancelled \/ HasErr(got) \/ HasErr(tokens) \/ NothingFailed
  /\ ended => adapter = "done" /\ tokens = <<>> /\ (cancelled \/ HasErr(got) \/ NothingFailed)

\* A new channel, or one whose receiver was dropped, holds no error.
LEMMA EmptyChannel == ASeq(<<>>) /\ ~HasErr(<<>>) /\ ErrAtEnd(<<>>) /\ Reported(<<>>)
<1>1. <<>> \in Seq({}) /\ DOMAIN <<>> = {}
  OBVIOUS
<1> QED
  BY <1>1 DEF ASeq, HasErr, ErrAtEnd, Reported

\* The steps of the transport; the frames are all they change of ErrorInv.
LEMMA ErrorReading == ASSUME ErrorInv, Reading \/ TransportStep PROVE ErrorInv'
<1>1. UNCHANGED <<tokens, got, adapter, error>>
  BY DEF Reading, ReadChunk, ReadEof, ReadFails, LocalDeadline, TransportStep, SendFrame, SendRefused,
     AllSent, SendTerminalError, adapterVars, consumerVars
<1>2. fail' # "Cancelled"
  <2>1. CASE ReadChunk
    BY <2>1 DEF ReadChunk, Decoded
  <2>2. CASE ReadEof
    BY <2>2 DEF ReadEof, EndOfBody
  <2>3. CASE ReadFails \/ LocalDeadline
    BY <2>3 DEF ReadFails, LocalDeadline
  <2>4. CASE TransportStep
    BY <2>4 DEF TransportStep, SendFrame, SendRefused, AllSent, SendTerminalError, ErrorInv
  <2> QED
    BY <2>1, <2>2, <2>3, <2>4 DEF Reading
<1>3. ASeq(frames') /\ Reported(frames')
  <2>1. CASE SendFrame
    <3>1. Sent(frames, Data(Head(out)), Append(frames, Data(Head(out))))
      BY SentIs DEF ErrorInv
    <3>2. ~IsErr(Data(Head(out)))
      BY DEF IsErr, Data
    <3> QED
      BY <2>1, <3>1, <3>2 DEF SendFrame, Sent, ErrorInv
  <2>2. CASE SendTerminalError
    <3>1. Sent(frames, Err(fail), Append(frames, Err(fail)))
      BY SentIs DEF ErrorInv
    <3>2. Err(fail).error # "Cancelled"
      BY DEF Err, ErrorInv
    <3> QED
      BY <2>2, <3>1, <3>2 DEF SendTerminalError, Sent, ErrorInv
  <2>3. CASE Reading \/ SendRefused \/ AllSent
    BY <2>3 DEF Reading, ReadChunk, ReadEof, ReadFails, LocalDeadline, SendRefused, AllSent, ErrorInv
  <2> QED
    BY <2>1, <2>2, <2>3 DEF TransportStep
<1> QED
  BY <1>1, <1>2, <1>3 DEF ErrorInv

\* The adapter sends an error last, and never a cancellation.
LEMMA ErrorAdapter == ASSUME ErrorInv, AdapterStep \/ Opened \/ OpenFails PROVE ErrorInv'
<1>1. UNCHANGED <<got, fail>>
  BY DEF AdapterStep, Opened, OpenFails, Recv, RecvEnd, Check, Enroll, Recheck, Poll, Offer, Parked,
     SendTerminal, transportVars, consumerVars
<1>2. adapter \notin {"terminal", "done"} => ~HasErr(tokens) /\ ~HasErr(got)
  BY DEF ErrorInv
<1>3. CASE Recv
  <2>1. /\ adapter = "recv" /\ frames' = Tail(frames) /\ tokens' = tokens
        /\ Received(frames, Tail(frames))
    BY <1>3, ReceivedIs DEF Recv, ErrorInv
  <2>2. adapter' = "terminal" => error' # "Cancelled"
    BY <1>3 DEF Recv, LeaveWith, Handle
  <2> QED
    BY <1>1, <1>2, <2>1, <2>2 DEF ErrorInv, Received
<1>4. CASE Opened \/ OpenFails \/ RecvEnd \/ Check \/ Enroll \/ Recheck \/ Poll \/ Parked
  <2>1. adapter \notin {"terminal", "done"} /\ UNCHANGED <<tokens, frames>>
    BY <1>4 DEF Opened, OpenFails, RecvEnd, Check, Enroll, Recheck, Poll, Parked
  <2>2. adapter' = "terminal" => error' # "Cancelled"
    BY <1>4 DEF Opened, OpenFails, RecvEnd, Check, Enroll, Recheck, Poll, Parked, LeaveWith
  <2> QED
    BY <1>1, <1>2, <2>1, <2>2 DEF ErrorInv
<1>5. CASE Offer
  <2>1. /\ adapter = "offer" /\ frames' = frames
        /\ adapter' = "terminal" => error' # "Cancelled"
    BY <1>5 DEF Offer, LeaveWith
  <2>2. tokens' = tokens \/ tokens' = Append(tokens, Tok(holding))
    BY <1>5 DEF Offer
  <2>3. Sent(tokens, Tok(holding), Append(tokens, Tok(holding))) /\ ~IsErr(Tok(holding))
    BY SentIs DEF ErrorInv, IsErr, Tok
  <2>4. ASeq(tokens') /\ ErrAtEnd(tokens') /\ ~HasErr(tokens')
    BY <1>2, <2>1, <2>2, <2>3 DEF ErrorInv, Sent, ErrAtEnd
  <2> QED
    BY <1>1, <1>2, <2>1, <2>4 DEF ErrorInv
<1>6. CASE SendTerminal
  <2>1. adapter = "terminal" /\ adapter' = "done" /\ frames' = frames /\ error # "Cancelled"
    BY <1>6 DEF SendTerminal, ErrorInv
  <2>2. tokens' = tokens \/ tokens' = Append(tokens, Err(error))
    BY <1>6 DEF SendTerminal
  <2>3. Sent(tokens, Err(error), Append(tokens, Err(error))) /\ Err(error).error # "Cancelled"
    BY <2>1, SentIs DEF ErrorInv, Err
  <2>4. ~HasErr(tokens) /\ ~HasErr(got)
    BY <2>1 DEF ErrorInv
  <2>5. ASeq(tokens') /\ ErrAtEnd(tokens')
    BY <2>2, <2>3, <2>4 DEF ErrorInv, Sent, ErrAtEnd
  <2> QED
    BY <1>1, <2>1, <2>4, <2>5 DEF ErrorInv
<1> QED
  BY <1>3, <1>4, <1>5, <1>6 DEF AdapterStep

\* The consumer, the clock and cancel().
LEMMA ErrorConsumer ==
  ASSUME ErrorInv, Receive \/ SeeEnd \/ DropStream \/ Deadline \/ Cancel \/ NotifyWaiters
  PROVE  ErrorInv'
<1>1. UNCHANGED <<frames, adapter, error, fail>>
  BY DEF Receive, SeeEnd, DropStream, Deadline, Cancel, NotifyWaiters, transportVars, adapterVars
<1>2. CASE Receive
  <2>1. tokens # <<>> /\ tokens' = Tail(tokens) /\ got' = Append(got, Head(tokens))
    BY <1>2 DEF Receive
  <2>2. Received(tokens, Tail(tokens)) /\ Sent(got, Head(tokens), Append(got, Head(tokens)))
    BY <2>1, ReceivedIs, SentIs DEF ErrorInv
  <2>3. ~HasErr(got) /\ Reported(got) /\ ErrAtEnd(tokens) /\ Reported(tokens)
    BY <2>1 DEF ErrorInv, ErrAtEnd
  <2>4. /\ ASeq(tokens') /\ ErrAtEnd(tokens') /\ (HasErr(tokens') => HasErr(tokens))
        /\ IsErr(Head(tokens)) => tokens' = <<>> /\ HasErr(tokens) /\ Head(tokens).error # "Cancelled"
    BY <2>1, <2>2, <2>3 DEF Received
  <2>5. ASeq(got') /\ ErrAtEnd(got') /\ (HasErr(got') <=> IsErr(Head(tokens)))
    BY <2>1, <2>2, <2>3, <2>4 DEF Sent
  <2> QED
    BY <1>1, <2>4, <2>5 DEF ErrorInv
<1>3. CASE DropStream
  BY <1>1, <1>3, EmptyChannel DEF DropStream, ErrorInv
<1>4. CASE SeeEnd \/ Deadline \/ Cancel \/ NotifyWaiters
  BY <1>1, <1>4 DEF SeeEnd, Deadline, Cancel, NotifyWaiters, consumerVars, ErrorInv
<1> QED
  BY <1>2, <1>3, <1>4

\* Every step of the three tasks and of cancel() keeps errors last.
LEMMA ErrorStep == ASSUME ErrorInv, [StreamNext]_streamVars PROVE ErrorInv'
<1>1. CASE UNCHANGED streamVars
  BY <1>1 DEF streamVars, transportVars, adapterVars, consumerVars, ErrorInv
<1> QED
  BY <1>1, ErrorReading, ErrorAdapter, ErrorConsumer DEF StreamNext

\* An invocation starts with empty channels.
LEMMA ErrorInit == StreamInit => ErrorInv
BY EmptyChannel DEF StreamInit, ErrorInv

\* Whatever fails, and however the tasks interleave, an error is the last
\* event the consumer sees and a cancellation is not reported as one.
THEOREM ErrorsReportedLast == StreamSpec => []ErrorsLast
<1>1. ErrorInv /\ [StreamNext]_streamVars => ErrorInv'
  BY ErrorStep
<1>2. ErrorInv => ErrorsLast
  BY DEF ErrorInv, ErrAtEnd, Reported, ErrorsLast
<1> QED
  BY <1>1, <1>2, ErrorInit, PTL DEF StreamSpec

-----------------------------------------------------------------------------
\* Reading and decoding: a failure is remembered in fail.
LEMMA TransportReads == ASSUME TransportInv, Reading PROVE TransportInv'
<1>0. transport # "idle" /\ adapter' = adapter
  BY DEF Reading, ReadChunk, ReadEof, ReadFails, LocalDeadline, adapterVars
<1>1. CASE ReadChunk
  <2>1. PICK d : Decoded(d)
    BY <1>1 DEF ReadChunk
  <2>2. /\ dec' = d /\ transport' = "send" /\ reply' = reply
        /\ fail' = IF d.error THEN "Protocol" ELSE "none"
        /\ over' <=> d.error \/ (reply.kind = "http" /\ DoneIn(d.events) # {})
    BY <1>1, <2>1 DEF ReadChunk, Decoded, Emit
  <2>3. fail' = "none" => ~d.error
    BY <2>2
  <2> QED
    BY <1>0, <2>2, <2>3 DEF TransportInv
<1>2. CASE ReadEof
  <2>1. PICK d : EndOfBody(d)
    BY <1>2 DEF ReadEof
  <2>2. /\ dec' = d /\ transport' = "send" /\ reply' = reply /\ rest' = rest /\ rest = <<>>
        /\ fail' = CASE d.error -> "Protocol"
                     [] ~d.error /\ reply.kind = "local" /\ reply.exit = "failed" -> "Unavailable"
                     [] OTHER -> "none"
    BY <1>2, <2>1 DEF ReadEof, EndOfBody, Emit
  <2>3. fail' = "none" => ~d.error /\ ~(reply.kind = "local" /\ reply.exit = "failed")
    BY <2>2
  <2> QED
    BY <1>0, <2>2, <2>3, StreamAssumption DEF TransportInv
<1>3. CASE ReadFails
  BY <1>0, <1>3 DEF ReadFails, TransportInv
<1>4. CASE LocalDeadline
  BY <1>0, <1>4 DEF LocalDeadline, TransportInv
<1> QED
  BY <1>1, <1>2, <1>3, <1>4 DEF Reading

\* Sending: the error goes out last.
LEMMA TransportSends == ASSUME TransportInv, ErrorInv, TransportStep PROVE TransportInv'
<1>1. UNCHANGED <<reply, rest, dec, fail, over, adapter>>
  BY DEF TransportStep, SendFrame, SendRefused, AllSent, SendTerminalError, adapterVars
<1>2. CASE SendFrame
  BY <1>1, <1>2 DEF SendFrame, TransportInv
<1>3. CASE SendRefused
  BY <1>1, <1>3 DEF SendRefused, TransportInv, FramesClosed
<1>4. CASE AllSent
  BY <1>1, <1>4 DEF AllSent, TransportInv
<1>5. CASE SendTerminalError
  <2>1. Sent(frames, Err(fail), Append(frames, Err(fail))) /\ IsErr(Err(fail))
    BY SentIs DEF ErrorInv, IsErr, Err
  <2>2. HasErr(frames')
    BY <1>5, <2>1 DEF SendTerminalError, Sent
  <2> QED
    BY <1>1, <1>5, <2>2 DEF SendTerminalError, TransportInv
<1> QED
  BY <1>2, <1>3, <1>4, <1>5 DEF TransportStep

\* The adapter takes an error from the frames only to leave with it.
LEMMA TransportHeard ==
  ASSUME TransportInv, ErrorInv, AdapterStep \/ Opened \/ OpenFails
  PROVE  TransportInv'
<1>1. UNCHANGED <<reply, rest, dec, out, fail, over>>
  BY DEF AdapterStep, Opened, OpenFails, Recv, RecvEnd, Check, Enroll, Recheck, Poll, Offer, Parked,
     SendTerminal, transportVars
<1>2. CASE Recv
  <2>1. /\ transport' = transport /\ adapter = "recv" /\ frames' = Tail(frames)
        /\ Received(frames, Tail(frames))
    BY <1>2, ReceivedIs DEF Recv, ErrorInv, transportVars
  <2>2. IsErr(Head(frames)) => adapter' = "terminal"
    BY <1>2, <2>1 DEF Recv, LeaveWith, Received, ErrorInv
  <2>4. adapter' # "open"
    BY <1>2, <2>1 DEF Recv, LeaveWith, Handle
  <2>3. FramesClosed' \/ (HasErr(frames) => HasErr(frames'))
    BY <2>1, <2>2 DEF Received, FramesClosed
  <2> QED
    BY <1>1, <2>1, <2>3, <2>4 DEF TransportInv, FramesClosed
<1>3. CASE Opened
  BY <1>1, <1>3 DEF Opened, TransportInv
<1>4. CASE OpenFails \/ RecvEnd \/ Check \/ Enroll \/ Recheck \/ Poll \/ Offer \/ Parked \/ SendTerminal
  <2>0. adapter' # "open"
    BY <1>4 DEF OpenFails, RecvEnd, Check, Enroll, Recheck, Poll, Offer, Parked, SendTerminal, LeaveWith
  <2>1. UNCHANGED <<transport, frames>>
    BY <1>4 DEF OpenFails, RecvEnd, Check, Enroll, Recheck, Poll, Offer, Parked, SendTerminal, transportVars
  <2>2. FramesClosed => FramesClosed'
    BY <1>4 DEF OpenFails, RecvEnd, Check, Enroll, Recheck, Poll, Offer, Parked, SendTerminal, FramesClosed
  <2> QED
    BY <1>1, <2>0, <2>1, <2>2 DEF TransportInv
<1> QED
  BY <1>2, <1>3, <1>4 DEF AdapterStep

\* Every step keeps what is known of a transport that stopped.
LEMMA TransportKept ==
  ASSUME TransportInv, ErrorInv, [StreamNext]_streamVars
  PROVE  TransportInv'
<1>1. CASE \/ Receive \/ SeeEnd \/ DropStream \/ Deadline \/ Cancel \/ NotifyWaiters
           \/ UNCHANGED streamVars
  <2>1. UNCHANGED <<reply, transportVars, frames, adapter>>
    BY <1>1 DEF Receive, SeeEnd, DropStream, Deadline, Cancel, NotifyWaiters, adapterVars, streamVars
  <2> QED
    BY <2>1 DEF TransportInv, transportVars, FramesClosed
<1> QED
  BY <1>1, TransportReads, TransportSends, TransportHeard DEF StreamNext

-----------------------------------------------------------------------------
\* A whole reply stays whole once the adapter is done.
LEMMA StaysWhole ==
  ASSUME adapter = "done", NothingFailed, [StreamNext]_streamVars
  PROVE  NothingFailed'
<1>1. ~AdapterStep /\ ~Opened /\ ~OpenFails
  BY DEF NothingFailed, AdapterStep, Opened, OpenFails, Recv, RecvEnd, Check, Enroll, Recheck, Poll,
     Offer, Parked, SendTerminal
<1>2. ~Reading /\ ~TransportStep
  BY DEF NothingFailed, Reading, ReadChunk, ReadEof, ReadFails, LocalDeadline, TransportStep, SendFrame,
     SendRefused, AllSent, SendTerminalError
<1>3. UNCHANGED <<reply, transportVars, frames>>
  BY <1>1, <1>2 DEF StreamNext, Receive, SeeEnd, DropStream, Deadline, Cancel, NotifyWaiters, streamVars
<1> QED
  BY <1>3 DEF NothingFailed, transportVars

\* How the adapter ends.
LEMMA EndAdapter ==
  ASSUME EndInv, TransportInv, ErrorInv, AdapterStep \/ Opened \/ OpenFails
  PROVE  EndInv'
<1>1. UNCHANGED <<reply, rest, dec, out, fail, over, open, got, ended, cancelled, notify>>
  BY DEF AdapterStep, Opened, OpenFails, Recv, RecvEnd, Check, Enroll, Recheck, Poll, Offer, Parked,
     SendTerminal, transportVars, consumerVars
<1>2. adapter # "done" /\ ~ended
  BY DEF EndInv, AdapterStep, Opened, OpenFails, Recv, RecvEnd, Check, Enroll, Recheck, Poll, Offer,
     Parked, SendTerminal
<1>3. wake' = "woken" => wake = "woken"
  BY DEF AdapterStep, Opened, OpenFails, Recv, RecvEnd, Check, Enroll, Recheck, Poll, Offer, Parked,
     SendTerminal
<1>4. CASE Recv
  <2>1. Received(frames, Tail(frames))
    BY <1>4, ReceivedIs DEF Recv, ErrorInv
  <2>2. adapter' # "done"
    BY <1>4, <2>1 DEF Recv, LeaveWith, Handle, Received, ErrorInv
  <2> QED
    BY <1>1, <1>2, <1>3, <2>2 DEF EndInv
<1>5. CASE RecvEnd
  <2>1. transport = "done" /\ frames = <<>> /\ ~FramesClosed /\ UNCHANGED <<transport, frames>>
    BY <1>5 DEF RecvEnd, FramesClosed, transportVars
  <2>2. over /\ fail = "none" /\ out = <<>>
    BY <2>1, EmptyChannel DEF TransportInv
  <2>3. NothingFailed'
    BY <1>1, <2>1, <2>2 DEF NothingFailed, TransportInv
  <2> QED
    BY <1>1, <1>2, <1>3, <2>3 DEF EndInv
<1>6. CASE Check \/ Recheck \/ Poll
  <2>1. adapter' = "done" => cancelled
    BY <1>6 DEF Check, Recheck, Poll, LeaveWith, IsCancelled, EndInv
  <2> QED
    BY <1>1, <1>2, <1>3, <2>1 DEF EndInv
<1>7. CASE Offer
  <2>1. adapter' = "done" => ~open
    BY <1>7 DEF Offer, LeaveWith
  <2> QED
    BY <1>1, <1>2, <1>3, <2>1 DEF EndInv
<1>8. CASE SendTerminal
  <2>1. Sent(tokens, Err(error), Append(tokens, Err(error))) /\ IsErr(Err(error))
    BY SentIs DEF ErrorInv, IsErr, Err
  <2>2. open => HasErr(tokens')
    BY <1>8, <2>1 DEF SendTerminal, Sent
  <2> QED
    BY <1>1, <1>2, <1>3, <2>2 DEF EndInv
<1>9. CASE Opened \/ OpenFails \/ Enroll \/ Parked
  <2>1. adapter' # "done"
    BY <1>9 DEF Opened, OpenFails, Enroll, Parked, LeaveWith, OpenFailures, HttpOpenFailures,
       LocalOpenFailures
  <2> QED
    BY <1>1, <1>2, <1>3, <2>1 DEF EndInv
<1> QED
  BY <1>4, <1>5, <1>6, <1>7, <1>8, <1>9 DEF AdapterStep

\* The consumer sees the end after the last event.
LEMMA EndConsumer ==
  ASSUME EndInv, ErrorInv, Receive \/ SeeEnd \/ DropStream,
         adapter = "done" /\ NothingFailed => NothingFailed'
  PROVE  EndInv'
<1>1. UNCHANGED <<adapter, wake, cancelled, notify>>
  BY DEF Receive, SeeEnd, DropStream, adapterVars
<1>2. CASE Receive
  <2>1. /\ tokens # <<>> /\ tokens' = Tail(tokens) /\ got' = Append(got, Head(tokens))
        /\ UNCHANGED <<open, ended>>
    BY <1>2 DEF Receive
  <2>2. Received(tokens, Tail(tokens)) /\ Sent(got, Head(tokens), Append(got, Head(tokens)))
    BY <2>1, ReceivedIs, SentIs DEF ErrorInv
  <2>3. HasErr(got) \/ HasErr(tokens) => HasErr(got') \/ HasErr(tokens')
    BY <2>1, <2>2 DEF Received, Sent
  <2> QED
    BY <1>1, <2>1, <2>3 DEF EndInv
<1>3. CASE SeeEnd
  <2>1. open /\ tokens = <<>> /\ adapter = "done" /\ UNCHANGED <<tokens, open, got>>
    BY <1>3 DEF SeeEnd
  <2>2. cancelled \/ HasErr(got) \/ NothingFailed
    BY <2>1, EmptyChannel DEF EndInv
  <2> QED
    BY <1>1, <2>1, <2>2 DEF EndInv
<1>4. CASE DropStream
  BY <1>1, <1>4 DEF DropStream, EndInv
<1> QED
  BY <1>2, <1>3, <1>4

\* Everything else leaves the adapter and the consumer alone.
LEMMA EndKept ==
  ASSUME EndInv, TransportInv, ErrorInv, [StreamNext]_streamVars
  PROVE  EndInv'
<1>1. adapter = "done" /\ NothingFailed => NothingFailed'
  BY StaysWhole
<1>2. CASE Background \/ UNCHANGED streamVars
  <2>1. UNCHANGED <<adapter, tokens, open, got, ended>> /\ (cancelled => cancelled')
    BY <1>2, BackgroundKeeps
  <2>2. notify' \/ wake' = "woken" => cancelled'
    <3>1. CASE Cancel
      BY <3>1 DEF Cancel
    <3>2. CASE NotifyWaiters
      BY <3>2 DEF NotifyWaiters, EndInv
    <3>3. CASE Reading \/ TransportStep \/ Deadline \/ UNCHANGED streamVars
      <4>1. UNCHANGED <<notify, wake, cancelled>>
        BY <3>3 DEF Reading, ReadChunk, ReadEof, ReadFails, LocalDeadline, TransportStep, SendFrame,
           SendRefused, AllSent, SendTerminalError, Deadline, streamVars, adapterVars
      <4> QED
        BY <4>1 DEF EndInv
    <3> QED
      BY <1>2, <3>1, <3>2, <3>3 DEF Background
  <2> QED
    BY <1>1, <2>1, <2>2 DEF EndInv
<1> QED
  BY <1>1, <1>2, EndAdapter, EndConsumer DEF StreamNext, Background

\* The inductive invariant of a stream.
StreamInv == ErrorInv /\ TransportInv /\ EndInv

\* A stream that ends without an error and was not cancelled had no failure
\* behind it, in the transport, the decoder or the local model, and lost no
\* frame: the control half of NoSilentTruncation, for every reply, division
\* into chunks and capacity of the channels.
THEOREM QuietEndIsClean == StreamSpec => [](EndedQuietly => NothingFailed)
<1>1. StreamInit => StreamInv
  BY ErrorInit, EmptyChannel DEF StreamInit, StreamInv, TransportInv, EndInv
<1>2. StreamInv /\ [StreamNext]_streamVars => StreamInv'
  BY ErrorStep, TransportKept, EndKept DEF StreamInv
<1>3. StreamInv => (EndedQuietly => NothingFailed)
  BY DEF StreamInv, EndInv, EndedQuietly, HasErr
<1> QED
  BY <1>1, <1>2, <1>3, PTL DEF StreamSpec
=============================================================================
