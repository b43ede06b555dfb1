----------------------------- MODULE DevServer ------------------------------
(***************************************************************************)
(* The development service of crates/syllog-dev-server/src/lib.rs and the  *)
(* `syllog dev' command that consumes its events                           *)
(* (crates/syllog-cli/src/commands/dev.rs).                                *)
(*                                                                         *)
(* The actors are the service task (task), which polls the sources of the  *)
(* targets, debounces changes and builds; the command (consumer), which    *)
(* receives the events from a bounded channel and shuts the service down;  *)
(* and whoever edits the sources.  A path is a number, so that BTreeMap    *)
(* order is <.  A file's contents are a value; the fingerprint of a file   *)
(* is its contents, and a debounce period ends in an action of its own.    *)
(***************************************************************************)
EXTENDS Naturals, Sequences, FiniteSets, Functions

CONSTANTS
  Targets,    \* the manifest's targets: a sequence of records name, path
  Contents,   \* what a source file can contain; Missing is among them
  Missing,    \* the file does not exist
  Readable,   \* contents that are UTF-8 text
  Compiles,   \* texts that compile
  Empty,      \* the empty text, what an unreadable file is compiled as
  Capacity,   \* of the event channel
  Reverts     \* whether an edit may bring back earlier contents

Paths == {Targets[k].path : k \in DOMAIN Targets}

TargetNames == {Targets[k].name : k \in DOMAIN Targets}

ASSUME TargetsAssumption ==
  Targets # <<>> /\ Targets \in Seq([name: TargetNames, path: Nat])

ASSUME ContentsAssumption ==
  /\ Missing \in Contents \ Readable
  /\ "unseen" \notin Contents
  /\ Readable \subseteq Contents
  /\ Compiles \subseteq Readable \cup {Empty}
  /\ Capacity \in Nat \ {0}

VARIABLES
  disk,       \* contents of each source file
  past,       \* contents each file has had, to tell fresh edits
  observed,   \* fingerprint last seen, "unseen" before the first poll
  pending,    \* debounce state of each path
  ready,      \* paths of this tick still to build
  task,       \* control point of the service task
  target,     \* the target being built
  source,     \* the text it was built from
  next_build, \* id of the next build
  stats,      \* builds executed per target name
  events,     \* the event channel
  consumer,   \* control point of the command
  once,       \* the --once flag
  completed,  \* terminal builds the command has counted
  built       \* the text each path was last built from, "none" before

watchVars  == <<observed, pending, ready>>
buildVars  == <<target, source, next_build, stats, built>>
clientVars == <<consumer, once, completed>>
vars == <<disk, past, watchVars, task, buildVars, events, clientVars>>

\* read_to_string(...).unwrap_or_default()
Text(c) == IF c \in Readable THEN c ELSE Empty

\* serve: the channel, the counters and the task; nothing observed yet.
Init ==
  /\ disk \in [Paths -> Contents]
  /\ past = [p \in Paths |-> {disk[p]}]
  /\ observed = [p \in Paths |-> "unseen"]
  /\ pending = [p \in Paths |-> "no"]
  /\ ready = {}
  /\ task = "select"
  /\ target = 1 /\ source = Empty
  /\ next_build = 1
  /\ stats = [n \in TargetNames |-> 0]
  /\ events = <<>>
  /\ consumer = "loop" /\ completed = 0
  /\ once \in BOOLEAN
  /\ built = [p \in Paths |-> "none"]

-----------------------------------------------------------------------------
(* The service task.                                                       *)

\* A poll that restarts the quiet period of every path.
TickRestartsDebounce ==
  /\ task = "select"
  /\ observed' = disk
  /\ pending' = [p \in Paths |-> "waiting"]
  /\ ready' = {p \in Paths : pending'[p] = "due"}
  /\ task' = "loop"
  /\ UNCHANGED <<disk, past, buildVars, events, clientVars>>

\* observe_changes, then the paths whose quiet period is over.
Tick ==
  LET changed == {p \in Paths : observed[p] # disk[p]} IN
  /\ task = "select"
  /\ observed' = disk
  /\ pending' = [p \in Paths |-> IF p \in changed THEN "waiting" ELSE pending[p]]
  /\ ready' = {p \in Paths : pending'[p] = "due"}
  /\ task' = "loop"
  /\ UNCHANGED <<disk, past, buildVars, events, clientVars>>

DebounceElapsed(p) ==
  /\ pending[p] = "waiting"
  /\ pending' = [pending EXCEPT ![p] = "due"]
  /\ UNCHANGED <<disk, past, observed, ready, task, buildVars, events, clientVars>>

\* targets.iter().find(|target| target.path == path) returns target k.
Find(p, k) == Targets[k].path = p /\ \A j \in 1 .. k - 1 : Targets[j].path # p

\* A build that clears the pending changes of every path.
BeginBuildClearsAll ==
  /\ task = "loop"
  /\ \E p \in ready, k \in DOMAIN Targets :
       /\ \A q \in ready : p <= q
       /\ Find(p, k)
       /\ ready' = ready \ {p}
       /\ pending' = [q \in Paths |-> "no"]
       /\ target' = k
       /\ stats' = [stats EXCEPT ![Targets[k].name] = @ + 1]
  /\ task' = "building"
  /\ UNCHANGED <<disk, past, observed, source, next_build, built, events, clientVars>>

\* The next ready path in order: no longer pending, counted, about to build.
BeginBuild ==
  /\ task = "loop"
  /\ \E p \in ready, k \in DOMAIN Targets :
       /\ \A q \in ready : p <= q
       /\ Find(p, k)
       /\ ready' = ready \ {p}
       /\ pending' = [pending EXCEPT ![p] = "no"]
       /\ target' = k
       /\ stats' = [stats EXCEPT ![Targets[k].name] = @ + 1]
  /\ task' = "building"
  /\ UNCHANGED <<disk, past, observed, source, next_build, built, events, clientVars>>

EndTick ==
  /\ task = "loop"
  /\ ready = {}
  /\ task' = "select"
  /\ UNCHANGED <<disk, past, watchVars, buildVars, events, clientVars>>

ReceiverOpen == consumer \in {"loop", "closing"}

\* sender.send(e).await: waits for room.
Send(e) ==
  /\ ReceiverOpen
  /\ Len(events) < Capacity
  /\ events' = Append(events, e)

\* The source is read and compiled once the Building event is out.
SendBuilding ==
  LET path == Targets[target].path IN
  /\ task = "building"
  /\ Send([kind |-> "Building", id |-> next_build])
  /\ source' = Text(disk[path])
  /\ built' = [built EXCEPT ![path] = Text(disk[path])]
  /\ task' = "diagnostics"
  /\ UNCHANGED <<disk, past, watchVars, target, next_build, stats, clientVars>>

\* A failed build that keeps its id.
SendDiagnosticsSameId ==
  /\ task = "diagnostics"
  /\ Send([kind |-> "Diagnostics", success |-> source \in Compiles])
  /\ task' = IF source \in Compiles THEN "ready" ELSE "loop"
  /\ UNCHANGED <<disk, past, watchVars, buildVars, clientVars>>

SendDiagnostics ==
  /\ task = "diagnostics"
  /\ Send([kind |-> "Diagnostics", success |-> source \in Compiles])
  /\ task' = IF source \in Compiles THEN "ready" ELSE "loop"
  /\ next_build' = IF source \in Compiles THEN next_build ELSE next_build + 1
  /\ UNCHANGED <<disk, past, watchVars, target, source, stats, built, clientVars>>

SendReady ==
  /\ task = "ready"
  /\ Send([kind |-> "Ready", target |-> Targets[target].name, digest |-> source])
  /\ task' = "restarted"
  /\ UNCHANGED <<disk, past, watchVars, buildVars, clientVars>>

SendRestarted ==
  /\ task = "restarted"
  /\ Send([kind |-> "RuntimeRestarted"])
  /\ task' = "loop"
  /\ next_build' = next_build + 1
  /\ UNCHANGED <<disk, past, watchVars, target, source, stats, built, clientVars>>

Sending == {"building", "diagnostics", "ready", "restarted"}

\* The receiver is gone: build_target returns false and run_loop returns.
SendFails ==
  /\ task \in Sending
  /\ ~ReceiverOpen
  /\ task' = "exited"
  /\ UNCHANGED <<disk, past, watchVars, buildVars, events, clientVars>>

\* A shutdown arm that matches a message only.
ObserveMessage ==
  /\ task = "select"
  /\ consumer = "closing"
  /\ task' = "exited"
  /\ UNCHANGED <<disk, past, watchVars, buildVars, events, clientVars>>

\* The shutdown arm: the sender was used or dropped.
ObserveShutdown ==
  /\ task = "select"
  /\ consumer # "loop"
  /\ task' = "exited"
  /\ UNCHANGED <<disk, past, watchVars, buildVars, events, clientVars>>

\* A panic in the compiler ends the task.
TaskPanics ==
  /\ task = "diagnostics"
  /\ task' = "panicked"
  /\ UNCHANGED <<disk, past, watchVars, buildVars, events, clientVars>>

-----------------------------------------------------------------------------
(* The command.                                                            *)

\* terminal_builds
Terminal(e) ==
  IF e.kind = "RuntimeRestarted" \/ (e.kind = "Diagnostics" /\ ~e.success) THEN 1 ELSE 0

Ended == task \in {"exited", "panicked"}

\* next_event, render and count; --once stops at as many builds as targets.
ReceiveEvent ==
  /\ consumer = "loop"
  /\ events # <<>>
  /\ events' = Tail(events)
  /\ \/ /\ completed' = completed + Terminal(Head(events))
        /\ consumer' = IF once /\ completed' >= Len(Targets) THEN "closing" ELSE "loop"
     \/ /\ consumer' = "failed"    \* render_event fails: the handle is dropped
        /\ UNCHANGED completed
  /\ UNCHANGED <<disk, past, watchVars, task, buildVars, once>>

\* The channel is closed and drained, or the user interrupts.
LeaveLoop ==
  /\ consumer = "loop"
  /\ (events = <<>> /\ Ended) \/ ~once
  /\ consumer' = "closing"
  /\ UNCHANGED <<disk, past, watchVars, task, buildVars, events, once, completed>>

\* shutdown() joins the task; the receiver lives until then.
JoinTask ==
  /\ consumer = "closing"
  /\ Ended
  /\ consumer' = IF task = "panicked" THEN "failed" ELSE "exited"
  /\ UNCHANGED <<disk, past, watchVars, task, buildVars, events, once, completed>>

\* Someone saves a source file.
Edit(p) ==
  /\ \E c \in Contents :
       /\ c # disk[p]
       /\ Reverts \/ c \notin past[p]
       /\ disk' = [disk EXCEPT ![p] = c]
       /\ past' = [past EXCEPT ![p] = @ \cup {c}]
  /\ UNCHANGED <<watchVars, task, buildVars, events, clientVars>>

-----------------------------------------------------------------------------
TaskStep ==
  \/ Tick \/ BeginBuild \/ EndTick
  \/ SendBuilding \/ SendDiagnostics \/ SendReady \/ SendRestarted \/ SendFails

Next ==
  \/ TaskStep \/ ObserveShutdown \/ TaskPanics
  \/ ReceiveEvent \/ LeaveLoop \/ JoinTask
  \/ \E p \in Paths : DebounceElapsed(p) \/ Edit(p)

Spec == Init /\ [][Next]_vars

(***************************************************************************)
(* Fairness.  tokio runs a task that can run and fires timers that are     *)
(* due; the command keeps receiving while it loops.  The select of         *)
(* run_loop is unbiased, so the shutdown arm, once ready, is taken in some *)
(* round although ticks compete with it: strong fairness.                  *)
(***************************************************************************)
Fairness ==
  /\ WF_vars(TaskStep) /\ SF_vars(ObserveShutdown)
  /\ WF_vars(ReceiveEvent) /\ WF_vars(JoinTask)
  /\ \A p \in Paths : WF_vars(DebounceElapsed(p))

FairSpec == Spec /\ Fairness

-----------------------------------------------------------------------------
(* Properties.                                                             *)

\* Once the service is idle, nothing pending and the last poll up to date, the
\* last build of each path was of what the file contains: an edit that falls
\* between the poll and the read of build_target is not lost.
QuietIsCurrent ==
  \A p \in Paths :
    task = "select" /\ pending[p] = "no" /\ observed[p] = disk[p] => built[p] = Text(disk[p])

\* Build ids and counters agree: between builds each id below next_build was
\* one build, during a build its counter is already taken.
BuildsCounted ==
  ~Ended =>
    FoldFunction(+, 0, stats) = IF task \in Sending THEN next_build ELSE next_build - 1

\* Whatever is saved last is built, as long as the command listens.
EditsBuilt ==
  \A p \in Paths : \A c \in Contents :
    disk[p] = c ~> built[p] = Text(c) \/ disk[p] # c \/ consumer # "loop" \/ Ended

\* A service whose handle was dropped ends: the polling task does not leak.
DroppedHandleEnds == consumer = "failed" ~> Ended

\* shutdown() returns.  It is documented as "Stops polling and waits for the
\* service task to exit."
ShutdownReturns == consumer = "closing" ~> consumer # "closing"
=============================================================================
