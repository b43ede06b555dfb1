-------------------------- MODULE StructuredScope ---------------------------
(***************************************************************************)
(* What a pipeline scope promises, without stages, logs, permits or        *)
(* timers.  A scope opens, runs batches of children, and closes.  A batch  *)
(* is admitted while the scope is not stopping and then starts, so that at *)
(* most one batch, the one admitted before, starts in a stopping scope.    *)
(* The scope closes only over joined children, and tells its owner a       *)
(* result only once it is closed; an owner of a stopping scope may give up *)
(* earlier, and then the scope is an orphan until it closes.  Pipeline is  *)
(* shown to implement this module.                                         *)
(***************************************************************************)
CONSTANTS Scopes, Children

VARIABLES
  state,     \* "new", "open" or "closed"
  live,      \* the children started and not joined
  admitted,  \* the scopes whose next batch may start
  stopping,  \* cancellation was requested
  told,      \* "nothing", "result" or "gaveup"
  orphans    \* the scopes given up and not reaped

vars == <<state, live, admitted, stopping, told, orphans>>

Init ==
  /\ state = [s \in Scopes |-> "new"]
  /\ live = [s \in Scopes |-> {}]
  /\ admitted = {}
  /\ stopping = [s \in Scopes |-> FALSE]
  /\ told = [s \in Scopes |-> "nothing"]
  /\ orphans = {}

Open(s) ==
  /\ state[s] = "new"
  /\ state' = [state EXCEPT ![s] = "open"]
  /\ UNCHANGED <<live, admitted, stopping, told, orphans>>

\* The scope is not stopping: the next batch may start.
Admit(s) ==
  /\ state[s] = "open"
  /\ live[s] = {}
  /\ ~stopping[s]
  /\ admitted' = admitted \cup {s}
  /\ UNCHANGED <<state, live, stopping, told, orphans>>

\* Start the admitted batch.  An empty one is over at once.
Spawn(s, batch) ==
  /\ s \in admitted
  /\ admitted' = admitted \ {s}
  /\ live' = [live EXCEPT ![s] = batch]
  /\ UNCHANGED <<state, stopping, told, orphans>>

\* Join child c.  A failed child stops the scope.
Join(s, c) ==
  /\ c \in live[s]
  /\ live' = [live EXCEPT ![s] = @ \ {c}]
  /\ stopping' \in {stopping, [stopping EXCEPT ![s] = TRUE]}
  /\ UNCHANGED <<state, admitted, told, orphans>>

\* The only live child is followed by the next one of its batch.
Follow(s, c, d) ==
  /\ live[s] = {c}
  /\ live' = [live EXCEPT ![s] = {d}]
  /\ UNCHANGED <<state, admitted, stopping, told, orphans>>

Stop(s) ==
  /\ state[s] # "new"
  /\ stopping' = [stopping EXCEPT ![s] = TRUE]
  /\ UNCHANGED <<state, live, admitted, told, orphans>>

Close(s) ==
  /\ state[s] = "open"
  /\ live[s] = {}
  /\ s \notin admitted
  /\ state' = [state EXCEPT ![s] = "closed"]
  /\ UNCHANGED <<live, admitted, stopping, told, orphans>>

\* The only live child takes the scope down with it.
Unwind(s, c) ==
  /\ state[s] = "open"
  /\ live[s] = {c}
  /\ live' = [live EXCEPT ![s] = {}]
  /\ state' = [state EXCEPT ![s] = "closed"]
  /\ UNCHANGED <<admitted, stopping, told, orphans>>

Tell(s) ==
  /\ state[s] = "closed"
  /\ told[s] = "nothing"
  /\ told' = [told EXCEPT ![s] = "result"]
  /\ UNCHANGED <<state, live, admitted, stopping, orphans>>

GiveUp(s) ==
  /\ state[s] = "open"
  /\ stopping[s]
  /\ told[s] = "nothing"
  /\ told' = [told EXCEPT ![s] = "gaveup"]
  /\ orphans' = orphans \cup {s}
  /\ UNCHANGED <<state, live, admitted, stopping>>

Reap(s) ==
  /\ s \in orphans
  /\ state[s] = "closed"
  /\ orphans' = orphans \ {s}
  /\ UNCHANGED <<state, live, admitted, stopping, told>>

Next ==
  \E s \in Scopes :
    \/ Open(s) \/ Admit(s) \/ Stop(s) \/ Close(s) \/ Tell(s) \/ GiveUp(s) \/ Reap(s)
    \/ \E batch \in SUBSET Children : Spawn(s, batch)
    \/ \E c \in Children : Join(s, c) \/ Unwind(s, c)
    \/ \E c, d \in Children : Follow(s, c, d)

Spec == Init /\ [][Next]_vars
=============================================================================
