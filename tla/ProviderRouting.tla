-------------------------- MODULE ProviderRouting ---------------------------
(***************************************************************************)
(* Which adapter serves an invocation: ProviderRegistry and its snapshots  *)
(* (crates/syllog-proxy/src/registry.rs) and Router (router.rs).           *)
(* Adapters are registered and routes tripped while invocations that hold  *)
(* older snapshots are still resolving their route.                        *)
(***************************************************************************)
EXTENDS Naturals, Sequences

CONSTANTS
  Adapters,    \* descriptors: [name, major, minor, id]
  Supported,   \* ABI of the runtime: [major, minor]
  Routes,      \* the router's routes in order: [name, provider]
  Callers      \* invocations

ASSUME RoutesAssumption == Len(Routes) \in Nat /\ DOMAIN Routes = 1 .. Len(Routes)

VARIABLES
  adapters,    \* registered adapters by provider name
  unavailable, \* tripped routes
  call         \* per caller: snapshot, selected route, resolved adapter

routingVars == <<adapters, unavailable, call>>

\* Same major version, and no newer minor than the runtime's.
AbiCompatible(a) == a.major = Supported.major /\ a.minor <= Supported.minor

\* Mutant: a later registration replaces an earlier one.
RegisterReplacing(a) ==
  /\ AbiCompatible(a)
  /\ adapters' = [n \in DOMAIN adapters \cup {a.name} |->
                    IF n = a.name THEN a ELSE adapters[n]]
  /\ UNCHANGED <<unavailable, call>>

\* Refused registrations (another ABI, a name in use) change nothing.
Register(a) ==
  /\ AbiCompatible(a)
  /\ a.name \notin DOMAIN adapters
  /\ adapters' = [n \in DOMAIN adapters \cup {a.name} |->
                    IF n = a.name THEN a ELSE adapters[n]]
  /\ UNCHANGED <<unavailable, call>>

Trip(r) == unavailable' = unavailable \cup {r} /\ UNCHANGED <<adapters, call>>
Restore(r) == unavailable' = unavailable \ {r} /\ UNCHANGED <<adapters, call>>

Available(k) == Routes[k].name \notin unavailable

\* routes.iter().find(..) returns the first route that is not tripped, none (0)
\* when all are.
Select(k) ==
  \/ k = 0 /\ \A j \in DOMAIN Routes : ~Available(j)
  \/ k \in DOMAIN Routes /\ Available(k) /\ \A j \in 1 .. k - 1 : ~Available(j)

Snapshot(c) ==
  /\ call[c].at = "start"
  /\ call' = [call EXCEPT ![c] = [at |-> "select", snapshot |-> adapters, route |-> 0,
                                  skipped |-> {}, adapter |-> <<>>]]
  /\ UNCHANGED <<adapters, unavailable>>

SelectRoute(c) ==
  /\ call[c].at = "select"
  /\ \E k \in DOMAIN Routes \cup {0} :
       /\ Select(k)
       /\ call' = [call EXCEPT ![c].route = k, ![c].skipped = unavailable,
                               ![c].at = IF k = 0 THEN "noRoute" ELSE "resolve"]
  /\ UNCHANGED <<adapters, unavailable>>

ResolveRoute(c) ==
  LET provider == Routes[call[c].route].provider
      found == provider \in DOMAIN call[c].snapshot
  IN /\ call[c].at = "resolve"
     /\ call' = [call EXCEPT ![c].at = IF found THEN "resolved" ELSE "unknown",
                             ![c].adapter = IF found THEN call[c].snapshot[provider] ELSE <<>>]
     /\ UNCHANGED <<adapters, unavailable>>

RoutingInit ==
  /\ adapters = <<>> /\ unavailable = {}
  /\ call = [c \in Callers |-> [at |-> "start", snapshot |-> <<>>, route |-> 0,
                                skipped |-> {}, adapter |-> <<>>]]

RoutingNext ==
  \/ \E a \in Adapters : Register(a)
  \/ \E k \in DOMAIN Routes : Trip(Routes[k].name) \/ Restore(Routes[k].name)
  \/ \E c \in Callers : Snapshot(c) \/ SelectRoute(c) \/ ResolveRoute(c)

RoutingSpec == RoutingInit /\ [][RoutingNext]_routingVars

\* Whatever was registered or tripped in between, invocations agree: two
\* that resolved the same provider hold the same adapter, it speaks the
\* runtime's ABI, and no route in front of the chosen one was available when
\* it was chosen (register, snapshot, resolve, select).
CallersAgree ==
  \A c, d \in {e \in Callers : call[e].at = "resolved"} :
    /\ AbiCompatible(call[c].adapter)
    /\ Routes[call[c].route].provider = Routes[call[d].route].provider
         => call[c].adapter = call[d].adapter
    /\ \A k \in 1 .. call[c].route - 1 : Routes[k].name \in call[c].skipped
    /\ Routes[call[c].route].name \notin call[c].skipped
=============================================================================
