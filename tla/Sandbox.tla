------------------------------- MODULE Sandbox -------------------------------
(***************************************************************************)
(* Effects from the source to the running artifact: analyze_effects of     *)
(* crates/syllog-compiler/src/effects.rs infers what each definition may   *)
(* do and writes the union into the artifact's capability manifest;        *)
(* Sandbox of crates/syllog-runtime/src/lib.rs refuses an artifact whose   *)
(* manifest, imports or memory the policy does not allow, and then runs it *)
(* with limited fuel and memory.                                           *)
(*                                                                         *)
(* A definition is abstracted to what effect inference sees of it: the     *)
(* expressions with a direct effect and the definitions it calls.  The     *)
(* guest is any run of the compiled program: in every step it works,       *)
(* performs an effect of the current function, calls, logs, grows memory,  *)
(* returns or traps.  It runs twice: in the start function of the module,  *)
(* inside linker.instantiate, and in the requested export.  set_fuel and   *)
(* func_wrap cannot fail on the engine that Sandbox::new configures.       *)
(***************************************************************************)
EXTENDS Naturals, Sequences

CONSTANTS
  Programs,    \* definition -> [asynchronous, agent, body, calls, declared]
  Artifacts,   \* the rest: [format, sections, imports, pages, exports, traits]
  Policies     \* [fuel, memory, capabilities, effects]

\* SandboxPolicy::new refuses zero limits.
ASSUME SandboxAssumption ==
  /\ \A p \in Policies : p.fuel \in Nat \ {0} /\ p.memory \in Nat \ {0}
  /\ \A a \in Artifacts : a.pages \in Nat

VARIABLES
  program, artifact, policy,
  inferred,    \* definition -> effects found so far
  stage,       \* control point of the compiler and of the sandbox
  result,      \* "none", "ok" or the error
  export,      \* type of the requested export: "i32" or "i64"
  fuel, memory, exceeded, \* of the Wasm store
  frame,       \* the definition the guest executes
  performed    \* history: effects performed, host functions called

guestVars == <<fuel, memory, exceeded, frame, performed>>
sandboxVars == <<program, artifact, policy, inferred, stage, result, export, guestVars>>

-----------------------------------------------------------------------------
(***************************************************************************)
(* Effect inference.                                                       *)
(***************************************************************************)
\* An await is asynchronous, a string or an array allocates.
EffectOf(expression) == CASE expression = "await" -> {"async"}
                          [] expression \in {"string", "array"} -> {"alloc"}
                          [] OTHER -> {}

Direct(d) == (IF program[d].asynchronous THEN {"async"} ELSE {})
             \cup (IF program[d].agent THEN {"network", "provider"} ELSE {})
             \cup UNION {EffectOf(x) : x \in program[d].body}

\* Calls of definitions that are not in the program add nothing.
Callees(d) == program[d].calls \cap DOMAIN program

Round == [d \in DOMAIN program |-> inferred[d] \cup UNION {inferred[c] : c \in Callees(d)}]

\* Mutant: the loop ends after one round.
InferOnce ==
  /\ stage = "infer"
  /\ inferred' = Round /\ stage' = "bounds"
  /\ UNCHANGED <<program, artifact, policy, result, export, guestVars>>

\* One iteration of the fixed point, over the effects of the last one.
Infer ==
  /\ stage = "infer"
  /\ inferred' = Round
  /\ stage' = IF Round = inferred THEN "bounds" ELSE "infer"
  /\ UNCHANGED <<program, artifact, policy, result, export, guestVars>>

Effects == {"async", "alloc", "io", "network", "provider"}

\* A declaration lists each known effect once, or `pure' alone.
WellFormed(declared) ==
  /\ \A i, j \in DOMAIN declared : declared[i] = declared[j] => i = j
  /\ \A i \in DOMAIN declared : declared[i] \in Effects \cup {"pure"}
  /\ (\E i \in DOMAIN declared : declared[i] = "pure") => Len(declared) = 1

Bound(declared) == {declared[i] : i \in DOMAIN declared} \cap Effects

WithinBounds ==
  \A d \in DOMAIN program : LET declared == program[d].declared IN
    declared # <<"undeclared">> => WellFormed(declared) /\ inferred[d] \subseteq Bound(declared)

CheckBounds ==
  /\ stage = "bounds"
  /\ stage' = IF WithinBounds THEN "compiled" ELSE "rejected"
  /\ result' = IF WithinBounds THEN "none" ELSE "EffectError"
  /\ UNCHANGED <<program, artifact, policy, inferred, export, guestVars>>

\* The artifact's manifest: all definitions, reachable or not.
Required == UNION {inferred[d] : d \in DOMAIN program}

-----------------------------------------------------------------------------
(***************************************************************************)
(* Sandbox::execute_i32 and execute_i64.                                   *)
(***************************************************************************)
Refuse(error) == stage' = "done" /\ result' = error

Execute(type) ==
  /\ stage = "compiled"
  /\ export' = type /\ stage' = "manifest"
  /\ UNCHANGED <<program, artifact, policy, inferred, result, guestVars>>

ExecuteI32 == Execute("i32")
ExecuteI64 == Execute("i64")

\* A module may be "malformed" (the parser stops), "invalid" (its validation
\* fails) or "mistyped" (an import has another type than the host's), and may
\* have a "start" function.
ModuleIs(trait) == trait \in artifact.traits

\* At most one capability section, of format 1, all of its effects granted.
\* Foreign Wasm has none and needs no effect.
ManifestReadable ==
  /\ ~ModuleIs("malformed")
  /\ artifact.sections = 0 \/ (artifact.sections = 1 /\ artifact.format = 1)

EnforceManifest ==
  /\ stage = "manifest"
  /\ \/ ~ManifestReadable /\ Refuse("InvalidCapabilityManifest")
     \/ /\ ManifestReadable
        /\ IF artifact.sections = 0 \/ Required \subseteq policy.effects
           THEN stage' = "compile" /\ UNCHANGED result
           ELSE Refuse("EffectDenied")
  /\ UNCHANGED <<program, artifact, policy, inferred, export, guestVars>>

CompileModule ==
  /\ stage = "compile"
  /\ IF ModuleIs("invalid") THEN Refuse("Compilation") ELSE stage' = "imports" /\ UNCHANGED result
  /\ UNCHANGED <<program, artifact, policy, inferred, export, guestVars>>

CheckImports ==
  /\ stage = "imports"
  /\ IF artifact.imports \subseteq policy.capabilities
     THEN stage' = "memory" /\ UNCHANGED result
     ELSE Refuse("CapabilityDenied")
  /\ UNCHANGED <<program, artifact, policy, inferred, export, guestVars>>

CheckMemory ==
  /\ stage = "memory"
  /\ IF artifact.pages <= policy.memory
     THEN stage' = "instantiate" /\ UNCHANGED result
     ELSE Refuse("MemoryLimitExceeded")
  /\ UNCHANGED <<program, artifact, policy, inferred, export, guestVars>>

\* A fresh store with its fuel, linked; the initial memory grows from nothing,
\* through the limiter.
Instantiate ==
  /\ stage = "instantiate"
  /\ fuel' = policy.fuel /\ memory' = artifact.pages
  /\ frame' \in DOMAIN program
  /\ IF ModuleIs("mistyped") THEN Refuse("Instantiation")
     ELSE stage' = (IF ModuleIs("start") THEN "starting" ELSE "lookup") /\ UNCHANGED result
  /\ UNCHANGED <<program, artifact, policy, inferred, export, exceeded, performed>>

LookupExport ==
  /\ stage = "lookup"
  /\ frame' \in DOMAIN program
  /\ IF artifact.exports = export THEN stage' = "running" /\ UNCHANGED result
     ELSE Refuse("InvalidExport")
  /\ UNCHANGED <<program, artifact, policy, inferred, export, fuel, memory, exceeded, performed>>

\* Every step of the guest costs fuel.
GuestStep == stage \in {"starting", "running"} /\ fuel > 0 /\ fuel' = fuel - 1
             /\ UNCHANGED <<program, artifact, policy, inferred, export>>

\* The guest ends with an error.  Whatever ends a start function is reported
\* as a failed instantiation.
Stop(error) == Refuse(IF stage = "starting" THEN "Instantiation" ELSE error)

PerformEffect ==
  /\ GuestStep /\ artifact.sections = 1
  /\ \E e \in Direct(frame) : performed' = performed \cup {e}
  /\ UNCHANGED <<stage, result, memory, exceeded, frame>>

CallFunction ==
  /\ GuestStep
  /\ frame' \in Callees(frame)
  /\ UNCHANGED <<stage, result, memory, exceeded, performed>>

CallHost ==
  /\ GuestStep
  /\ \E i \in artifact.imports : performed' = performed \cup {i}
  /\ UNCHANGED <<stage, result, memory, exceeded, frame>>

\* Mutant: the limiter notes the excess and grows.
MemoryGrowingAnyway ==
  /\ GuestStep
  /\ memory' = memory + 1 /\ exceeded' = (memory + 1 > policy.memory)
  /\ UNCHANGED <<stage, result, frame, performed>>

\* memory.grow asks the limiter; a refusal ends the call.
MemoryGrowing ==
  /\ GuestStep
  /\ \/ /\ memory + 1 <= policy.memory
        /\ memory' = memory + 1 /\ UNCHANGED <<exceeded, stage, result>>
     \/ /\ memory + 1 > policy.memory
        /\ exceeded' = TRUE /\ Stop("MemoryLimitExceeded") /\ UNCHANGED memory
  /\ UNCHANGED <<frame, performed>>

Return ==
  /\ GuestStep
  /\ IF stage = "starting" THEN stage' = "lookup" /\ UNCHANGED result ELSE Refuse("ok")
  /\ UNCHANGED <<memory, exceeded, frame, performed>>

TrapGuest == GuestStep /\ Stop("Execution") /\ UNCHANGED <<memory, exceeded, frame, performed>>

OutOfFuel ==
  /\ stage \in {"starting", "running"} /\ fuel = 0
  /\ Stop("FuelExhausted")
  /\ UNCHANGED <<program, artifact, policy, inferred, export, guestVars>>

-----------------------------------------------------------------------------
SandboxInit ==
  /\ program \in Programs /\ artifact \in Artifacts /\ policy \in Policies
  /\ inferred = [d \in DOMAIN program |-> Direct(d)]
  /\ stage = "infer" /\ result = "none" /\ export = "none"
  /\ fuel = 0 /\ memory = 0 /\ exceeded = FALSE /\ performed = {}
  /\ frame = "none"

SandboxNext ==
  \/ Infer \/ CheckBounds
  \/ ExecuteI32 \/ ExecuteI64 \/ EnforceManifest \/ CompileModule \/ CheckImports \/ CheckMemory
  \/ Instantiate \/ LookupExport
  \/ PerformEffect \/ CallFunction \/ CallHost \/ MemoryGrowing \/ Return \/ TrapGuest \/ OutOfFuel

SandboxSpec == SandboxInit /\ [][SandboxNext]_sandboxVars

-----------------------------------------------------------------------------
\* Reference: what can happen in a definition and those it reaches by calls.
ClosedUnderCalls(s) == \A d \in s : Callees(d) \subseteq s
Below(d) == {c \in DOMAIN program : \A s \in SUBSET DOMAIN program :
                                      d \in s /\ ClosedUnderCalls(s) => c \in s}
MayPerform(d) == UNION {Direct(c) : c \in Below(d)}

\* The declared bounds hold of everything a definition can reach, also
\* through recursion: a program passes exactly when no declaration omits an
\* effect of a definition below it (analyze_effects).
BoundsExact ==
  stage \notin {"infer", "bounds"} =>
    ((stage # "rejected") <=>
       \A d \in DOMAIN program : LET declared == program[d].declared IN
         declared # <<"undeclared">> => WellFormed(declared) /\ MayPerform(d) \subseteq Bound(declared))

\* What runs stays inside its policy: every effect performed and every host
\* function called was granted, memory and fuel never pass their limits, and a
\* run that hit the memory limit ends there, with an error: the limit's own, or
\* that of the instantiation when a start function hit it
\* (execute_i32, enforce_effect_manifest, memory_growing).
RunContained ==
  /\ performed \subseteq policy.effects \cup policy.capabilities
  /\ memory <= policy.memory /\ fuel <= policy.fuel
  /\ exceeded => /\ stage = "done"
                 /\ \/ result = "MemoryLimitExceeded"
                    \/ result = "Instantiation" /\ ModuleIs("start")

\* docs/runtime-foundations.md of a memory.grow at run time that the limiter
\* refuses: the violation returns SandboxError::MemoryLimitExceeded.  In a
\* start function it does not.
RefusedGrowthTyped == exceeded => result = "MemoryLimitExceeded"
=============================================================================
