------------------------------ MODULE MCSandbox ------------------------------
(***************************************************************************)
(* Small instances of Sandbox: three functions that may call each other in *)
(* a cycle, with declared effects that fit, exceed or repeat; artifacts    *)
(* that are broken or run a start function; artifacts and policies that    *)
(* clash in format, imports, memory or effects.                            *)
(***************************************************************************)
EXTENDS Sandbox

Undeclared == <<"undeclared">>
Definition(body, calls, declared) ==
  [asynchronous |-> FALSE, agent |-> FALSE, body |-> body, calls |-> calls, declared |-> declared]
MCPrograms ==
  {[main |-> Definition({}, {"a"}, main), a |-> Definition({}, calls, a),
    b |-> [Definition({"string"}, back, Undeclared) EXCEPT !.asynchronous = (back # {})]] :
      main \in {Undeclared, <<"pure">>, <<"alloc", "alloc">>, <<"pure", "alloc">>, <<"io", "alloc">>},
      a \in {Undeclared, <<"async", "alloc">>}, calls \in {{"b"}, {"b", "extern"}},
      back \in {{}, {"main"}}}
  \cup {[main |-> [Definition({"await", "array", "int"}, {}, Undeclared) EXCEPT !.agent = TRUE]]}
Artifact(format, sections, imports, pages, exports) ==
  [format |-> format, sections |-> sections, imports |-> imports, pages |-> pages,
   exports |-> exports, traits |-> {}]
Simple == Artifact(1, 1, {"log_i32"}, 1, "i32")
MCArtifacts ==
  {Simple, Artifact(2, 1, {"log_i32"}, 1, "i32"), Artifact(1, 2, {}, 1, "i32"),
   Artifact(1, 0, {"other"}, 3, "i64"), Artifact(1, 1, {}, 3, "i32")}
  \cup {[Simple EXCEPT !.traits = {trait}] : trait \in {"malformed", "invalid", "mistyped", "start"}}
MCPolicies ==
  {[fuel |-> 2, memory |-> 2, capabilities |-> {"log_i32"}, effects |-> {"alloc", "async"}],
   [fuel |-> 3, memory |-> 1, capabilities |-> {"log_i32"},
    effects |-> {"alloc", "network", "provider", "async"}],
   [fuel |-> 3, memory |-> 1, capabilities |-> {}, effects |-> {"alloc"}]}
=============================================================================
