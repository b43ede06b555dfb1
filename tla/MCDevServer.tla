---------------------------- MODULE MCDevServer -----------------------------
(* Small instances of DevServer.                                           *)
EXTENDS DevServer

\* Two targets, each with a source of its own.
MCTargets == <<[name |-> "app", path |-> 2], [name |-> "worker", path |-> 1]>>

\* A source that compiles and a removed file, which is built as the empty text
\* and does not compile.
MCContents == {"good", "missing"}
MCReadable == {"good"}
MCCompiles == {"good"}
=============================================================================
