--------------------------- MODULE QueryDatabase ----------------------------
(***************************************************************************)
(* The incremental query database: IncrementalCompilerDatabase of          *)
(* crates/syllog-compiler/src/database.rs.                                 *)
(*                                                                         *)
(* The database has one owner (its caches are RefCells, so it is not       *)
(* Sync), and its operations are atomic; what is hard is the order of      *)
(* edits, membership changes, cancellations and queries over two layers of *)
(* caches.  A source text is abstracted to what the front end makes of it: *)
(* "syntax" does not parse, "invalid" parses with diagnostics, "untyped"   *)
(* fails in lowering; "lib" and "main" are good modules, the second with   *)
(* an entry point.                                                         *)
(***************************************************************************)
EXTENDS Naturals, FiniteSets, Sequences, Functions

CONSTANTS
  Files,       \* source file ids, ordered as numbers
  Packages,
  SourceTexts, \* the texts an editor writes
  MaxRevision  \* where the revision counter saturates (u64::MAX in the code)

ASSUME DatabaseAssumption ==
  /\ Files \subseteq Nat
  /\ MaxRevision \in Nat \ {0}

VARIABLES
  sources,     \* file -> [text, revision]
  packages,    \* package -> its files in order
  parseCache,  \* file -> [revision, result]
  hirCache,    \* package -> [fingerprint, result]
  stopped      \* the cancellation flag

databaseVars == <<sources, packages, parseCache, hirCache, stopped>>

-----------------------------------------------------------------------------
(***************************************************************************)
(* What the front end makes of a text (parser, analysis and lowering are   *)
(* functions of the text).                                                 *)
(***************************************************************************)
Cancelled == [ast |-> "none", diagnostics |-> {}, cancelled |-> TRUE]

CheckSource(file, text) ==
  [ast |-> IF text = "syntax" THEN "none" ELSE text,
   diagnostics |-> IF text \in {"syntax", "invalid"} THEN {<<file, text>>} ELSE {},
   cancelled |-> FALSE]

\* The module keeps ids of other modules and gets the position of its file
\* in place of module 0, in definitions, bodies and patterns alike.
RemapId(id, target) == IF id = 0 THEN target ELSE id
RemapModule(text, target) == [id |-> target, text |-> text, refersTo |-> RemapId(0, target)]

-----------------------------------------------------------------------------
(***************************************************************************)
(* parse: the answer now, and the caches after it.                         *)
(***************************************************************************)
UnsetSource(file) == [ast |-> "none", diagnostics |-> {<<file, "unset">>}, cancelled |-> FALSE]

ParseHit(file) ==
  file \in DOMAIN parseCache /\ parseCache[file].revision = sources[file].revision

ParseAnswer(file) ==
  IF stopped THEN Cancelled
  ELSE IF file \notin DOMAIN sources THEN UnsetSource(file)
  ELSE IF ParseHit(file) THEN parseCache[file].result
  ELSE CheckSource(file, sources[file].text)

\* The parse cache after the files have been parsed.
Parsed(files) ==
  LET kept == {f \in files : ~stopped /\ f \in DOMAIN sources}
  IN [f \in DOMAIN parseCache \cup kept |->
        IF f \in kept THEN [revision |-> sources[f].revision, result |-> ParseAnswer(f)]
        ELSE parseCache[f]]

ParseQuery(file) ==
  /\ parseCache' = Parsed({file})
  /\ UNCHANGED <<sources, packages, hirCache, stopped>>

-----------------------------------------------------------------------------
(***************************************************************************)
(* hir.                                                                    *)
(***************************************************************************)
Fingerprint(package) ==
  [i \in DOMAIN packages[package] |->
     LET f == packages[package][i]
     IN <<f, IF f \in DOMAIN sources THEN sources[f].revision ELSE 0>>]

CancelledHir == [program |-> <<>>, diagnostics |-> {}, cancelled |-> TRUE]

\* One module per source that parses and analyses without diagnostics, a
\* diagnostic for each that does not lower, and for each entry point but the
\* first; an error withholds the program, and every diagnostic the passes
\* make is one.  answers[i] is what parse answers for files[i].
BuildHir(files, answers) ==
  LET good == {i \in DOMAIN files : answers[i].ast # "none" /\ answers[i].diagnostics = {}}
      lowered == {i \in good : answers[i].ast # "untyped"}
      entries == {i \in lowered : answers[i].ast = "main"}
      diagnostics == UNION {answers[i].diagnostics : i \in DOMAIN files}
                     \cup {<<files[i], "untyped">> : i \in good \ lowered}
                     \cup {<<files[i], "entry">> : i \in {e \in entries : \E d \in entries : d < e}}
      modules == {RemapModule(answers[i].ast, i - 1) : i \in lowered}
  IN IF \E i \in DOMAIN files : answers[i].cancelled THEN CancelledHir
     ELSE [program |-> IF diagnostics = {} THEN <<modules, entries>> ELSE <<>>,
           diagnostics |-> diagnostics, cancelled |-> FALSE]

UnknownPackage == [program |-> <<>>, diagnostics |-> {"unknown package"}, cancelled |-> FALSE]

HirHit(package) ==
  package \in DOMAIN hirCache /\ hirCache[package].fingerprint = Fingerprint(package)

ParseAnswers(package) ==
  [i \in DOMAIN packages[package] |-> ParseAnswer(packages[package][i])]

HirAnswer(package) ==
  IF stopped THEN CancelledHir
  ELSE IF package \notin DOMAIN packages THEN UnknownPackage
  ELSE IF HirHit(package) THEN hirCache[package].result
  ELSE BuildHir(packages[package], ParseAnswers(package))

\* hir, and diagnostics, which is the same query.
Hir(package) ==
  LET known == package \in DOMAIN packages
      builds == ~stopped /\ known /\ ~HirHit(package)
  IN /\ parseCache' = IF builds THEN Parsed(Range(packages[package])) ELSE parseCache
     /\ hirCache' = IF ~builds THEN hirCache
                    ELSE [p \in DOMAIN hirCache \cup {package} |->
                            IF p = package THEN [fingerprint |-> Fingerprint(package),
                                                 result |-> HirAnswer(package)]
                            ELSE hirCache[p]]
     /\ UNCHANGED <<sources, packages, stopped>>

-----------------------------------------------------------------------------
(***************************************************************************)
(* Inputs.                                                                 *)
(***************************************************************************)
NextRevision(file) ==
  IF file \notin DOMAIN sources THEN 1
  ELSE IF sources[file].revision = MaxRevision THEN MaxRevision
  ELSE sources[file].revision + 1

WithSource(file, text) ==
  [f \in DOMAIN sources \cup {file} |->
     IF f = file THEN [text |-> text, revision |-> NextRevision(file)] ELSE sources[f]]

\* Mutant: only the revision tells packages of the edit.
SetSourceByRevision(file, text) ==
  /\ file \in DOMAIN sources => sources[file].text # text
  /\ sources' = WithSource(file, text)
  /\ parseCache' = Restrict(parseCache, DOMAIN parseCache \ {file})
  /\ UNCHANGED <<packages, hirCache, stopped>>

\* Writing the text a file has changes nothing.
SetSource(file, text) ==
  /\ file \in DOMAIN sources => sources[file].text # text
  /\ sources' = WithSource(file, text)
  /\ parseCache' = Restrict(parseCache, DOMAIN parseCache \ {file})
  /\ hirCache' = Restrict(hirCache, {p \in DOMAIN hirCache : file \notin Range(packages[p])})
  /\ UNCHANGED <<packages, stopped>>

Sorted(files) ==
  CHOOSE s \in Bijection(1 .. Cardinality(files), files) :
    \A i, j \in DOMAIN s : i < j => s[i] < s[j]

\* Sorted, without duplicates.
SetPackageFiles(package, files) ==
  LET sorted == Sorted(files)
  IN /\ package \in DOMAIN packages => packages[package] # sorted
     /\ packages' = [p \in DOMAIN packages \cup {package} |->
                       IF p = package THEN sorted ELSE packages[p]]
     /\ hirCache' = Restrict(hirCache, DOMAIN hirCache \ {package})
     /\ UNCHANGED <<sources, parseCache, stopped>>

CancelQueries == stopped' = TRUE /\ UNCHANGED <<sources, packages, parseCache, hirCache>>
ResetCancellation == stopped' = FALSE /\ UNCHANGED <<sources, packages, parseCache, hirCache>>

DatabaseInit ==
  sources = <<>> /\ packages = <<>> /\ parseCache = <<>> /\ hirCache = <<>> /\ stopped = FALSE

DatabaseNext ==
  \/ \E f \in Files : ParseQuery(f) \/ \E t \in SourceTexts : SetSource(f, t)
  \/ \E p \in Packages : Hir(p) \/ \E fs \in SUBSET Files : SetPackageFiles(p, fs)
  \/ CancelQueries \/ ResetCancellation

DatabaseSpec == DatabaseInit /\ [][DatabaseNext]_databaseVars

-----------------------------------------------------------------------------
\* What a database without caches would answer.
FreshParse(file) ==
  IF stopped THEN Cancelled
  ELSE IF file \in DOMAIN sources THEN CheckSource(file, sources[file].text)
  ELSE UnsetSource(file)

FreshAnswers(package) ==
  [i \in DOMAIN packages[package] |-> FreshParse(packages[package][i])]

FreshHir(package) ==
  IF stopped THEN CancelledHir
  ELSE IF package \in DOMAIN packages THEN BuildHir(packages[package], FreshAnswers(package))
  ELSE UnknownPackage

\* After any history of edits, membership changes, cancellations and
\* queries, with revisions that saturate, every query answers what a
\* database without caches would answer (parse, hir, set_source,
\* set_package_files).
AnswersFresh ==
  /\ \A f \in Files : ParseAnswer(f) = FreshParse(f)
  /\ \A p \in Packages : HirAnswer(p) = FreshHir(p)
=============================================================================
