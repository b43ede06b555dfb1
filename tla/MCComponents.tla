---------------------------- MODULE MCComponents ----------------------------
(***************************************************************************)
(* Small instances of the components around the pipeline and the package   *)
(* fetcher.  They share no state, so that one of them, chosen at the start *)
(* (active), runs while the others stay as they began.                     *)
(***************************************************************************)
EXTENDS TokenStream, PackageRegistry, ProviderRouting, QueryDatabase, Resolver,
        MCSandbox, AsyncTask, PackageLink, MCLowering

VARIABLE active

-----------------------------------------------------------------------------
(* Replies: a body cut off in a character, one with CR LF line ends, one   *)
(* with comments and a bad event, and two of a local model.                *)
Http(body) == [kind |-> "http", body |-> body, exit |-> "ok"]
Local(body, exit) == [kind |-> "local", body |-> body, exit |-> exit]
MCReplies ==
  {Http(<<"da", "ta:", "t1", "NL", "NL", "da", "ta:", "u1", "u2">>),
   Http(<<"da", "ta:", "t1", "NL", "CR", "NL", "da", "ta:", "DONE", "NL", "NL">>),
   Http(<<"junk", "NL", "da", "ta:", "meta", "NL", "NL", "da", "ta:", "u2", "NL">>),
   Local(<<"t1", "CR", "NL", "t2">>, "ok"),
   Local(<<"t1", "NL">>, "failed")}

-----------------------------------------------------------------------------
(* One publisher retrying, two publishers of the same version, one beside  *)
(* an edit of the manifest, or three edits of the manifest at once.        *)
MCPackage == <<"pkg">>
MCRequirement == [a \in Adders |-> [name |-> IF a = "a1" THEN "x" ELSE "y", range |-> a]]
MCSessions ==
  {[runs |-> [p \in Publishers |-> IF p = "p1" THEN 2 ELSE 0], adds |-> {}],
   [runs |-> [p \in Publishers |-> 1], adds |-> {}],
   [runs |-> [p \in Publishers |-> IF p = "p1" THEN 1 ELSE 0], adds |-> {"a1"}],
   [runs |-> [p \in Publishers |-> 0], adds |-> Adders]}

-----------------------------------------------------------------------------
(* Two adapters per provider name, one of them too new for the runtime.    *)
Adapter(name, major, minor, id) == [name |-> name, major |-> major, minor |-> minor, id |-> id]
MCAdapters ==
  {Adapter("x", 1, 0, 1), Adapter("x", 1, 1, 2), Adapter("y", 1, 2, 3), Adapter("y", 2, 0, 4)}
MCSupported == [major |-> 1, minor |-> 1]
MCRoutes == <<[name |-> "r1", provider |-> "y"], [name |-> "r2", provider |-> "x"]>>

-----------------------------------------------------------------------------
(* Package 1 depends on 2 and 3, 2 on 3; the newest release of 3 may be    *)
(* yanked, absent, damaged, described wrongly or published twice.  Between *)
(* resolution and build the manifest, the lockfile or an archive of 3 may  *)
(* change.                                                                 *)
AnyVersion == [versions |-> {1, 2}, exact |-> FALSE, valid |-> TRUE]
OldVersion == [AnyVersion EXCEPT !.versions = {1}]
ExactNew == [AnyVersion EXCEPT !.versions = {2}, !.exact = TRUE]
Garbled == [AnyVersion EXCEPT !.valid = FALSE]
Optional(name, requirements) == {<<>>} \cup {name :> q : q \in requirements}
PackageFiles(name, version, dependencies, files) ==
  [name |-> name, version |-> version, dependencies |-> dependencies, files |-> files]
Release(name, version, dependencies) ==
  [name |-> name, version |-> version, dependencies |-> dependencies,
   archive |-> PackageFiles(name, version, dependencies, "f"),
   yanked |-> FALSE, cached |-> TRUE, sound |-> TRUE]
NewThree == Release(3, 2, <<>>)
MCManifests == {1 :> AnyVersion, (1 :> AnyVersion) @@ (3 :> OldVersion)}
MCStores ==
  {<<>>, 3 :> [readable |-> FALSE, archive |-> NewThree.archive],
   3 :> [readable |-> TRUE, archive |-> PackageFiles(3, 1, <<>>, "g")]}
MCBuilds ==
  [edited : MCManifests \cup {<<>>, 1 :> OldVersion, 1 :> Garbled}, format : {1}, store : {<<>>}]
  \cup [edited : {1 :> AnyVersion}, format : {0, 1, 2}, store : MCStores]
MCRequests ==
  {[index |-> {Release(1, 1, one), Release(1, 2, two), Release(2, 1, one), Release(2, 2, new),
               Release(3, 1, <<>>)} \cup three,
    manifest |-> manifested, offline |-> offline,
    edited |-> found.edited, format |-> found.format, store |-> found.store] :
      one \in Optional(3, {ExactNew}),
      two \in {x @@ y : x \in Optional(2, {AnyVersion, OldVersion}), y \in Optional(3, {AnyVersion})},
      new \in Optional(3, {OldVersion, ExactNew, Garbled}),
      three \in {{NewThree}, {[NewThree EXCEPT !.yanked = TRUE]}, {[NewThree EXCEPT !.cached = FALSE]},
                 {[NewThree EXCEPT !.sound = FALSE]}, {NewThree, [NewThree EXCEPT !.yanked = TRUE]},
                 {[NewThree EXCEPT !.archive.dependencies = 2 :> AnyVersion]}},
      manifested \in MCManifests, offline \in BOOLEAN, found \in MCBuilds}

-----------------------------------------------------------------------------
(* Functions with up to three awaits, run through, cancelled or made to    *)
(* panic at each of them.                                                  *)
MCFunctions ==
  [parameters : {{}, {"p"}}, lets : {{}, {"x", "y"}}, borrowed : {{}, {"p"}}, awaits : 0 .. 3]
MCControls == {[kind |-> "run", await |-> 0]} \cup [kind : {"cancel", "panic"}, await : 0 .. 3]

-----------------------------------------------------------------------------
(* Packages of two sources that share a module or import from each other,  *)
(* and of three whose imports may close a cycle.                           *)
Item(name, public, members, locals) ==
  [name |-> name, public |-> public, members |-> members, locals |-> locals, signature |-> name]
Import(module, symbol, alias) == [module |-> module, symbol |-> symbol, alias |-> alias]
Source(file, module, items, imports) ==
  [file |-> file, module |-> module, items |-> items, imports |-> imports, untyped |-> FALSE]
MCItems == {<<Item("S", TRUE, 2, 0), Item("main", FALSE, 0, 1)>>, <<Item("S", FALSE, 1, 0)>>,
            <<Item("T", TRUE, 1, 2)>>, <<>>}
MCImports == {<<>>, <<Import(2, "S", "S")>>, <<Import(2, "S", "A"), Import(2, "T", "A")>>,
              <<Import(1, "T", "B")>>}
WithCycle == MCImports \cup {<<Import(3, "U", "U")>>}
MCSourceLists ==
  {<<Source(2, m, i, u), Source(1, n, j, v)>> :
      m \in {1, 2}, n \in {0, 1, 2}, i, j \in MCItems, u, v \in MCImports}
  \cup {<<Source(3, 3, <<Item("U", TRUE, 1, 1)>>, <<Import(m, "T", "T")>>),
          Source(1, 1, <<Item("T", TRUE, 1, 2)>>, u),
          Source(f, n, <<Item("T", TRUE, 1, 0), Item("S", TRUE, 1, 1)>>, v)>> :
            m \in {1, 2}, n \in {1, 2}, f \in {2, 3}, u, v \in WithCycle}
  \cup {<<>>, <<[Source(1, 1, <<>>, <<>>) EXCEPT !.untyped = TRUE]>>}

-----------------------------------------------------------------------------
(* A component that is not the active one rests in one of its states: an   *)
(* invocation that is over, or the first state of some input.              *)
StreamAtRest ==
  /\ reply = CHOOSE r \in Replies : TRUE
  /\ rest = <<>> /\ dec = Decoder /\ out = <<>> /\ fail = "none" /\ over = TRUE
  /\ transport = "done" /\ frames = <<>>
  /\ adapter = "done" /\ holding = "none" /\ error = "none" /\ wake = "none"
  /\ cancelled = FALSE /\ notify = FALSE
  /\ tokens = <<>> /\ open = FALSE /\ got = <<>> /\ ended = FALSE
  /\ expired = TRUE /\ late = 0
RegistryAtRest ==
  /\ authorized = {} /\ usedNonces = {} /\ releases = <<>> /\ accepted = {}
  /\ client = [p \in Publishers |-> Idle(0)]
  /\ edit = [a \in Adders |-> [at |-> "failed", document |-> <<>>, seen |-> {}]]
  /\ inFlight = {} /\ manifest = <<>> /\ overtaken = {}
ResolverAtRest ==
  /\ request = [index |-> {}, manifest |-> <<>>, edited |-> <<>>, offline |-> TRUE,
                format |-> 1, store |-> <<>>]
  /\ lock = [kind |-> "none", packages |-> {}] /\ build = "none"
SandboxAtRest ==
  /\ program = (CHOOSE p \in Programs : TRUE)
  /\ artifact = (CHOOSE a \in Artifacts : TRUE) /\ policy = (CHOOSE p \in Policies : TRUE)
  /\ SandboxInit
TaskAtRest ==
  /\ function = (CHOOSE f \in Functions : TRUE) /\ control = (CHOOSE c \in Controls : TRUE)
  /\ TaskInit
LinkAtRest == listed = <<>> /\ linked = [ok |-> FALSE, modules |-> <<>>, done |-> FALSE]
LowerAtRest == source = 0 /\ Loaded([functions |-> <<>>, entry |-> 0], Ended("invalid"))

Init ==
  /\ active \in {"stream", "registry", "routing", "database", "resolver",
                "sandbox", "task", "link", "lowering"}
  /\ RoutingInit /\ DatabaseInit
  /\ IF active = "stream" THEN StreamInit ELSE StreamAtRest
  /\ IF active = "registry" THEN RegistryInit ELSE RegistryAtRest
  /\ IF active = "task" THEN TaskInit ELSE TaskAtRest
  /\ IF active = "sandbox" THEN SandboxInit ELSE SandboxAtRest
  /\ IF active = "resolver" THEN ResolverInit ELSE ResolverAtRest
  /\ IF active = "link" THEN LinkInit ELSE LinkAtRest
  /\ IF active = "lowering" THEN LowerInit ELSE LowerAtRest

\* Only the active component takes steps.
OthersRest ==
  /\ UNCHANGED active
  /\ IF active = "stream" THEN TRUE ELSE UNCHANGED streamVars
  /\ IF active = "registry" THEN TRUE ELSE UNCHANGED registryVars
  /\ IF active = "routing" THEN TRUE ELSE UNCHANGED routingVars
  /\ IF active = "database" THEN TRUE ELSE UNCHANGED databaseVars
  /\ IF active = "resolver" THEN TRUE ELSE UNCHANGED resolverVars
  /\ IF active = "sandbox" THEN TRUE ELSE UNCHANGED sandboxVars
  /\ IF active = "task" THEN TRUE ELSE UNCHANGED taskVars
  /\ IF active = "link" THEN TRUE ELSE UNCHANGED linkVars
  /\ IF active = "lowering" THEN TRUE ELSE UNCHANGED lowerVars

Next ==
  \/ active = "stream" /\ StreamNext /\ OthersRest
  \/ active = "registry" /\ RegistryNext /\ OthersRest
  \/ active = "routing" /\ RoutingNext /\ OthersRest
  \/ active = "database" /\ DatabaseNext /\ OthersRest
  \/ active = "resolver" /\ ResolverNext /\ OthersRest
  \/ active = "sandbox" /\ SandboxNext /\ OthersRest
  \/ active = "task" /\ TaskNext /\ OthersRest
  \/ active = "link" /\ Link /\ OthersRest
  \/ active = "lowering" /\ LowerNext /\ OthersRest

vars == <<active, streamVars, registryVars, routingVars, databaseVars, resolverVars, sandboxVars,
          taskVars, linkVars, lowerVars>>

Spec == Init /\ [][Next]_vars /\ StreamFairness
=============================================================================
