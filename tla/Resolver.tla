------------------------------ MODULE Resolver ------------------------------
(***************************************************************************)
(* Package resolution and the use of its lockfile: resolve of              *)
(* crates/syllog-package/src/resolver.rs, write_lockfile and read_lockfile *)
(* of lockfile.rs, and load_locked_dependency_sources of                   *)
(* crates/syllog-cli/src/commands/mod.rs.                                  *)
(*                                                                         *)
(* Packages and versions are numbers (the code orders names and versions). *)
(* A requirement is the set of versions it matches, whether it is written  *)
(* with `=', and whether it can be parsed.  A release whose digest or      *)
(* paths are bad is sound = FALSE; two different records of one version    *)
(* are ambiguous.  An archive stands for its own digest.                   *)
(***************************************************************************)
EXTENDS Naturals, FiniteSets

CONSTANT
  Requests     \* [index: set of releases, manifest: package -> requirement,
               \*  offline] and, as the build finds them: [edited: the
               \*  manifest, format: of the lockfile, 0 if it cannot be read,
               \*  store: the archives that are not the ones resolved]

VARIABLES
  request,
  lock,        \* Syllog.lock: the result of resolve
  build        \* "none", "loaded" or "refused"

resolverVars == <<request, lock, build>>

-----------------------------------------------------------------------------
(***************************************************************************)
(* resolve.                                                                *)
(***************************************************************************)
Failure(kind, failed) == [kind |-> kind, selected |-> {}, failed |-> failed]

\* The constraints that the requirements of origin put on packages.
AddConstraints(origin, dependencies) ==
  {[on |-> n, origin |-> origin, req |-> dependencies[n]] : n \in DOMAIN dependencies}

\* VersionReq::parse takes every one of the requirements.
AllParse(dependencies) == \A n \in DOMAIN dependencies : dependencies[n].valid

Root == <<0, 0>>
Origin(r) == <<r.name, r.version>>
Active(constraints, name) == {c \in constraints : c.on = name}
Matches(active, version) == \A c \in active : version \in c.req.versions

\* A yanked release needs an exact requirement among the active ones.
Compatible(r, active) ==
  /\ Matches(active, r.version)
  /\ ~r.yanked \/ \E c \in active : c.req.exact

Releases(index, name) == {r \in index : r.name = name}
Ambiguous(releases) == \E r, s \in releases : r.version = s.version /\ r # s

CandidateCount(index, name, active, offline) ==
  Cardinality({r \in Releases(index, name) : Compatible(r, active) /\ (offline => r.cached)})

\* The package with the fewest candidates, the first by name among them.
NextPackage(index, open, constraints, offline) ==
  LET Count(n) == CandidateCount(index, n, Active(constraints, n), offline)
  IN CHOOSE n \in open : \A m \in open : Count(n) < Count(m) \/ (Count(n) = Count(m) /\ n <= m)

Newest(releases) == CHOOSE r \in releases : \A s \in releases : s.version <= r.version

\* What the search has selected, under which constraints.
SearchStates(r) ==
  LET constraints == AddConstraints(Root, r.manifest)
                     \cup UNION {AddConstraints(Origin(p), p.dependencies) : p \in r.index}
  IN (SUBSET r.index) \X (SUBSET constraints)

\* Mutant: only the newest release is tried.
OnlyNewest(untried, r) == {}

\* The loop goes on behind release r.
Older(untried, r) == untried \ {r}

\* The newest compatible release that leads to a solution.  untried are the
\* releases the loop has not come to, failed the states known to end in a
\* conflict.
Search(r) ==
  LET search[state \in SearchStates(r), untried \in SUBSET r.index,
             failed \in SUBSET SearchStates(r)] ==
        LET selected == state[1]
            constraints == state[2]
            open == {c.on : c \in constraints} \ {p.name : p \in selected}
            name == NextPackage(r.index, open, constraints, r.offline)
            releases == Releases(r.index, name)
            compatible == {p \in releases : Compatible(p, Active(constraints, name))}
            usable == {p \in compatible : r.offline => p.cached}
            next == Newest(usable \cap untried)
            with == search[<<selected \cup {next},
                             constraints \cup AddConstraints(Origin(next), next.dependencies)>>,
                           r.index, failed]
        IN IF state \in failed THEN Failure("conflict", failed)
           ELSE IF \E p \in selected : ~Matches(Active(constraints, p.name), p.version)
             THEN Failure("conflict", failed \cup {state})
           ELSE IF open = {} THEN [kind |-> "ok", selected |-> selected, failed |-> failed]
           ELSE IF Ambiguous(releases) THEN Failure("ambiguous", failed)
           ELSE IF compatible # {} /\ usable = {} THEN Failure("offline", failed)
           ELSE IF usable = {} THEN Failure("conflict", failed)
           ELSE IF usable \cap untried = {} THEN Failure("conflict", failed \cup {state})
           ELSE IF ~next.sound THEN Failure("corrupt", failed)
           ELSE IF ~AllParse(next.dependencies) THEN Failure("requirement", failed)
           ELSE IF with.kind = "conflict" THEN search[state, Older(untried, next), with.failed]
           ELSE with
  IN IF AllParse(r.manifest) THEN search[<<{}, AddConstraints(Root, r.manifest)>>, r.index, {}]
     ELSE Failure("requirement", {})

\* A locked package names the version selected for each of its dependencies.
Resolve(r) ==
  LET found == Search(r)
      Selected(n) == CHOOSE p \in found.selected : p.name = n
  IN [kind |-> found.kind,
      packages |-> {[name |-> p.name, version |-> p.version, checksum |-> p.archive,
                     dependencies |-> [d \in DOMAIN p.dependencies |-> Selected(d).version]]
                    : p \in found.selected}]

-----------------------------------------------------------------------------
(***************************************************************************)
(* Loading the locked packages for a build.                                *)
(***************************************************************************)
Entry(packages, name) == CHOOSE p \in packages : p.name = name
Names(packages) == {p.name : p \in packages}

\* validate_lock_graph: no package has two entries, direct dependencies are
\* there and satisfied, entries agree on the versions they depend on, and every
\* entry is reachable: no smaller set of entries holds the direct dependencies
\* and what its entries depend on.
AllReachable(packages, roots) ==
  \A S \in SUBSET Names(packages) :
    roots \cap Names(packages) \subseteq S
    /\ (\A p \in packages : p.name \in S => DOMAIN p.dependencies \subseteq S)
      => S = Names(packages)

\* Mutant: the requirements of the manifest are not compared.
ValidateIgnoringManifest(manifest, packages) ==
  /\ \A p, q \in packages : p.name = q.name => p = q
  /\ \A n \in DOMAIN manifest : n \in Names(packages)
  /\ \A p \in packages : \A d \in DOMAIN p.dependencies :
       d \in Names(packages) /\ Entry(packages, d).version = p.dependencies[d]
  /\ AllReachable(packages, DOMAIN manifest)

ValidateLockGraph(manifest, packages) ==
  /\ \A p, q \in packages : p.name = q.name => p = q
  /\ AllParse(manifest)
  /\ \A n \in DOMAIN manifest :
       n \in Names(packages) /\ Entry(packages, n).version \in manifest[n].versions
  /\ \A p \in packages : \A d \in DOMAIN p.dependencies :
       d \in Names(packages) /\ Entry(packages, d).version = p.dependencies[d]
  /\ AllReachable(packages, DOMAIN manifest)

\* What the build finds for entry p, in vendor/ if there is one and in the
\* cache otherwise.  It is not readable if it is absent, if its bytes are no
\* valid archive, or if a source in it is not UTF-8.
Found(store, p) ==
  IF p.name \in DOMAIN store THEN store[p.name] ELSE [readable |-> TRUE, archive |-> p.checksum]

\* verify_locked_archive: identity, digest and dependency metadata of archive.
VerifyLockedArchive(p, archive) ==
  /\ archive.name = p.name /\ archive.version = p.version
  /\ archive = p.checksum
  /\ DOMAIN archive.dependencies = DOMAIN p.dependencies
  /\ AllParse(archive.dependencies)
  /\ \A d \in DOMAIN p.dependencies : p.dependencies[d] \in archive.dependencies[d].versions

-----------------------------------------------------------------------------
ResolverInit == request \in Requests /\ lock = [kind |-> "none", packages |-> {}] /\ build = "none"

ResolveManifest ==
  /\ lock.kind = "none"
  /\ lock' = Resolve(request)
  /\ UNCHANGED <<request, build>>

\* The build reads the manifest, the lockfile and the archives as they are by
\* then.  A project without dependencies needs no lock.
LoadLocked ==
  /\ lock.kind = "ok" /\ build = "none"
  /\ build' = IF \/ DOMAIN request.edited = {}
                 \/ /\ request.format = 1
                    /\ ValidateLockGraph(request.edited, lock.packages)
                    /\ \A p \in lock.packages :
                         LET found == Found(request.store, p)
                         IN found.readable /\ VerifyLockedArchive(p, found.archive)
              THEN "loaded" ELSE "refused"
  /\ UNCHANGED <<request, lock>>

ResolverNext == ResolveManifest \/ LoadLocked
ResolverSpec == ResolverInit /\ [][ResolverNext]_resolverVars

-----------------------------------------------------------------------------
(***************************************************************************)
(* Reference: all solutions over the releases of the index.                *)
(***************************************************************************)
OnePerName(index) == {c \in SUBSET index : \A r, s \in c : r.name = s.name => r = s}

Satisfied(c, dependencies) ==
  \A n \in DOMAIN dependencies :
    \E r \in c : r.name = n /\ r.version \in dependencies[n].versions

IsSolution(manifest, c) ==
  Satisfied(c, manifest) /\ \A r \in c : Satisfied(c, r.dependencies)

\* The releases that were locked, and the archives a build has read.
LockedReleases ==
  {r \in request.index : \E p \in lock.packages : r.name = p.name /\ r.version = p.version}
LoadedArchives == {Found(request.store, p).archive : p \in lock.packages}

\* The resolver and the loader agree with the reference: a resolution is a
\* solution over sound releases.  A build reads the archives of just those,
\* and refuses only what changed since: the manifest, the lockfile, an
\* archive, or one that its index described wrongly.  A conflict means there
\* is no solution without yanked releases: the memo of failed states never
\* hides one (resolve, search, load_locked_dependency_sources).
ResolutionSound ==
  /\ lock.kind = "ok" =>
       /\ IsSolution(request.manifest, LockedReleases)
       /\ \A r \in LockedReleases : r.sound /\ (request.offline => r.cached)
       /\ build = "loaded" /\ DOMAIN request.edited # {} =>
            LoadedArchives = {r.archive : r \in LockedReleases}
       /\ build = "refused" =>
            \/ request.edited # request.manifest \/ request.format # 1
            \/ DOMAIN request.store \cap Names(lock.packages) # {}
            \/ \E r \in LockedReleases : r.archive.dependencies # r.dependencies
  /\ lock.kind = "conflict" =>
       ~\E c \in OnePerName({r \in request.index : ~r.yanked /\ (request.offline => r.cached)}) :
          IsSolution(request.manifest, c)

\* A build never uses a stale lockfile: what it loads satisfies the manifest
\* as edited since, and holds nothing the manifest does not need
\* (load_locked_dependency_sources).
LoadedSatisfiesManifest ==
  build = "loaded" /\ DOMAIN request.edited # {} =>
    /\ IsSolution(request.edited, LoadedArchives)
    /\ \A a \in LoadedArchives : ~IsSolution(request.edited, LoadedArchives \ {a})
=============================================================================
