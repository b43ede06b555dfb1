-------------------------- MODULE PackageRegistry ---------------------------
(***************************************************************************)
(* Publication of packages: LocalRegistry and signed requests of           *)
(* crates/syllog-registry-client/src/lib.rs, HttpRegistryClient::publish   *)
(* of transport.rs, and the commands that run beside each other in one     *)
(* project, `syllog publish` (commands/publish.rs) and `syllog add`        *)
(* (commands/add.rs), which edits the manifest that publish packs.         *)
(*                                                                         *)
(* The network between client and registry loses, delays and repeats       *)
(* requests and loses replies; the client gives up after its timeout and   *)
(* the user may run the command again with the same or another nonce.      *)
(* Checksums and signatures are modelled as injective: a checksum is the   *)
(* archive it was computed from, a signature the key and the signed bytes. *)
(***************************************************************************)
EXTENDS Functions, Naturals, Sequences

CONSTANTS
  Publishers,  \* invocations of `syllog publish`, each with its own signing key
  Package,     \* name of the project's package: its words between hyphens
  Versions, Nonces,
  Adders,      \* invocations of `syllog add`
  Requirement, \* the dependency an invocation adds: [name, range]
  Sessions     \* bound: how often the user runs each publish, and which adds

ASSUME RegistryAssumption ==
  /\ DOMAIN Requirement = Adders
  /\ \A s \in Sessions : s.runs \in [Publishers -> Nat] /\ s.adds \subseteq Adders

VARIABLES
  authorized,  \* pairs of namespace and key
  usedNonces,  \* pairs of namespace and nonce
  releases,    \* name and version to stored release
  accepted,    \* history: the requests publish accepted
  client,      \* per publisher: control point, manifest read, request, reply
  inFlight,    \* requests in the network
  manifest,    \* dependencies of Syllog.toml, by name
  edit,        \* per adder: control point and the edited document
  overtaken    \* history: adders replaced by a document read before their edit

registryVars == <<authorized, usedNonces, releases, accepted, client, inFlight, manifest,
                  edit, overtaken>>
publishVars == <<authorized, usedNonces, releases, accepted, client, inFlight>>
addVars == <<manifest, edit, overtaken>>

ProtocolVersion == 1
NoReply == [kind |-> "none"]

-----------------------------------------------------------------------------
(***************************************************************************)
(* Archives and signed requests.                                           *)
(***************************************************************************)
Checksum(archive) == archive

\* assemble: name, version and dependencies of the manifest parsed by
\* discover; the manifest file is read a second time.  The sources are edited
\* between publications: no two publishers pack the same.
PackageArchive(p, version, dependencies, file) ==
  [name |-> Package, version |-> version, dependencies |-> dependencies, files |-> <<file, p>>]

SigningBytes(r) == [f \in {"protocol", "namespace", "key", "nonce", "checksum", "archive"} |-> r[f]]

Sign(namespace, key, nonce, archive) ==
  LET unsigned == [protocol |-> ProtocolVersion, namespace |-> namespace, key |-> key,
                   nonce |-> nonce, checksum |-> Checksum(archive), archive |-> archive,
                   signature |-> <<>>]
  IN [unsigned EXCEPT !.signature = <<key, SigningBytes(unsigned)>>]

VerifySignature(r) == r.signature = <<r.key, SigningBytes(r)>>

-----------------------------------------------------------------------------
(***************************************************************************)
(* LocalRegistry.                                                          *)
(***************************************************************************)
ReleaseKey(archive) == <<archive.name, archive.version>>

\* A namespace owns the package of its name and every name-*.
InNamespace(r) ==
  /\ Len(r.namespace) <= Len(r.archive.name)
  /\ SubSeq(r.archive.name, 1, Len(r.namespace)) = r.namespace

Accepts(r) ==
  /\ r.protocol = ProtocolVersion
  /\ r.checksum = Checksum(r.archive)
  /\ InNamespace(r)
  /\ <<r.namespace, r.key>> \in authorized
  /\ <<r.namespace, r.nonce>> \notin usedNonces
  /\ ReleaseKey(r.archive) \notin DOMAIN releases
  /\ VerifySignature(r)

Receipt(r) == [kind |-> "receipt", name |-> r.archive.name, version |-> r.archive.version,
               checksum |-> r.checksum]

StoreRelease(r) ==
  /\ releases' = [k \in DOMAIN releases \cup {ReleaseKey(r.archive)} |->
                   IF k = ReleaseKey(r.archive) THEN [archive |-> r.archive, yanked |-> FALSE]
                   ELSE releases[k]]
  /\ usedNonces' = usedNonces \cup {<<r.namespace, r.nonce>>}
  /\ accepted' = accepted \cup {r}

\* Mutant: the receipt is sent once the signature is verified.
PublishAnsweringEarly(p, r) ==
  /\ <<p, r>> \in inFlight
  /\ \/ Accepts(r) /\ StoreRelease(r)
     \/ ~Accepts(r) /\ UNCHANGED <<releases, usedNonces, accepted>>
  /\ inFlight' \in {inFlight, inFlight \ {<<p, r>>}}
  /\ client' \in {client, [client EXCEPT ![p].reply = IF VerifySignature(r) THEN Receipt(r)
                                                    ELSE [kind |-> "refused"]]}
  /\ UNCHANGED <<authorized, addVars>>

\* A request arrives.  It may arrive again later; the reply reaches the
\* client if it still waits on this request and nothing is lost.
Publish(p, r) ==
  /\ <<p, r>> \in inFlight
  /\ \/ Accepts(r) /\ StoreRelease(r)
     \/ ~Accepts(r) /\ UNCHANGED <<releases, usedNonces, accepted>>
  /\ inFlight' \in {inFlight, inFlight \ {<<p, r>>}}
  /\ LET answer == IF Accepts(r) THEN Receipt(r) ELSE [kind |-> "refused"]
         waits == client[p].at = "sent" /\ client[p].request = r /\ client[p].reply = NoReply
     IN client' \in {client} \cup
                    (IF waits THEN {[client EXCEPT ![p].reply = answer]} ELSE {})
  /\ UNCHANGED <<authorized, addVars>>

Authorize(key) ==
  /\ authorized' = authorized \cup {<<Package, key>>}
  /\ UNCHANGED <<usedNonces, releases, accepted, client, inFlight, addVars>>

\* Mutant: a yanked release is removed.
YankRemoving(k) ==
  /\ k \in DOMAIN releases
  /\ releases' = Restrict(releases, DOMAIN releases \ {k})
  /\ UNCHANGED <<authorized, usedNonces, accepted, client, inFlight, addVars>>

Yank(k) ==
  /\ k \in DOMAIN releases
  /\ releases' = [releases EXCEPT ![k].yanked = TRUE]
  /\ UNCHANGED <<authorized, usedNonces, accepted, client, inFlight, addVars>>

-----------------------------------------------------------------------------
(***************************************************************************)
(* `syllog publish`.                                                       *)
(***************************************************************************)
Idle(n) == [at |-> "idle", read |-> <<>>, request |-> <<>>, reply |-> NoReply, runs |-> n]

\* discover parses the manifest; the version is part of it.
Discover(p) ==
  /\ client[p].at \in {"idle", "failed"} /\ client[p].runs > 0
  /\ client' = [client EXCEPT ![p] = [at |-> "assemble", read |-> manifest, request |-> <<>>,
                                      reply |-> NoReply, runs |-> client[p].runs - 1]]
  /\ UNCHANGED <<authorized, usedNonces, releases, accepted, inFlight, addVars>>

\* The rest of assemble, then sign with the nonce the user gave.
Assemble(p) ==
  /\ client[p].at = "assemble"
  /\ \E v \in Versions, n \in Nonces :
       client' = [client EXCEPT ![p].at = "signed",
                    ![p].request = Sign(Package, p, n, PackageArchive(p, v, client[p].read, manifest))]
  /\ UNCHANGED <<authorized, usedNonces, releases, accepted, inFlight, addVars>>

\* A file cannot be read, or the provenance names another checksum.
AssembleFails(p) ==
  /\ client[p].at = "assemble"
  /\ client' = [client EXCEPT ![p].at = "failed"]
  /\ UNCHANGED <<authorized, usedNonces, releases, accepted, inFlight, addVars>>

\* What arrives may differ from what was signed: another nonce, or a damaged
\* checksum.
Posted(r) == {r, [r EXCEPT !.checksum = <<>>]} \cup {[r EXCEPT !.nonce = n] : n \in Nonces}

Post(p) ==
  /\ client[p].at = "signed"
  /\ \E r \in Posted(client[p].request) :
       /\ client' = [client EXCEPT ![p].at = "sent", ![p].request = r]
       /\ inFlight' = inFlight \cup {<<p, r>>}
  /\ UNCHANGED <<authorized, usedNonces, releases, accepted, addVars>>

\* The receipt must name the package, version and checksum that were sent.
ReceiptMatches(p) == client[p].reply = Receipt(client[p].request)

TakeReply(p) ==
  /\ client[p].at = "sent" /\ client[p].reply # NoReply
  /\ client' = [client EXCEPT ![p].at = IF ReceiptMatches(p) THEN "published" ELSE "failed"]
  /\ UNCHANGED <<authorized, usedNonces, releases, accepted, inFlight, addVars>>

\* The client's timeout, or a broken connection.  The request may still
\* arrive.
GiveUp(p) ==
  /\ client[p].at = "sent" /\ client[p].reply = NoReply
  /\ client' = [client EXCEPT ![p].at = "failed"]
  /\ UNCHANGED <<authorized, usedNonces, releases, accepted, inFlight, addVars>>

Lose(p, r) ==
  /\ <<p, r>> \in inFlight
  /\ inFlight' = inFlight \ {<<p, r>>}
  /\ UNCHANGED <<authorized, usedNonces, releases, accepted, client, addVars>>

-----------------------------------------------------------------------------
(***************************************************************************)
(* `syllog add`.                                                           *)
(***************************************************************************)
With(document, requirement) ==
  [n \in DOMAIN document \cup {requirement.name} |->
     IF n = requirement.name THEN requirement.range ELSE document[n]]

\* Reads the manifest and edits the document in memory.
AddRead(a) ==
  /\ edit[a].at = "idle"
  /\ edit' = [edit EXCEPT ![a] = [at |-> "staged", document |-> With(manifest, Requirement[a]),
                                  seen |-> {b \in Adders : edit[b].at = "done"}]]
  /\ UNCHANGED <<publishVars, manifest, overtaken>>

\* Mutant: the edit starts from an empty document.
AddPersistFresh(a) ==
  /\ edit[a].at = "staged"
  /\ manifest' = With(<<>>, Requirement[a])
  /\ edit' = [edit EXCEPT ![a].at = "done"]
  /\ overtaken' = overtaken \cup ({b \in Adders : edit[b].at = "done"} \ edit[a].seen)
  /\ UNCHANGED publishVars

\* The staged file replaces the manifest in one rename.
AddPersist(a) ==
  /\ edit[a].at = "staged"
  /\ manifest' = edit[a].document
  /\ edit' = [edit EXCEPT ![a].at = "done"]
  /\ overtaken' = overtaken \cup ({b \in Adders : edit[b].at = "done"} \ edit[a].seen)
  /\ UNCHANGED publishVars

\* Staging or the rename fails, or the process dies: the manifest keeps its
\* content, the temporary file is no part of the project.
AddFails(a) ==
  /\ edit[a].at \in {"idle", "staged"}
  /\ edit' = [edit EXCEPT ![a].at = "failed"]
  /\ UNCHANGED <<publishVars, manifest, overtaken>>

-----------------------------------------------------------------------------
RegistryInit ==
  /\ authorized = {} /\ usedNonces = {} /\ releases = <<>> /\ accepted = {}
  /\ \E s \in Sessions :
       /\ client = [p \in Publishers |-> Idle(s.runs[p])]
       /\ edit = [a \in Adders |-> [at |-> IF a \in s.adds THEN "idle" ELSE "failed",
                                   document |-> <<>>, seen |-> {}]]
  /\ inFlight = {}
  /\ manifest = <<>>
  /\ overtaken = {}

RegistryNext ==
  \/ \E p \in Publishers : Discover(p) \/ Assemble(p) \/ AssembleFails(p) \/ Post(p)
                           \/ TakeReply(p) \/ GiveUp(p) \/ Authorize(p)
  \/ \E m \in inFlight : Publish(m[1], m[2]) \/ Lose(m[1], m[2])
  \/ \E k \in DOMAIN releases : Yank(k)
  \/ \E a \in Adders : AddRead(a) \/ AddPersist(a) \/ AddFails(a)

RegistrySpec == RegistryInit /\ [][RegistryNext]_registryVars

-----------------------------------------------------------------------------
(***************************************************************************)
(* Properties.                                                             *)
(***************************************************************************)
\* A stored release is final: no later publication, replay or yank changes
\* its archive, removes it, or takes a yank back (publish, yank).
ReleasesImmutable ==
  [][\A k \in DOMAIN releases :
       /\ k \in DOMAIN releases'
       /\ releases'[k].archive = releases[k].archive
       /\ releases[k].yanked => releases'[k].yanked]_registryVars

\* A publish command that reported success is right, whatever was lost,
\* repeated or published since: the registry holds the archive it assembled
\* under its name and version (publish, execute_remote).
ReceiptHonoured ==
  \A p \in Publishers : client[p].at = "published" =>
    /\ ReleaseKey(client[p].request.archive) \in DOMAIN releases
    /\ releases[ReleaseKey(client[p].request.archive)].archive = client[p].request.archive

\* Delivering a request again, or running the command again with its nonce,
\* publishes nothing more: a nonce is accepted once, for one archive, and
\* every stored archive came in a signed, accepted request (publish).
NonceAcceptedOnce ==
  /\ \A r, s \in accepted : r.namespace = s.namespace /\ r.nonce = s.nonce => r = s
  /\ \A k \in DOMAIN releases :
       \E r \in accepted : r.archive = releases[k].archive /\ VerifySignature(r)

\* Editing the manifest loses nothing but what two overlapping edits lose: a
\* finished add is in the manifest unless a command that had read the
\* manifest before it replaced it after, or another add names the same
\* package (add.rs execute).
AddsKept ==
  \A a \in Adders : edit[a].at = "done" =>
    \/ a \in overtaken
    \/ /\ Requirement[a].name \in DOMAIN manifest
       /\ \/ manifest[Requirement[a].name] = Requirement[a].range
          \/ \E b \in Adders \ {a} : /\ edit[b].at = "done"
                                     /\ Requirement[b].name = Requirement[a].name
                                     /\ manifest[Requirement[a].name] = Requirement[b].range
=============================================================================
