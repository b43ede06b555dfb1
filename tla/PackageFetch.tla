---------------------------- MODULE PackageFetch ----------------------------
(***************************************************************************)
(* Fetching locked packages into the content-addressed cache and using     *)
(* them offline: `syllog fetch' (crates/syllog-cli/src/commands/fetch.rs)  *)
(* over download_resumable of HttpRegistryClient                           *)
(* (crates/syllog-registry-client/src/transport.rs), store and load of     *)
(* ContentAddressedCache (crates/syllog-package/src/cache.rs), and         *)
(* `syllog vendor' (crates/syllog-cli/src/commands/vendor.rs).             *)
(*                                                                         *)
(* Fetchers are processes that share one project directory.  A file is an  *)
(* inode: a process that has `.part' open keeps writing to it after        *)
(* another one renamed it.  An archive is the sequence of its chunks; a    *)
(* chunk is its number, 0 a chunk that is not as it was published.  The    *)
(* SHA-256 digest of contents stands for the contents, so verifying a      *)
(* digest compares them.                                                   *)
(***************************************************************************)
EXTENDS Naturals, Sequences, FiniteSets

CONSTANTS
  Fetchers,   \* processes that run `syllog fetch'
  Locked,     \* the lockfile: the sequence of its packages' checksums
  Size,       \* number of chunks of every archive
  Inodes,     \* bound: numbers of the inodes of the disk
  Ranges,     \* whether the registry may honour and may ignore Range headers
  MaxFaults   \* bound on crashes and failures of the network and the registry

Checksums == {Locked[k] : k \in DOMAIN Locked}

ASSUME FetchAssumption ==
  /\ Len(Locked) \in Nat /\ DOMAIN Locked = 1 .. Len(Locked)
  /\ Size \in Nat \ {0} /\ MaxFaults \in Nat
  /\ Inodes \subseteq Nat \ {0}
  /\ Ranges \subseteq BOOLEAN /\ Ranges # {}

\* The chunks of every archive; which archive they belong to is told by where
\* they are.
Body == [k \in 1 .. Size |-> k]

NoFile == 0

VARIABLES
  file,     \* contents of each inode
  part,     \* the inode at the `.part' path of each checksum, or NoFile
  cached,   \* the inode at the cache path of each checksum, or NoFile
  pc,       \* control point of each fetcher
  at,       \* position in the lockfile
  offset,   \* length of `.part' when the request was made
  body,     \* chunks of the response not yet written
  append,   \* whether the response continues `.part'
  fd,       \* the open inode
  pos,      \* where the next chunk goes unless appending
  vendor,   \* `syllog vendor': the contents staged, or published
  ranges,   \* whether the registry honours Range headers
  faults    \* crashes and failures so far

fetchVars == <<pc, at, offset, body, append, fd, pos>>
vars == <<file, part, cached, fetchVars, vendor, ranges, faults>>

Chunks == 0 .. Size

Contents(i) == IF i = NoFile THEN <<>> ELSE file[i]

\* verify: the digest of the contents is the locked one.
Verified(i) == Contents(i) = Body

\* Values keep their types; no `.part' path is also a cache path.
TypeOK ==
  /\ file \in [Inodes -> Seq(Chunks)]
  /\ part \in [Checksums -> Inodes \cup {NoFile}]
  /\ cached \in [Checksums -> Inodes \cup {NoFile}]
  /\ \A c, d \in Checksums : part[c] # NoFile => part[c] # cached[d]
  /\ pc \in [Fetchers -> {"next", "offset", "request", "stream", "verify", "rename", "load",
                          "ok", "failed"}]
  /\ at \in [Fetchers -> 1 .. Len(Locked) + 1]
  /\ offset \in [Fetchers -> Nat] /\ pos \in [Fetchers -> Nat]
  /\ body \in [Fetchers -> Seq(Chunks)]
  /\ append \in [Fetchers -> BOOLEAN]
  /\ fd \in [Fetchers -> Inodes \cup {NoFile}]
  /\ vendor.state \in {"idle", "staging", "published", "failed"}
  /\ vendor.staged \in Seq(Seq(Chunks))
  /\ ranges \in BOOLEAN /\ faults \in 0 .. MaxFaults

Init ==
  /\ file = [i \in Inodes |-> <<>>]
  /\ part = [c \in Checksums |-> NoFile]
  /\ cached = [c \in Checksums |-> NoFile]
  /\ pc = [f \in Fetchers |-> "next"]
  /\ at = [f \in Fetchers |-> 1]
  /\ offset = [f \in Fetchers |-> 0] /\ pos = [f \in Fetchers |-> 0]
  /\ body = [f \in Fetchers |-> <<>>]
  /\ append = [f \in Fetchers |-> FALSE]
  /\ fd = [f \in Fetchers |-> NoFile]
  /\ vendor = [state |-> "idle", staged |-> <<>>]
  /\ ranges \in Ranges
  /\ faults = 0

-----------------------------------------------------------------------------
(* fetch: for every locked package.                                        *)

Wanted(f) == Locked[at[f]]

Goto(f, point) == pc' = [pc EXCEPT ![f] = point]

\* Nothing is left to fetch.
AllFetched(f) ==
  /\ pc[f] = "next"
  /\ at[f] > Len(Locked)
  /\ Goto(f, "ok")
  /\ UNCHANGED <<file, part, cached, at, offset, body, append, fd, pos, vendor, ranges, faults>>

\* destination.exists(): load re-verifies, and a mismatch ends the command.
CacheHit(f) ==
  /\ pc[f] = "next"
  /\ at[f] <= Len(Locked)
  /\ cached[Wanted(f)] # NoFile
  /\ IF Verified(cached[Wanted(f)])
     THEN at' = [at EXCEPT ![f] = @ + 1] /\ UNCHANGED pc
     ELSE Goto(f, "failed") /\ UNCHANGED at
  /\ UNCHANGED <<file, part, cached, offset, body, append, fd, pos, vendor, ranges, faults>>

\* A fetch that takes `.part' for a download in progress.
CacheMissUnlessPartial(f) ==
  /\ pc[f] = "next"
  /\ at[f] <= Len(Locked)
  /\ cached[Wanted(f)] = NoFile
  /\ Goto(f, IF part[Wanted(f)] = NoFile THEN "offset" ELSE "failed")
  /\ UNCHANGED <<file, part, cached, at, offset, body, append, fd, pos, vendor, ranges, faults>>

\* The package has to be downloaded.
CacheMiss(f) ==
  /\ pc[f] = "next"
  /\ at[f] <= Len(Locked)
  /\ cached[Wanted(f)] = NoFile
  /\ Goto(f, "offset")
  /\ UNCHANGED <<file, part, cached, at, offset, body, append, fd, pos, vendor, ranges, faults>>

\* download_resumable: the length of `.part', 0 when there is none.
ReadOffset(f) ==
  /\ pc[f] = "offset"
  /\ offset' = [offset EXCEPT ![f] = Len(Contents(part[Wanted(f)]))]
  /\ Goto(f, "request")
  /\ UNCHANGED <<file, part, cached, at, body, append, fd, pos, vendor, ranges, faults>>

Resumable(f) == ranges /\ offset[f] > 0

\* The registry cannot satisfy the range: status_error, and `.part' stays.
RangeNotSatisfiable(f) ==
  /\ pc[f] = "request"
  /\ Resumable(f) /\ offset[f] >= Size
  /\ Goto(f, "failed")
  /\ UNCHANGED <<file, part, cached, at, offset, body, append, fd, pos, vendor, ranges, faults>>

\* The inodes no path and no process refers to.
FreeInodes == {i \in Inodes : /\ \A c \in Checksums : i \notin {part[c], cached[c]}
                              /\ \A f \in Fetchers : fd[f] # i}

FreeInode == CHOOSE i \in FreeInodes : TRUE

\* write_response opens `.part': it is created when missing, and truncated
\* unless the response continues it.
Open(f, continues) ==
  LET there == part[Wanted(f)]
      i == IF there = NoFile THEN FreeInode ELSE there
  IN  /\ there = NoFile => FreeInodes # {}
      /\ fd' = [fd EXCEPT ![f] = i]
      /\ part' = [part EXCEPT ![Wanted(f)] = i]
      /\ file' = [file EXCEPT ![i] = IF continues /\ there # NoFile THEN @ ELSE <<>>]
      /\ append' = [append EXCEPT ![f] = continues]
      /\ pos' = [pos EXCEPT ![f] = 0]

\* A client that appends whenever it asked for a range.
RespondAppending(f) ==
  /\ pc[f] = "request"
  /\ Resumable(f) => offset[f] < Size
  /\ Open(f, offset[f] > 0)
  /\ body' = [body EXCEPT ![f] = IF Resumable(f) THEN SubSeq(Body, offset[f] + 1, Size) ELSE Body]
  /\ Goto(f, "stream")
  /\ UNCHANGED <<cached, at, offset, vendor, ranges, faults>>

\* 206 continues at the offset; 200 is the whole archive.
Respond(f) ==
  /\ pc[f] = "request"
  /\ Resumable(f) => offset[f] < Size
  /\ Open(f, Resumable(f))
  /\ body' = [body EXCEPT ![f] = IF Resumable(f) THEN SubSeq(Body, offset[f] + 1, Size) ELSE Body]
  /\ Goto(f, "stream")
  /\ UNCHANGED <<cached, at, offset, vendor, ranges, faults>>

\* write_all at the position, or at the end of the file in append mode.
WriteAt(s, p, chunk) ==
  [k \in 1 .. (IF Len(s) > p THEN Len(s) ELSE p + 1) |->
     IF k = p + 1 THEN chunk ELSE IF k <= Len(s) THEN s[k] ELSE 0]

WriteChunk(f) ==
  /\ pc[f] = "stream"
  /\ body[f] # <<>>
  /\ file' = [file EXCEPT ![fd[f]] =
                WriteAt(@, IF append[f] THEN Len(@) ELSE pos[f], Head(body[f]))]
  /\ pos' = [pos EXCEPT ![f] = @ + 1]
  /\ body' = [body EXCEPT ![f] = Tail(@)]
  /\ UNCHANGED <<part, cached, pc, at, offset, append, fd, vendor, ranges, faults>>

\* The end of the stream: sync_all.
Sync(f) ==
  /\ pc[f] = "stream"
  /\ body[f] = <<>>
  /\ fd' = [fd EXCEPT ![f] = NoFile]
  /\ Goto(f, "verify")
  /\ UNCHANGED <<file, part, cached, at, offset, body, append, pos, vendor, ranges, faults>>

\* A download that trusts the length.
VerifyLength(f) ==
  /\ pc[f] = "verify"
  /\ Goto(f, IF Len(Contents(part[Wanted(f)])) = Size THEN "rename" ELSE "failed")
  /\ UNCHANGED <<file, part, cached, at, offset, body, append, fd, pos, vendor, ranges, faults>>

\* verify_partial reads the path again.
VerifyPartial(f) ==
  /\ pc[f] = "verify"
  /\ Goto(f, IF Verified(part[Wanted(f)]) THEN "rename" ELSE "failed")
  /\ UNCHANGED <<file, part, cached, at, offset, body, append, fd, pos, vendor, ranges, faults>>

\* rename replaces the destination; it fails when `.part' is gone.
Rename(f) ==
  LET c == Wanted(f) IN
  /\ pc[f] = "rename"
  /\ IF part[c] = NoFile
     THEN Goto(f, "failed") /\ UNCHANGED <<part, cached>>
     ELSE /\ cached' = [cached EXCEPT ![c] = part[c]]
          /\ part' = [part EXCEPT ![c] = NoFile]
          /\ Goto(f, "load")
  /\ UNCHANGED <<file, at, offset, body, append, fd, pos, vendor, ranges, faults>>

\* cache.load after the download.
LoadDownloaded(f) ==
  /\ pc[f] = "load"
  /\ IF Verified(cached[Wanted(f)])
     THEN at' = [at EXCEPT ![f] = @ + 1] /\ Goto(f, "next")
     ELSE Goto(f, "failed") /\ UNCHANGED at
  /\ UNCHANGED <<file, part, cached, offset, body, append, fd, pos, vendor, ranges, faults>>

\* The user runs the command again after a failure.
Rerun(f) ==
  /\ pc[f] = "failed"
  /\ Goto(f, "next")
  /\ at' = [at EXCEPT ![f] = 1]
  /\ UNCHANGED <<file, part, cached, offset, body, append, fd, pos, vendor, ranges, faults>>

-----------------------------------------------------------------------------
(* Faults.                                                                 *)

\* A chunk arrives damaged.
DamageChunk(f) ==
  /\ pc[f] = "stream"
  /\ body[f] # <<>> /\ Head(body[f]) # 0
  /\ faults < MaxFaults
  /\ faults' = faults + 1
  /\ body' = [body EXCEPT ![f] = <<0>> \o Tail(@)]
  /\ UNCHANGED <<file, part, cached, pc, at, offset, append, fd, pos, vendor, ranges>>

\* The command is killed, the connection breaks, the registry answers with an
\* error status or with another range than the one asked for: the command
\* ends and whatever was written stays.
Fail(f) ==
  /\ pc[f] \notin {"ok", "failed"}
  /\ faults < MaxFaults
  /\ faults' = faults + 1
  /\ Goto(f, "failed")
  /\ fd' = [fd EXCEPT ![f] = NoFile]
  /\ body' = [body EXCEPT ![f] = <<>>]
  /\ UNCHANGED <<file, part, cached, at, offset, append, pos, vendor, ranges>>

-----------------------------------------------------------------------------
(* vendor: stage every locked package from the cache, then publish.        *)

VendorStart ==
  /\ vendor.state \in {"idle", "failed"}
  /\ vendor' = [state |-> "staging", staged |-> <<>>]
  /\ UNCHANGED <<file, part, cached, fetchVars, ranges, faults>>

\* A vendor that skips what the cache does not have.
VendorSkipping ==
  LET k == Len(vendor.staged) + 1 IN
  /\ vendor.state = "staging"
  /\ k <= Len(Locked)
  /\ vendor' = [vendor EXCEPT !.staged = Append(@, Contents(cached[Locked[k]]))]
  /\ UNCHANGED <<file, part, cached, fetchVars, ranges, faults>>

\* load the next package; a missing or damaged one ends the command.
VendorPackage ==
  LET k == Len(vendor.staged) + 1
      i == cached[Locked[k]]
  IN
  /\ vendor.state = "staging"
  /\ k <= Len(Locked)
  /\ vendor' = IF i # NoFile /\ Verified(i)
               THEN [vendor EXCEPT !.staged = Append(@, Contents(i))]
               ELSE [state |-> "failed", staged |-> <<>>]
  /\ UNCHANGED <<file, part, cached, fetchVars, ranges, faults>>

\* The staging directory is renamed to vendor/, which is never overwritten.
VendorPublish ==
  /\ vendor.state = "staging"
  /\ Len(vendor.staged) = Len(Locked)
  /\ vendor' = [vendor EXCEPT !.state = "published"]
  /\ UNCHANGED <<file, part, cached, fetchVars, ranges, faults>>

\* The command is killed: what it staged is not at vendor/.
VendorKilled ==
  /\ vendor.state = "staging"
  /\ faults < MaxFaults
  /\ faults' = faults + 1
  /\ vendor' = [state |-> "failed", staged |-> <<>>]
  /\ UNCHANGED <<file, part, cached, fetchVars, ranges>>

-----------------------------------------------------------------------------
(* ContentAddressedCache::store, for callers of the library.  Only verified *)
(* contents reach the destination, in a file of their own, and never over   *)
(* an existing one.                                                         *)

Store(c) ==
  /\ cached[c] = NoFile /\ FreeInodes # {}
  /\ cached' = [cached EXCEPT ![c] = FreeInode]
  /\ file' = [file EXCEPT ![FreeInode] = Body]
  /\ UNCHANGED <<part, fetchVars, vendor, ranges, faults>>

-----------------------------------------------------------------------------
FetchStep(f) ==
  \/ AllFetched(f) \/ CacheHit(f) \/ CacheMiss(f) \/ ReadOffset(f)
  \/ RangeNotSatisfiable(f) \/ Respond(f) \/ WriteChunk(f) \/ Sync(f)
  \/ VerifyPartial(f) \/ Rename(f) \/ LoadDownloaded(f) \/ Rerun(f)

Next ==
  \/ \E f \in Fetchers : FetchStep(f) \/ DamageChunk(f) \/ Fail(f)
  \/ VendorStart \/ VendorPackage \/ VendorPublish \/ VendorKilled
  \/ \E c \in Checksums : Store(c)

Spec == Init /\ [][Next]_vars

\* A running command goes on, and the user runs a failed one again.  Faults
\* are bounded, so from some point on the network works.
FairSpec == Spec /\ \A f \in Fetchers : WF_vars(FetchStep(f))

-----------------------------------------------------------------------------
(* Properties.                                                             *)

\* The cache holds under a checksum the archive with that checksum, complete,
\* or nothing, whenever commands are killed and connections break.
CacheIntegrity ==
  \A c \in Checksums : cached[c] # NoFile => Verified(cached[c])

\* Interrupted and resumed downloads put every chunk where it belongs: a
\* `.part' never holds a chunk twice, nor more than the archive.
PartAligned ==
  \A c \in Checksums :
    LET s == Contents(part[c])
    IN  Len(s) <= Size /\ \A k \in DOMAIN s : s[k] \in {k, 0}

\* A published vendor directory has every locked package, as locked.
VendorComplete ==
  vendor.state = "published" =>
    Len(vendor.staged) = Len(Locked) /\ \A k \in DOMAIN vendor.staged : vendor.staged[k] = Body

\* `syllog fetch' succeeds once faults stop and it is run again, if the
\* registry answers with whole archives.
FetchCompletes == \A f \in Fetchers : ~ranges ~> pc[f] = "ok"

\* The same without the condition.  download_resumable is documented as
\* "Resumes an interrupted archive download and atomically publishes the
\* completed, checksum-verified destination."
ResumedFetchCompletes == \A f \in Fetchers : <>(pc[f] = "ok")
=============================================================================
