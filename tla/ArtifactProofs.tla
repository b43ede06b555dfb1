--------------------------- MODULE ArtifactProofs ---------------------------
(***************************************************************************)
(* Proofs about what is fetched, loaded and run, for every value of the    *)
(* constants: downloads with the cache and vendor/, the lockfile that a    *)
(* build reads, and the sandbox.                                           *)
(***************************************************************************)
EXTENDS PackageFetch, Resolver, Sandbox, TLAPS

USE SMTT(4), ZenonT(10), SMTT(20), ZenonT(40), SMTT(40)

-----------------------------------------------------------------------------
(***************************************************************************)
(* Proofs about PackageFetch.  For one fetching process, every lockfile,   *)
(* archive size and history of crashes, damaged chunks and broken          *)
(* connections: what is at a cache path is the verified archive, and a     *)
(* `.part' file holds a prefix of it with every chunk in its place.  For   *)
(* any number of processes: a published vendor directory is complete.      *)
(***************************************************************************)
USE FetchAssumption

(* The invariant.                                                          *)

\* No two checksums share a `.part' file.
Apart == \A c, d \in Checksums : c # d /\ part[c] # NoFile => part[c] # part[d]

\* A sequence of chunks, each in its place or damaged.
InPlace(s) == Len(s) <= Size /\ \A k \in 1 .. Len(s) : s[k] \in {k, 0}

Busy == {"offset", "request", "stream", "verify", "rename", "load"}

\* What is known of the fetcher at each control point.  While it streams, the
\* file and what is left of the response make up the archive.
ControlInv(f) ==
  /\ pc[f] \in Busy => at[f] <= Len(Locked)
  /\ pc[f] = "request" => offset[f] = Len(Contents(part[Wanted(f)]))
  /\ pc[f] = "stream" =>
       /\ fd[f] # NoFile /\ fd[f] = part[Wanted(f)]
       /\ append[f] \/ pos[f] = Len(file[fd[f]])
       /\ Len(file[fd[f]]) + Len(body[f]) = Size
       /\ \A k \in 1 .. Len(body[f]) : body[f][k] \in {Len(file[fd[f]]) + k, 0}
  /\ pc[f] = "rename" => part[Wanted(f)] # NoFile /\ Verified(part[Wanted(f)])

FilesInv == Apart /\ CacheIntegrity /\ \A c \in Checksums : InPlace(Contents(part[c]))

\* The inductive invariant of one fetcher.
FetchInv(f) == TypeOK /\ DOMAIN vendor = {"state", "staged"} /\ FilesInv /\ ControlInv(f)

-----------------------------------------------------------------------------
(* Sequences and inodes.                                                   *)

\* An archive is a sequence of Size chunks, and it is not empty.
LEMMA BodyIsSeq == Body \in Seq(Chunks) /\ Len(Body) = Size /\ Body # <<>>
BY DEF Body, Chunks

\* The rest of an archive from an offset.
LEMMA RestOfBody ==
  ASSUME NEW n \in Nat, n < Size
  PROVE  /\ SubSeq(Body, n + 1, Size) \in Seq(Chunks)
         /\ Len(SubSeq(Body, n + 1, Size)) = Size - n
         /\ \A k \in 1 .. Size - n : SubSeq(Body, n + 1, Size)[k] = n + k
<1>1. \A k \in n + 1 .. Size : Body[k] \in Chunks /\ Body[k] = k
  BY DEF Body, Chunks
<1>2. /\ SubSeq(Body, n + 1, Size) \in Seq(Chunks)
      /\ Len(SubSeq(Body, n + 1, Size)) = IF n + 1 <= Size THEN Size - (n + 1) + 1 ELSE 0
      /\ \A k \in 1 .. Size - (n + 1) + 1 : SubSeq(Body, n + 1, Size)[k] = Body[n + 1 + k - 1]
  BY <1>1
<1> QED
  BY <1>1, <1>2

\* No file is an inode.
LEMMA NoFileIsNoInode == NoFile \notin Inodes
BY DEF NoFile

\* The locked checksum at a position of the lockfile.
LEMMA WantedIsLocked ==
  ASSUME NEW f \in Fetchers, TypeOK, at[f] <= Len(Locked)
  PROVE  Wanted(f) \in Checksums
BY DEF TypeOK, Wanted, Checksums

\* Writing at the end of a file appends.
LEMMA WriteAtEnd ==
  ASSUME NEW s \in Seq(Chunks), NEW chunk \in Chunks
  PROVE  /\ WriteAt(s, Len(s), chunk) \in Seq(Chunks)
         /\ Len(WriteAt(s, Len(s), chunk)) = Len(s) + 1
         /\ \A k \in 1 .. Len(s) : WriteAt(s, Len(s), chunk)[k] = s[k]
         /\ WriteAt(s, Len(s), chunk)[Len(s) + 1] = chunk
<1> DEFINE w == WriteAt(s, Len(s), chunk)
<1>1. w = [k \in 1 .. Len(s) + 1 |-> IF k = Len(s) + 1 THEN chunk
                                     ELSE IF k <= Len(s) THEN s[k] ELSE 0]
  BY DEF WriteAt
<1>2. \A k \in 1 .. Len(s) + 1 : w[k] \in Chunks
  BY <1>1 DEF Chunks
<1>3. w \in Seq(Chunks) /\ Len(w) = Len(s) + 1
  BY <1>1, <1>2
<1> QED
  BY <1>1, <1>3

\* A free inode is an inode that no path names.
LEMMA FreeIsFree ==
  ASSUME FreeInodes # {}
  PROVE  /\ FreeInode \in Inodes /\ FreeInode # NoFile
         /\ \A c \in Checksums : FreeInode # part[c] /\ FreeInode # cached[c]
BY NoFileIsNoInode DEF FreeInode, FreeInodes

\* While no file and no path changes, what is known of them stays.
LEMMA FilesKept ==
  ASSUME FilesInv, UNCHANGED <<file, part, cached>>
  PROVE  FilesInv'
BY DEF FilesInv, Apart, CacheIntegrity, InPlace, Verified, Contents

-----------------------------------------------------------------------------
(* Steps that move control only.                                           *)

\* Looking at the cache and at `.part', and every way to end.
LEMMA LookStep ==
  ASSUME NEW f \in Fetchers, FetchInv(f),
         \/ AllFetched(f) \/ CacheHit(f) \/ CacheMiss(f) \/ ReadOffset(f) \/ RangeNotSatisfiable(f)
         \/ VerifyPartial(f) \/ LoadDownloaded(f) \/ Rerun(f) \/ Sync(f) \/ Fail(f)
  PROVE  FetchInv(f)'
<1>0. TypeOK /\ ControlInv(f)
  BY DEF FetchInv
<1>1. UNCHANGED <<file, part, cached, vendor>>
  BY DEF AllFetched, CacheHit, CacheMiss, ReadOffset, RangeNotSatisfiable, VerifyPartial,
         LoadDownloaded, Rerun, Sync, Fail
<1>2. FilesInv' /\ DOMAIN vendor' = {"state", "staged"}
  BY <1>1, FilesKept DEF FetchInv
<1>3. CASE AllFetched(f) \/ RangeNotSatisfiable(f)
  <2>1. TypeOK'
    BY <1>0, <1>3 DEF TypeOK, AllFetched, RangeNotSatisfiable, Goto
  <2>2. pc'[f] \in {"ok", "failed"}
    BY <1>0, <1>3 DEF TypeOK, AllFetched, RangeNotSatisfiable, Goto
  <2> QED
    BY <1>2, <2>1, <2>2 DEF FetchInv, ControlInv, Busy
<1>4. CASE CacheHit(f) \/ LoadDownloaded(f)
  <2>1. at[f] <= Len(Locked)
    BY <1>0, <1>4 DEF CacheHit, LoadDownloaded, ControlInv, Busy
  <2>2. at' \in [Fetchers -> 1 .. Len(Locked) + 1]
    <3>1. at' = at \/ at' = [at EXCEPT ![f] = @ + 1]
      BY <1>4 DEF CacheHit, LoadDownloaded
    <3>2. at \in [Fetchers -> 1 .. Len(Locked) + 1] /\ at[f] + 1 \in 1 .. Len(Locked) + 1
      BY <1>0, <2>1 DEF TypeOK
    <3> QED
      BY <3>1, <3>2
  <2>3. pc' = pc \/ pc' = [pc EXCEPT ![f] = "next"] \/ pc' = [pc EXCEPT ![f] = "failed"]
    BY <1>4 DEF CacheHit, LoadDownloaded, Goto
  <2>4. pc'[f] \in {"next", "failed"}
    BY <1>0, <1>4, <2>3 DEF CacheHit, LoadDownloaded, Goto, TypeOK
  <2>5. TypeOK'
    BY <1>0, <1>4, <2>2, <2>3 DEF TypeOK, CacheHit, LoadDownloaded
  <2> QED
    BY <1>2, <2>4, <2>5 DEF FetchInv, ControlInv, Busy
<1>5. CASE CacheMiss(f)
  <2>1. TypeOK' /\ pc'[f] = "offset" /\ at' = at
    BY <1>0, <1>5 DEF TypeOK, CacheMiss, Goto
  <2>2. at[f] <= Len(Locked)
    BY <1>5 DEF CacheMiss
  <2> QED
    BY <1>2, <2>1, <2>2 DEF FetchInv, ControlInv, Busy
<1>6. CASE ReadOffset(f)
  <2>1. at[f] <= Len(Locked) /\ Wanted(f) \in Checksums
    BY <1>0, <1>6, WantedIsLocked DEF ReadOffset, ControlInv, Busy
  <2>2. Len(Contents(part[Wanted(f)])) \in Nat
    BY <1>0, <2>1 DEF TypeOK, Contents
  <2>3. TypeOK' /\ pc'[f] = "request" /\ at' = at
    BY <1>0, <1>6, <2>2 DEF TypeOK, ReadOffset, Goto
  <2>4. offset'[f] = Len(Contents(part[Wanted(f)]))
    BY <1>0, <1>6 DEF TypeOK, ReadOffset
  <2> QED
    BY <1>1, <1>2, <2>1, <2>3, <2>4 DEF FetchInv, ControlInv, Busy, Wanted, Contents
<1>7. CASE VerifyPartial(f)
  <2>1. TypeOK' /\ at' = at
        /\ pc'[f] = IF Verified(part[Wanted(f)]) THEN "rename" ELSE "failed"
    BY <1>0, <1>7 DEF TypeOK, VerifyPartial, Goto
  <2>2. at[f] <= Len(Locked)
    BY <1>0, <1>7 DEF VerifyPartial, ControlInv, Busy
  <2>3. Verified(part[Wanted(f)]) => part[Wanted(f)] # NoFile
    BY BodyIsSeq DEF Verified, Contents
  <2>4. Wanted(f)' = Wanted(f) /\ (Verified(part[Wanted(f)])' <=> Verified(part[Wanted(f)]))
    BY <1>1, <2>1 DEF Wanted, Verified, Contents
  <2> QED
    BY <1>1, <1>2, <2>1, <2>2, <2>3, <2>4 DEF FetchInv, ControlInv, Busy
<1>8. CASE Rerun(f)
  <2>1. TypeOK' /\ pc'[f] = "next"
    BY <1>0, <1>8 DEF TypeOK, Rerun, Goto
  <2> QED
    BY <1>2, <2>1 DEF FetchInv, ControlInv, Busy
<1>9. CASE Sync(f)
  <2>1. TypeOK' /\ pc'[f] = "verify" /\ at' = at
    BY <1>0, <1>9 DEF TypeOK, Sync, Goto
  <2>2. at[f] <= Len(Locked)
    BY <1>0, <1>9 DEF Sync, ControlInv, Busy
  <2> QED
    BY <1>2, <2>1, <2>2 DEF FetchInv, ControlInv, Busy
<1>10. CASE Fail(f)
  <2>1. TypeOK' /\ pc'[f] = "failed"
    BY <1>0, <1>10 DEF TypeOK, Fail, Goto
  <2> QED
    BY <1>2, <2>1 DEF FetchInv, ControlInv, Busy
<1> QED
  BY <1>3, <1>4, <1>5, <1>6, <1>7, <1>8, <1>9, <1>10

\* A damaged chunk is one that is not as published.
LEMMA DamageStep ==
  ASSUME NEW f \in Fetchers, FetchInv(f), DamageChunk(f)
  PROVE  FetchInv(f)'
<1>0. TypeOK /\ ControlInv(f)
  BY DEF FetchInv
<1>1. UNCHANGED <<file, part, cached, vendor, pc, at, offset, append, fd, pos>>
  BY DEF DamageChunk
<1>2. FilesInv' /\ DOMAIN vendor' = {"state", "staged"}
  BY <1>1, FilesKept DEF FetchInv
<1> DEFINE b == <<0>> \o Tail(body[f])
<1>3. body[f] \in Seq(Chunks) /\ body[f] # <<>> /\ 0 \in Chunks
  BY <1>0 DEF TypeOK, DamageChunk, Chunks
<1>4. b \in Seq(Chunks) /\ Len(b) = Len(body[f])
  BY <1>3
<1>5. \A k \in 1 .. Len(b) : b[k] \in {body[f][k], 0}
  BY <1>3
<1>6. body' = [body EXCEPT ![f] = b]
  BY DEF DamageChunk
<1> HIDE DEF b
<1>7. body'[f] = b /\ body' \in [Fetchers -> Seq(Chunks)]
  BY <1>0, <1>4, <1>6 DEF TypeOK
<1>8. TypeOK'
  BY <1>0, <1>1, <1>7 DEF TypeOK, DamageChunk
<1>9. ControlInv(f)'
  BY <1>0, <1>1, <1>4, <1>5, <1>7 DEF ControlInv, Wanted, Contents, Verified
<1> QED
  BY <1>2, <1>8, <1>9 DEF FetchInv

-----------------------------------------------------------------------------
(* Steps that change files.                                                *)

\* The contents of one inode that is at no cache path change; it is at the
\* `.part' path of one checksum, in place.
LEMMA OneFileChanges ==
  ASSUME NEW c \in Checksums, NEW i \in Inodes, NEW s, FilesInv, TypeOK,
         \A d \in Checksums : i # cached[d] /\ (d # c => i # part[d]),
         InPlace(s),
         file' = [file EXCEPT ![i] = s], part' = [part EXCEPT ![c] = i], cached' = cached
  PROVE  FilesInv'
<1>0. i # NoFile /\ part'[c] = i /\ file'[i] = s
  BY NoFileIsNoInode DEF TypeOK
<1>1. \A d \in Checksums \ {c} : part'[d] = part[d]
  BY DEF TypeOK
<1>2. ASSUME NEW j \in Inodes \cup {NoFile}, j # i
      PROVE  Contents(j)' = Contents(j)
  BY <1>2 DEF TypeOK, Contents
<1>3. CacheIntegrity'
  <2> SUFFICES ASSUME NEW d \in Checksums, cached[d] # NoFile
               PROVE  Verified(cached[d])'
    BY DEF CacheIntegrity
  <2>1. Contents(cached[d])' = Contents(cached[d])
    BY <1>2 DEF TypeOK, Contents
  <2> QED
    BY <2>1 DEF FilesInv, CacheIntegrity, Verified
<1>4. Apart'
  BY <1>0, <1>1 DEF FilesInv, Apart
<1>5. ASSUME NEW d \in Checksums
      PROVE  InPlace(Contents(part[d])')
  <2>1. CASE d = c
    BY <1>0, <2>1 DEF Contents
  <2>2. CASE d # c
    <3>1. part'[d] = part[d] /\ part[d] # i /\ part[d] \in Inodes \cup {NoFile}
      BY <1>1, <2>2 DEF TypeOK
    <3>2. Contents(part[d])' = Contents(part[d])
      BY <3>1 DEF Contents, TypeOK
    <3> QED
      BY <3>2 DEF FilesInv
  <2> QED
    BY <2>1, <2>2
<1> QED
  BY <1>3, <1>4, <1>5 DEF FilesInv, InPlace

\* A chunk goes behind those the file has.
LEMMA WriteStep ==
  ASSUME NEW f \in Fetchers, FetchInv(f), WriteChunk(f)
  PROVE  FetchInv(f)'
<1>0. TypeOK /\ ControlInv(f) /\ FilesInv
  BY DEF FetchInv
<1> DEFINE i == fd[f]
           s == file[i]
           w == WriteAt(s, Len(s), Head(body[f]))
<1>1. pc[f] = "stream" /\ body[f] # <<>>
  BY DEF WriteChunk
<1>2. Wanted(f) \in Checksums
  BY <1>0, <1>1, WantedIsLocked DEF ControlInv, Busy
<1>3. i = part[Wanted(f)] /\ i \in Inodes /\ s \in Seq(Chunks)
  BY <1>0, <1>1 DEF ControlInv, TypeOK
<1>4. body[f] \in Seq(Chunks) /\ Head(body[f]) \in Chunks
  BY <1>0, <1>1 DEF TypeOK
<1>5. /\ w \in Seq(Chunks) /\ Len(w) = Len(s) + 1
      /\ \A k \in 1 .. Len(s) : w[k] = s[k]
      /\ w[Len(s) + 1] = Head(body[f])
  BY <1>3, <1>4, WriteAtEnd
<1>6. /\ append[f] \/ pos[f] = Len(s)
      /\ Len(s) + Len(body[f]) = Size
      /\ \A k \in 1 .. Len(body[f]) : body[f][k] \in {Len(s) + k, 0}
  BY <1>0, <1>1 DEF ControlInv
<1>7. file' = [file EXCEPT ![i] = w]
  BY <1>6 DEF WriteChunk
<1>8. InPlace(w)
  <2>1. InPlace(s)
    BY <1>0, <1>2, <1>3, NoFileIsNoInode DEF FilesInv, Contents
  <2>2. Len(s) \in Nat /\ Len(body[f]) \in Nat \ {0}
    BY <1>1, <1>3, <1>4
  <2>3. Head(body[f]) \in {Len(s) + 1, 0}
    BY <1>4, <1>6, <2>2
  <2> HIDE DEF s, w
  <2>4. Len(w) <= Size
    BY <1>5, <1>6, <2>2
  <2>5. \A k \in 1 .. Len(s) + 1 : w[k] \in {k, 0}
    BY <1>5, <2>1, <2>2, <2>3 DEF InPlace
  <2> QED
    BY <1>5, <2>4, <2>5 DEF InPlace
<1> HIDE DEF s, w
<1>9. /\ UNCHANGED <<part, cached, pc, at, offset, append, fd, vendor, ranges, faults>>
      /\ body' = [body EXCEPT ![f] = Tail(@)] /\ pos' = [pos EXCEPT ![f] = @ + 1]
  BY DEF WriteChunk
<1>10. FilesInv'
  <2>1. \A d \in Checksums : i # cached[d] /\ (d # Wanted(f) => i # part[d])
    BY <1>0, <1>2, <1>3, NoFileIsNoInode DEF TypeOK, FilesInv, Apart
  <2>2. part' = [part EXCEPT ![Wanted(f)] = i]
    BY <1>0, <1>2, <1>3, <1>9 DEF TypeOK
  <2> QED
    BY <1>0, <1>2, <1>3, <1>7, <1>8, <1>9, <2>1, <2>2, OneFileChanges
<1>11. TypeOK'
  <2>1. Tail(body[f]) \in Seq(Chunks) /\ pos[f] + 1 \in Nat
    BY <1>0, <1>1, <1>4 DEF TypeOK
  <2>2. /\ body' \in [Fetchers -> Seq(Chunks)] /\ pos' \in [Fetchers -> Nat]
        /\ file' \in [Inodes -> Seq(Chunks)]
    BY <1>0, <1>5, <1>7, <1>9, <2>1 DEF TypeOK
  <2> QED
    BY <1>0, <1>9, <2>2 DEF TypeOK
<1>12. ControlInv(f)'
  <2>1. /\ body'[f] = Tail(body[f]) /\ pos'[f] = pos[f] + 1
        /\ file'[fd'[f]] = w /\ fd'[f] = i
    BY <1>0, <1>3, <1>7, <1>9 DEF TypeOK
  <2>2. /\ Len(Tail(body[f])) = Len(body[f]) - 1
        /\ \A k \in 1 .. Len(Tail(body[f])) : Tail(body[f])[k] = body[f][k + 1]
    BY <1>1, <1>4
  <2>3. append'[f] \/ pos'[f] = Len(w)
    BY <1>5, <1>6, <1>9, <2>1
  <2>4. Len(w) + Len(Tail(body[f])) = Size
    <3> DEFINE ls == Len(s)
               lb == Len(body[f])
               lw == Len(w)
               lt == Len(Tail(body[f]))
    <3>1. ls \in Nat /\ lb \in Nat /\ lw = ls + 1 /\ lt = lb - 1
      BY <1>3, <1>4, <1>5, <2>2
    <3>2. ls + lb = Size
      BY <1>6
    <3> HIDE DEF ls, lb, lw, lt
    <3>3. lw + lt = Size
      BY <3>1, <3>2
    <3> QED
      BY <3>3 DEF lw, lt
  <2>5. \A k \in 1 .. Len(Tail(body[f])) : Tail(body[f])[k] \in {Len(w) + k, 0}
    BY <1>1, <1>3, <1>4, <1>5, <1>6, <2>2
  <2>6. pc'[f] = "stream" /\ at'[f] <= Len(Locked) /\ fd'[f] = part'[Wanted(f)'] /\ fd'[f] # NoFile
    BY <1>0, <1>1, <1>3, <1>9, NoFileIsNoInode DEF ControlInv, Busy, Wanted
  <2> QED
    BY <2>1, <2>3, <2>4, <2>5, <2>6 DEF ControlInv, Busy
<1> QED
  BY <1>9, <1>10, <1>11, <1>12 DEF FetchInv

\* Opening `.part' for a response: what the file keeps and what is to come make
\* up the archive.
LEMMA RespondStep ==
  ASSUME NEW f \in Fetchers, FetchInv(f), Respond(f)
  PROVE  FetchInv(f)'
<1>0. TypeOK /\ ControlInv(f) /\ FilesInv
  BY DEF FetchInv
<1> DEFINE W == Wanted(f)
           there == part[W]
           i == IF there = NoFile THEN FreeInode ELSE there
           keep == Resumable(f) /\ there # NoFile
           s == IF keep THEN file[i] ELSE <<>>
           b == IF Resumable(f) THEN SubSeq(Body, offset[f] + 1, Size) ELSE Body
<1>1. pc[f] = "request" /\ (Resumable(f) => offset[f] < Size) /\ at[f] <= Len(Locked)
  BY <1>0 DEF Respond, ControlInv, Busy
<1>2. W \in Checksums
  BY <1>0, <1>1, WantedIsLocked
<1>3. /\ there = NoFile => FreeInodes # {}
      /\ fd' = [fd EXCEPT ![f] = i]
      /\ part' = [part EXCEPT ![W] = i]
      /\ file' = [file EXCEPT ![i] = s]
      /\ append' = [append EXCEPT ![f] = Resumable(f)]
      /\ pos' = [pos EXCEPT ![f] = 0]
      /\ body' = [body EXCEPT ![f] = b]
      /\ pc' = [pc EXCEPT ![f] = "stream"]
      /\ UNCHANGED <<cached, at, offset, vendor, ranges, faults>>
  BY DEF Respond, Open, Goto
<1>4. i \in Inodes /\ i # NoFile
  BY <1>0, <1>2, <1>3, FreeIsFree, NoFileIsNoInode DEF TypeOK
<1>5. \A d \in Checksums : i # cached[d] /\ (d # W => i # part[d])
  BY <1>0, <1>2, <1>3, FreeIsFree DEF TypeOK, FilesInv, Apart
<1>6. offset[f] = Len(Contents(there)) /\ offset[f] \in Nat
  BY <1>0, <1>1 DEF ControlInv, TypeOK
<1>7. ASSUME Resumable(f)
      PROVE  /\ there # NoFile /\ s = file[i] /\ Len(s) = offset[f]
             /\ b = SubSeq(Body, offset[f] + 1, Size)
  <2>1. offset[f] > 0
    BY <1>7 DEF Resumable
  <2>2. there # NoFile
    BY <1>6, <2>1 DEF Contents
  <2> QED
    BY <1>6, <1>7, <2>2 DEF Contents
<1>8. ASSUME ~Resumable(f)
      PROVE  s = <<>> /\ b = Body
  BY <1>8
<1>9. s \in Seq(Chunks) /\ InPlace(s)
  <2>1. CASE Resumable(f)
    <3>1. InPlace(Contents(there)) /\ Contents(there) = s
      BY <1>0, <1>2, <1>7, <2>1 DEF FilesInv, Contents
    <3> QED
      BY <1>0, <1>4, <1>7, <2>1, <3>1 DEF TypeOK
  <2>2. CASE ~Resumable(f)
    BY <1>8, <2>2 DEF InPlace
  <2> QED
    BY <2>1, <2>2
<1>10. /\ b \in Seq(Chunks) /\ Len(s) + Len(b) = Size
       /\ \A k \in 1 .. Len(b) : b[k] \in {Len(s) + k, 0}
  <2>1. CASE Resumable(f)
    <3>1. offset[f] < Size
      BY <1>1, <2>1
    <3>2. /\ b \in Seq(Chunks) /\ Len(b) = Size - offset[f] /\ Len(s) = offset[f]
          /\ \A k \in 1 .. Size - offset[f] : b[k] = offset[f] + k
      BY <1>6, <1>7, <2>1, <3>1, RestOfBody
    <3> HIDE DEF s, b
    <3> QED
      BY <1>6, <3>1, <3>2
  <2>2. CASE ~Resumable(f)
    <3>1. \A k \in 1 .. Size : Body[k] = k
      BY DEF Body
    <3> HIDE DEF s, b
    <3> QED
      BY <1>8, <2>2, <3>1, BodyIsSeq
  <2> QED
    BY <2>1, <2>2
<1>11. Resumable(f) \/ Len(s) = 0
  BY <1>8
<1> HIDE DEF i, s, b
<1>12. FilesInv'
  BY <1>0, <1>2, <1>3, <1>4, <1>5, <1>9, OneFileChanges
<1>13. TypeOK'
  <2>1. /\ fd' \in [Fetchers -> Inodes \cup {NoFile}] /\ file' \in [Inodes -> Seq(Chunks)]
        /\ part' \in [Checksums -> Inodes \cup {NoFile}]
        /\ pos' \in [Fetchers -> Nat] /\ body' \in [Fetchers -> Seq(Chunks)]
    BY <1>0, <1>3, <1>4, <1>9, <1>10 DEF TypeOK
  <2>2. append' \in [Fetchers -> BOOLEAN]
    BY <1>0, <1>3 DEF TypeOK, Resumable
  <2>3. pc' \in [Fetchers -> {"next", "offset", "request", "stream", "verify", "rename", "load",
                              "ok", "failed"}]
    BY <1>0, <1>3 DEF TypeOK
  <2>4. \A c, d \in Checksums : part'[c] # NoFile => part'[c] # cached'[d]
    BY <1>0, <1>2, <1>3, <1>5 DEF TypeOK
  <2> QED
    BY <1>0, <1>3, <2>1, <2>2, <2>3, <2>4 DEF TypeOK
<1>14. ControlInv(f)'
  <2>1. /\ pc'[f] = "stream" /\ fd'[f] = i /\ part'[W] = i /\ file'[i] = s /\ body'[f] = b
        /\ append'[f] = Resumable(f) /\ pos'[f] = 0 /\ at'[f] <= Len(Locked) /\ Wanted(f)' = W
    BY <1>0, <1>1, <1>2, <1>3, <1>4 DEF TypeOK, Wanted
  <2> QED
    BY <1>4, <1>10, <1>11, <2>1 DEF ControlInv, Busy
<1> QED
  BY <1>3, <1>12, <1>13, <1>14 DEF FetchInv

\* rename publishes a verified file.
LEMMA RenameStep ==
  ASSUME NEW f \in Fetchers, FetchInv(f), Rename(f)
  PROVE  FetchInv(f)'
<1>0. TypeOK /\ ControlInv(f) /\ FilesInv
  BY DEF FetchInv
<1> DEFINE W == Wanted(f)
<1>1. pc[f] = "rename" /\ part[W] # NoFile /\ Verified(part[W]) /\ at[f] <= Len(Locked)
  BY <1>0 DEF Rename, ControlInv, Busy
<1>2. W \in Checksums
  BY <1>0, <1>1, WantedIsLocked
<1>3. /\ cached' = [cached EXCEPT ![W] = part[W]]
      /\ part' = [part EXCEPT ![W] = NoFile]
      /\ pc' = [pc EXCEPT ![f] = "load"]
      /\ UNCHANGED <<file, at, offset, body, append, fd, pos, vendor, ranges, faults>>
  BY <1>1 DEF Rename, Goto
<1>4. /\ cached'[W] = part[W] /\ part'[W] = NoFile /\ pc'[f] = "load"
      /\ \A d \in Checksums \ {W} : cached'[d] = cached[d] /\ part'[d] = part[d]
  BY <1>0, <1>2, <1>3 DEF TypeOK
<1>5. ASSUME NEW c \in Checksums, NEW d \in Checksums, part'[c] # NoFile
      PROVE  part'[c] # cached'[d]
  <2>1. c # W /\ part'[c] = part[c]
    BY <1>4, <1>5
  <2>2. part[c] # part[W]
    BY <1>0, <1>2, <1>5, <2>1 DEF FilesInv, Apart
  <2>3. part[c] # cached[d]
    BY <1>0, <1>5, <2>1 DEF TypeOK
  <2> QED
    BY <1>4, <2>1, <2>2, <2>3
<1>6. TypeOK'
  BY <1>0, <1>2, <1>3, <1>5 DEF TypeOK
<1>7. CacheIntegrity'
  <2> SUFFICES ASSUME NEW d \in Checksums, cached'[d] # NoFile
               PROVE  Verified(cached[d])'
    BY DEF CacheIntegrity
  <2>1. CASE d = W
    BY <1>1, <1>3, <1>4, <2>1 DEF Verified, Contents
  <2>2. CASE d # W
    <3>1. cached'[d] = cached[d] /\ Verified(cached[d])
      BY <1>0, <1>4, <2>2 DEF FilesInv, CacheIntegrity
    <3> QED
      BY <1>3, <3>1 DEF Verified, Contents
  <2> QED
    BY <2>1, <2>2
<1>8. Apart'
  BY <1>0, <1>4 DEF FilesInv, Apart
<1>9. ASSUME NEW d \in Checksums
      PROVE  InPlace(Contents(part[d])')
  <2>1. CASE d = W
    BY <1>4, <2>1 DEF Contents, InPlace
  <2>2. CASE d # W
    <3>1. Contents(part[d])' = Contents(part[d])
      BY <1>3, <1>4, <2>2 DEF Contents
    <3> QED
      BY <1>0, <3>1 DEF FilesInv
  <2> QED
    BY <2>1, <2>2
<1>10. ControlInv(f)'
  BY <1>1, <1>3, <1>4 DEF ControlInv, Busy
<1> QED
  BY <1>3, <1>6, <1>7, <1>8, <1>9, <1>10 DEF FetchInv, FilesInv, InPlace

\* store publishes verified contents in a file of their own.
LEMMA StoreStep ==
  ASSUME NEW f \in Fetchers, NEW c \in Checksums, FetchInv(f), Store(c)
  PROVE  FetchInv(f)'
<1>0. TypeOK /\ ControlInv(f) /\ FilesInv
  BY DEF FetchInv
<1> DEFINE i == FreeInode
<1>1. i \in Inodes /\ i # NoFile /\ \A d \in Checksums : i # part[d] /\ i # cached[d]
  BY FreeIsFree DEF Store
<1> HIDE DEF i
<1>2. /\ cached' = [cached EXCEPT ![c] = i] /\ file' = [file EXCEPT ![i] = Body]
      /\ UNCHANGED <<part, pc, at, offset, body, append, fd, pos, vendor, ranges, faults>>
  BY DEF Store, fetchVars, i
<1>3. /\ cached'[c] = i /\ file'[i] = Body
      /\ \A d \in Checksums \ {c} : cached'[d] = cached[d]
      /\ \A j \in Inodes \ {i} : file'[j] = file[j]
  BY <1>0, <1>1, <1>2 DEF TypeOK
<1>4. TypeOK'
  <2>1. \A b, d \in Checksums : part'[b] # NoFile => part'[b] # cached'[d]
    BY <1>0, <1>1, <1>2, <1>3 DEF TypeOK
  <2>2. file' \in [Inodes -> Seq(Chunks)] /\ cached' \in [Checksums -> Inodes \cup {NoFile}]
    BY <1>0, <1>1, <1>2, BodyIsSeq DEF TypeOK
  <2> QED
    BY <1>0, <1>2, <2>1, <2>2 DEF TypeOK
<1>5. CacheIntegrity'
  <2> SUFFICES ASSUME NEW d \in Checksums, cached'[d] # NoFile
               PROVE  Contents(cached[d])' = Body
    BY DEF CacheIntegrity, Verified, Body
  <2>1. CASE d = c
    BY <1>1, <1>3, <2>1 DEF Contents
  <2>2. CASE d # c
    <3>1. cached[d] \in Inodes \ {i} /\ cached'[d] = cached[d]
      BY <1>0, <1>1, <1>3, <2>2 DEF TypeOK
    <3>2. Contents(cached[d])' = Contents(cached[d])
      BY <1>3, <3>1 DEF Contents
    <3> QED
      BY <1>0, <3>1, <3>2 DEF FilesInv, CacheIntegrity, Verified
  <2> QED
    BY <2>1, <2>2
<1>6. ASSUME NEW d \in Checksums
      PROVE  Contents(part[d])' = Contents(part[d])
  <2>1. part[d] \in (Inodes \cup {NoFile}) \ {i} /\ part'[d] = part[d]
    BY <1>0, <1>1, <1>2 DEF TypeOK
  <2> QED
    BY <1>3, <2>1 DEF Contents
<1>7. Apart' /\ \A d \in Checksums : InPlace(Contents(part[d])')
  BY <1>0, <1>2, <1>6 DEF FilesInv, Apart
<1>8. ControlInv(f)'
  <2>1. Wanted(f)' = Wanted(f)
    BY <1>2 DEF Wanted
  <2>2. ASSUME pc[f] \in Busy
        PROVE  Wanted(f) \in Checksums
    BY <1>0, <2>2, WantedIsLocked DEF ControlInv
  <2>3. pc[f] = "request" => offset[f] = Len(Contents(part[Wanted(f)])')
    BY <1>0, <1>6, <2>1, <2>2 DEF ControlInv, Busy
  <2>4. pc[f] = "rename" => part[Wanted(f)] # NoFile /\ Contents(part[Wanted(f)])' = Body
    BY <1>0, <1>6, <2>1, <2>2 DEF ControlInv, Busy, Verified
  <2>5. ASSUME pc[f] = "stream"
        PROVE  fd[f] # NoFile /\ fd[f] = part[Wanted(f)] /\ file'[fd[f]] = file[fd[f]]
    <3>1. fd[f] # NoFile /\ fd[f] = part[Wanted(f)] /\ Wanted(f) \in Checksums
      BY <1>0, <2>2, <2>5 DEF ControlInv, Busy
    <3>2. fd[f] \in Inodes \ {i}
      BY <1>0, <1>1, <3>1 DEF TypeOK
    <3> QED
      BY <1>3, <3>1, <3>2
  <2>6. Body' = Body
    BY DEF Body
  <2> QED
    BY <1>0, <1>2, <2>1, <2>3, <2>4, <2>5, <2>6 DEF ControlInv, Verified
<1> QED
  BY <1>2, <1>4, <1>5, <1>7, <1>8 DEF FetchInv, FilesInv, InPlace

-----------------------------------------------------------------------------
(* vendor.                                                                 *)

\* What is staged was verified, and what is published is all of it.
VendorInv ==
  /\ DOMAIN vendor = {"state", "staged"}
  /\ vendor.staged \in Seq({Body})
  /\ VendorComplete

VendorStep == VendorStart \/ VendorPackage \/ VendorPublish \/ VendorKilled

\* vendor changes none but its own state.
LEMMA VendorAlone ==
  ASSUME VendorStep
  PROVE  UNCHANGED <<file, part, cached, fetchVars, ranges>>
BY DEF VendorStep, VendorStart, VendorPackage, VendorPublish, VendorKilled

\* Every other command leaves what vendor stages alone.
LEMMA OthersKeepVendor ==
  ASSUME NEW f, NEW c, FetchStep(f) \/ DamageChunk(f) \/ Fail(f) \/ Store(c)
  PROVE  UNCHANGED vendor
BY DEF FetchStep, AllFetched, CacheHit, CacheMiss, ReadOffset, RangeNotSatisfiable, Respond,
       WriteChunk, Sync, VerifyPartial, Rename, LoadDownloaded, Rerun, DamageChunk, Fail, Store

\* Every step of vendor keeps its invariant.
LEMMA VendorKeeps ==
  ASSUME VendorInv, VendorStep
  PROVE  VendorInv'
<1>1. CASE VendorStart \/ VendorKilled
  <2>1. vendor'.state # "published" /\ vendor'.staged = <<>> /\ DOMAIN vendor' = {"state", "staged"}
    BY <1>1 DEF VendorStart, VendorKilled
  <2> QED
    BY <2>1 DEF VendorInv, VendorComplete
<1>2. CASE VendorPackage
  <2>1. CASE vendor' = [state |-> "failed", staged |-> <<>>]
    BY <2>1 DEF VendorInv, VendorComplete
  <2>2. CASE vendor' = [vendor EXCEPT !.staged = Append(@, Body)]
    <3>1. /\ vendor'.state = vendor.state /\ vendor'.staged = Append(vendor.staged, Body)
          /\ DOMAIN vendor' = {"state", "staged"}
      BY <2>2 DEF VendorInv
    <3>2. Append(vendor.staged, Body) \in Seq({Body})
      BY DEF VendorInv
    <3>3. vendor.state # "published"
      BY <1>2 DEF VendorPackage
    <3> QED
      BY <3>1, <3>2, <3>3 DEF VendorInv, VendorComplete, Body
  <2> QED
    BY <1>2, <2>1, <2>2 DEF VendorPackage, Verified
<1>3. CASE VendorPublish
  <2>1. /\ vendor'.staged = vendor.staged /\ DOMAIN vendor' = {"state", "staged"}
        /\ Len(vendor.staged) = Len(Locked)
    BY <1>3 DEF VendorPublish, VendorInv
  <2>2. \A k \in DOMAIN vendor.staged : vendor.staged[k] = Body
    BY DEF VendorInv
  <2> QED
    BY <2>1, <2>2 DEF VendorInv, VendorComplete, Body
<1> QED
  BY <1>1, <1>2, <1>3 DEF VendorStep

\* A published vendor directory has every locked package, as locked, however
\* many processes fetch meanwhile.
THEOREM VendorIsComplete == Spec => []VendorComplete
<1>1. Init => VendorInv
  BY DEF Init, VendorInv, VendorComplete
<1>2. VendorInv /\ [Next]_vars => VendorInv'
  <2> SUFFICES ASSUME VendorInv, [Next]_vars PROVE VendorInv'
    OBVIOUS
  <2>1. ASSUME UNCHANGED vendor
        PROVE  VendorInv'
    BY <2>1 DEF VendorInv, VendorComplete, Body
  <2>2. CASE VendorStep
    BY <2>2, VendorKeeps
  <2>3. CASE UNCHANGED vars
    BY <2>1, <2>3 DEF vars
  <2> QED
    BY <2>1, <2>2, <2>3, OthersKeepVendor DEF Next, VendorStep
<1>3. VendorInv => VendorComplete
  BY DEF VendorInv
<1> QED
  BY <1>1, <1>2, <1>3, PTL DEF Spec

-----------------------------------------------------------------------------
(* One fetcher.                                                            *)

\* Staging packages keeps what is known of files.
LEMMA VendorKeepsFiles ==
  ASSUME NEW f \in Fetchers, FetchInv(f), VendorStep, VendorInv
  PROVE  FetchInv(f)'
<1>0. TypeOK /\ ControlInv(f) /\ FilesInv
  BY DEF FetchInv
<1>1. UNCHANGED <<file, part, cached, pc, at, offset, body, append, fd, pos, ranges>>
  BY VendorAlone DEF fetchVars
<1>2. FilesInv' /\ ControlInv(f)'
  BY <1>0, <1>1, FilesKept DEF ControlInv, Wanted, Contents, Verified
<1>3. VendorInv'
  BY VendorKeeps
<1>4. vendor'.staged \in Seq(Seq(Chunks))
  BY <1>3, BodyIsSeq DEF VendorInv
<1>5. vendor'.state \in {"idle", "staging", "published", "failed"} /\ faults' \in 0 .. MaxFaults
  <2>1. CASE VendorStart \/ VendorKilled
    BY <1>0, <2>1 DEF VendorStart, VendorKilled, TypeOK
  <2>2. CASE VendorPackage \/ VendorPublish
    BY <1>0, <2>2 DEF VendorPackage, VendorPublish, TypeOK, VendorInv
  <2> QED
    BY <2>1, <2>2 DEF VendorStep
<1>6. TypeOK'
  BY <1>0, <1>1, <1>4, <1>5 DEF TypeOK
<1> QED
  BY <1>2, <1>3, <1>6 DEF FetchInv, VendorInv

\* The invariant of one fetcher holds throughout.
LEMMA OneFetcher ==
  ASSUME NEW f, Fetchers = {f}
  PROVE  Spec => [](FetchInv(f) /\ VendorInv)
<1> DEFINE Inv == FetchInv(f) /\ VendorInv
<1>1. Init => Inv
  <2> SUFFICES ASSUME Init PROVE Inv
    OBVIOUS
  <2>1. TypeOK
    <3>1. /\ file \in [Inodes -> Seq(Chunks)] /\ body \in [Fetchers -> Seq(Chunks)]
          /\ part \in [Checksums -> Inodes \cup {NoFile}]
          /\ cached \in [Checksums -> Inodes \cup {NoFile}]
      BY DEF Init
    <3>2. \A c, d \in Checksums : part[c] # NoFile => part[c] # cached[d]
      BY DEF Init
    <3>3. /\ pc \in [Fetchers -> {"next", "offset", "request", "stream", "verify", "rename",
                                  "load", "ok", "failed"}]
          /\ at \in [Fetchers -> 1 .. Len(Locked) + 1]
          /\ offset \in [Fetchers -> Nat] /\ pos \in [Fetchers -> Nat]
      BY DEF Init
    <3>4. append \in [Fetchers -> BOOLEAN] /\ fd \in [Fetchers -> Inodes \cup {NoFile}]
      BY DEF Init
    <3>5. /\ vendor.state \in {"idle", "staging", "published", "failed"}
          /\ vendor.staged \in Seq(Seq(Chunks))
          /\ ranges \in BOOLEAN /\ faults \in 0 .. MaxFaults
      BY DEF Init
    <3> QED
      BY <3>1, <3>2, <3>3, <3>4, <3>5 DEF TypeOK
  <2>2. FilesInv
    BY DEF Init, FilesInv, Apart, CacheIntegrity, InPlace, Contents
  <2>3. ControlInv(f)
    BY DEF Init, ControlInv, Busy
  <2>4. VendorInv
    BY DEF Init, VendorInv, VendorComplete
  <2> QED
    BY <2>1, <2>2, <2>3, <2>4 DEF FetchInv, VendorInv
<1>2. Inv /\ [Next]_vars => Inv'
  <2> SUFFICES ASSUME Inv, [Next]_vars PROVE Inv'
    OBVIOUS
  <2>1. ASSUME UNCHANGED vendor
        PROVE  VendorInv'
    BY <2>1 DEF VendorInv, VendorComplete, Body
  <2>2. CASE FetchStep(f) \/ DamageChunk(f) \/ Fail(f)
    <3>1. FetchInv(f)'
      BY <2>2, LookStep, WriteStep, RespondStep, RenameStep, DamageStep DEF FetchStep
    <3> QED
      BY <2>1, <2>2, <3>1, OthersKeepVendor
  <2>3. ASSUME NEW c \in Checksums, Store(c)
        PROVE  Inv'
    BY <2>1, <2>3, StoreStep, OthersKeepVendor
  <2>4. CASE VendorStep
    BY <2>4, VendorKeeps, VendorKeepsFiles
  <2>5. CASE UNCHANGED vars
    <3>1. TypeOK /\ ControlInv(f) /\ FilesInv
      BY DEF FetchInv
    <3>2. TypeOK'
      BY <2>5, <3>1 DEF vars, fetchVars, TypeOK
    <3>3. ControlInv(f)'
      BY <2>5, <3>1 DEF vars, fetchVars, ControlInv, Wanted, Contents, Verified
    <3>4. FilesInv' /\ VendorInv'
      BY <2>1, <2>5, <3>1, FilesKept DEF vars
    <3> QED
      BY <2>5, <3>2, <3>3, <3>4 DEF vars, FetchInv
  <2> QED
    BY <2>2, <2>3, <2>4, <2>5 DEF Next, VendorStep
<1> QED
  BY <1>1, <1>2, PTL DEF Spec

\* With one fetching process every variable keeps its type, and no `.part' path
\* is also a cache path.
THEOREM FetchTypeCorrect ==
  ASSUME NEW f, Fetchers = {f}
  PROVE  Spec => []TypeOK
<1>1. FetchInv(f) => TypeOK
  BY DEF FetchInv
<1> QED
  BY <1>1, OneFetcher, PTL

\* With one fetching process the cache holds under a checksum the archive with
\* that checksum, complete, or nothing.
THEOREM CacheAlwaysIntact ==
  ASSUME NEW f, Fetchers = {f}
  PROVE  Spec => []CacheIntegrity
<1>1. FetchInv(f) => CacheIntegrity
  BY DEF FetchInv, FilesInv
<1> QED
  BY <1>1, OneFetcher, PTL

\* With one fetching process a `.part' file is a prefix of the archive, each
\* chunk in its place or damaged, after any number of interruptions.
THEOREM PartAlwaysAligned ==
  ASSUME NEW f, Fetchers = {f}
  PROVE  Spec => []PartAligned
<1>1. FetchInv(f) => PartAligned
  <2> SUFFICES ASSUME FetchInv(f), NEW c \in Checksums
               PROVE  /\ Len(Contents(part[c])) <= Size
                      /\ \A k \in DOMAIN Contents(part[c]) : Contents(part[c])[k] \in {k, 0}
    BY DEF PartAligned
  <2>1. InPlace(Contents(part[c]))
    BY DEF FetchInv, FilesInv
  <2>2. Contents(part[c]) \in Seq(Chunks)
    <3>1. file \in [Inodes -> Seq(Chunks)] /\ part[c] \in Inodes \cup {NoFile}
      BY DEF FetchInv, TypeOK
    <3>2. CASE part[c] = NoFile
      BY <3>2 DEF Contents
    <3>3. CASE part[c] \in Inodes
      BY <3>1, <3>3, NoFileIsNoInode DEF Contents
    <3> QED
      BY <3>1, <3>2, <3>3
  <2> QED
    BY <2>1, <2>2 DEF InPlace
<1> QED
  BY <1>1, OneFetcher, PTL

HIDE FetchAssumption

-----------------------------------------------------------------------------
(***************************************************************************)
(* Resolver: what a build loads, for any lockfile.                         *)
(***************************************************************************)
Archives(packages, store) == {Found(store, p).archive : p \in packages}

\* A lockfile that passes both checks of load_locked_dependency_sources.
Accepted(manifest, packages, store) ==
  /\ ValidateLockGraph(manifest, packages)
  /\ \A p \in packages : VerifyLockedArchive(p, Found(store, p).archive)

\* The entry of a package is the one with its name.
LEMMA EntryOf ==
  ASSUME NEW packages, NEW n \in Names(packages)
  PROVE  Entry(packages, n) \in packages /\ Entry(packages, n).name = n
<1>1. \E p \in packages : p.name = n
  BY DEF Names
<1> QED
  BY <1>1 DEF Entry

\* What is locked meets the requirements of the manifest and of every archive.
LEMMA AcceptedSolves ==
  ASSUME NEW manifest, NEW packages, NEW store, Accepted(manifest, packages, store)
  PROVE  IsSolution(manifest, Archives(packages, store))
<1>1. Satisfied(Archives(packages, store), manifest)
  <2> SUFFICES ASSUME NEW n \in DOMAIN manifest
               PROVE  \E r \in Archives(packages, store) :
                        r.name = n /\ r.version \in manifest[n].versions
    BY DEF Satisfied
  <2> DEFINE e == Entry(packages, n)
  <2>1. n \in Names(packages) /\ e.version \in manifest[n].versions
    BY DEF Accepted, ValidateLockGraph
  <2>2. e \in packages /\ e.name = n
    BY <2>1, EntryOf
  <2>3. Found(store, e).archive.name = n /\ Found(store, e).archive.version = e.version
    BY <2>2 DEF Accepted, VerifyLockedArchive
  <2> QED
    BY <2>1, <2>2, <2>3 DEF Archives
<1>2. ASSUME NEW r \in Archives(packages, store)
      PROVE  Satisfied(Archives(packages, store), r.dependencies)
  <2>1. PICK p \in packages : r = Found(store, p).archive
    BY DEF Archives
  <2> SUFFICES ASSUME NEW d \in DOMAIN r.dependencies
               PROVE  \E s \in Archives(packages, store) :
                        s.name = d /\ s.version \in r.dependencies[d].versions
    BY DEF Satisfied
  <2> DEFINE e == Entry(packages, d)
  <2>2. d \in DOMAIN p.dependencies /\ p.dependencies[d] \in r.dependencies[d].versions
    BY <2>1 DEF Accepted, VerifyLockedArchive
  <2>3. d \in Names(packages) /\ e.version = p.dependencies[d]
    BY <2>2 DEF Accepted, ValidateLockGraph
  <2>4. e \in packages /\ e.name = d
    BY <2>3, EntryOf
  <2>5. Found(store, e).archive.name = d /\ Found(store, e).archive.version = e.version
    BY <2>4 DEF Accepted, VerifyLockedArchive
  <2> QED
    BY <2>2, <2>3, <2>4, <2>5 DEF Archives
<1> QED
  BY <1>1, <1>2 DEF IsSolution

\* The archive of an entry is known by the entry's name.
LEMMA ArchiveOf ==
  ASSUME NEW manifest, NEW packages, NEW store, Accepted(manifest, packages, store),
         NEW p \in packages, NEW r \in Archives(packages, store), p.name = r.name
  PROVE  r = Found(store, p).archive
<1>1. PICK q \in packages : r = Found(store, q).archive
  BY DEF Archives
<1>2. q.name = r.name
  BY <1>1 DEF Accepted, VerifyLockedArchive
<1>3. p.name = q.name => p = q
  BY DEF Accepted, ValidateLockGraph
<1> QED
  BY <1>1, <1>2, <1>3

\* Nothing can be left out: packages that solve the manifest hold the direct
\* dependencies and what they depend on, and so are all that is reachable.
LEMMA AcceptedNeeded ==
  ASSUME NEW manifest, NEW packages, NEW store, Accepted(manifest, packages, store),
         NEW c \in SUBSET Archives(packages, store), IsSolution(manifest, c)
  PROVE  c = Archives(packages, store)
<1> DEFINE S == {n \in Names(packages) : \E r \in c : r.name = n}
<1>1. DOMAIN manifest \cap Names(packages) \subseteq S
  BY DEF IsSolution, Satisfied
<1>2. ASSUME NEW p \in packages, p.name \in S PROVE Found(store, p).archive \in c
  BY <1>2, ArchiveOf
<1>3. ASSUME NEW p \in packages, p.name \in S PROVE DOMAIN p.dependencies \subseteq S
  <2> SUFFICES ASSUME NEW d \in DOMAIN p.dependencies PROVE d \in S
    OBVIOUS
  <2>1. d \in Names(packages)
    BY DEF Accepted, ValidateLockGraph
  <2>2. DOMAIN Found(store, p).archive.dependencies = DOMAIN p.dependencies
    BY DEF Accepted, VerifyLockedArchive
  <2>3. \E r \in c : r.name = d
    BY <1>2, <1>3, <2>2 DEF IsSolution, Satisfied
  <2> QED
    BY <2>1, <2>3
<1>4. S = Names(packages)
  <2>1. S \in SUBSET Names(packages) /\ AllReachable(packages, DOMAIN manifest)
    BY DEF Accepted, ValidateLockGraph
  <2> HIDE DEF S
  <2> QED
    BY <1>1, <1>3, <2>1 DEF AllReachable
<1>5. \A p \in packages : Found(store, p).archive \in c
  BY <1>2, <1>4 DEF Names
<1> QED
  BY <1>5 DEF Archives

\* Whatever the lockfile holds, written by resolve, edited by hand or merged:
\* what the checks of load_locked_dependency_sources let through solves the
\* manifest, and no part of it does without the rest.
THEOREM AcceptedLockIsMinimal ==
  ASSUME NEW manifest, NEW packages, NEW store, Accepted(manifest, packages, store)
  PROVE  /\ IsSolution(manifest, Archives(packages, store))
         /\ \A c \in SUBSET Archives(packages, store) :
              IsSolution(manifest, c) => c = Archives(packages, store)
  BY AcceptedSolves, AcceptedNeeded

\* A build that has loaded has accepted the lockfile under the manifest as
\* edited, and neither changes afterwards.
LoadInv ==
  /\ build # "none" => lock.kind = "ok"
  /\ build = "loaded" /\ DOMAIN request.edited # {} =>
       Accepted(request.edited, lock.packages, request.store)

\* A build never uses a stale lockfile, for any index and any manifest as it
\* was resolved and as it was edited since.
THEOREM BuildsLoadWhatIsNeeded == ResolverSpec => []LoadedSatisfiesManifest
<1>1. ResolverInit => LoadInv
  BY DEF ResolverInit, LoadInv
<1>2. LoadInv /\ [ResolverNext]_resolverVars => LoadInv'
  <2> SUFFICES ASSUME LoadInv, [ResolverNext]_resolverVars PROVE LoadInv'
    OBVIOUS
  <2>1. CASE ResolveManifest
    BY <2>1 DEF ResolveManifest, LoadInv
  <2>2. CASE LoadLocked
    BY <2>2 DEF LoadLocked, LoadInv, Accepted
  <2>3. CASE UNCHANGED resolverVars
    BY <2>3 DEF resolverVars, LoadInv
  <2> QED
    BY <2>1, <2>2, <2>3 DEF ResolverNext
<1>3. LoadInv => LoadedSatisfiesManifest
  <2> DEFINE loaded == Archives(lock.packages, request.store)
  <2> SUFFICES ASSUME LoadInv, build = "loaded", DOMAIN request.edited # {}
               PROVE  /\ IsSolution(request.edited, loaded)
                      /\ \A r \in loaded : ~IsSolution(request.edited, loaded \ {r})
    BY DEF LoadedSatisfiesManifest, LoadedArchives, Archives
  <2>1. Accepted(request.edited, lock.packages, request.store)
    BY DEF LoadInv
  <2>2. ASSUME NEW r \in loaded, IsSolution(request.edited, loaded \ {r}) PROVE FALSE
    <3>1. loaded \ {r} \in SUBSET loaded /\ loaded \ {r} # loaded
      OBVIOUS
    <3> QED
      BY <2>1, <2>2, <3>1, AcceptedLockIsMinimal
  <2> QED
    BY <2>1, <2>2, AcceptedLockIsMinimal
<1> QED
  BY <1>1, <1>2, <1>3, PTL DEF ResolverSpec

-----------------------------------------------------------------------------
(***************************************************************************)
(* Sandbox, for every program, artifact and policy and every run of the    *)
(* guest: what runs stays inside its policy, and declared bounds are       *)
(* accepted exactly when they cover what a definition can reach.           *)
(***************************************************************************)
USE SandboxAssumption

\* The three checks in front of a run, and the stages behind each of them.
Granted == artifact.sections # 1 \/ Required \subseteq policy.effects
Ready == {"instantiate", "starting", "lookup", "running"}
Checked ==
  /\ stage \in {"compile", "imports", "memory"} \cup Ready => Granted
  /\ stage \in {"memory"} \cup Ready => artifact.imports \subseteq policy.capabilities
  /\ stage \in Ready => artifact.pages <= policy.memory

\* Inference never forgets a direct effect.
DirectFound ==
  /\ DOMAIN inferred = DOMAIN program
  /\ \A d \in DOMAIN program : Direct(d) \subseteq inferred[d]

Instance ==
  /\ program \in Programs /\ artifact \in Artifacts /\ policy \in Policies
  /\ stage \in {"starting", "running"} => frame \in DOMAIN program
  /\ stage = "starting" => ModuleIs("start")
  /\ memory \in Nat /\ fuel \in Nat

\* The inductive invariant of a run.
ContainInv == Instance /\ DirectFound /\ Checked /\ RunContained

-----------------------------------------------------------------------------
\* A step that only moves the control point through the checks, and reports an
\* error at most, keeps the invariant if the new stage was earned.
LEMMA ControlStep ==
  ASSUME ContainInv, stage # "done",
         UNCHANGED <<program, artifact, policy, inferred, guestVars>>, Checked',
         stage' \notin {"starting", "running"}
  PROVE  ContainInv'
<1>1. ~exceeded
  BY DEF ContainInv, RunContained
<1>2. Instance' /\ DirectFound'
  BY DEF ContainInv, Instance, DirectFound, Direct, guestVars
<1>3. RunContained'
  BY <1>1 DEF ContainInv, RunContained, guestVars
<1> QED
  BY <1>2, <1>3 DEF ContainInv

\* Required depends on the program and what was inferred, Direct on the program.
LEMMA SameRequired ==
  ASSUME UNCHANGED <<program, inferred>>
  PROVE  Required' = Required
BY DEF Required

\* The compiler and the checks of the sandbox keep the invariant.
LEMMA CheckStep ==
  ASSUME ContainInv,
         \/ CheckBounds \/ ExecuteI32 \/ ExecuteI64 \/ EnforceManifest \/ CompileModule
         \/ CheckImports \/ CheckMemory \/ OutOfFuel
  PROVE  ContainInv'
<1>1. UNCHANGED <<program, artifact, policy, inferred, guestVars>> /\ stage # "done"
  BY DEF CheckBounds, ExecuteI32, ExecuteI64, Execute, EnforceManifest, CompileModule,
         CheckImports, CheckMemory, OutOfFuel
<1>2. Required' = Required
  BY <1>1, SameRequired
<1>3. CASE CheckBounds \/ ExecuteI32 \/ ExecuteI64 \/ OutOfFuel
  <2>1. stage' \in {"compiled", "rejected", "manifest", "done"}
    BY <1>3 DEF CheckBounds, ExecuteI32, ExecuteI64, Execute, OutOfFuel, Stop, Refuse
  <2>2. Checked'
    BY <2>1 DEF Checked, Ready
  <2> QED
    BY <1>1, <2>1, <2>2, ControlStep
<1>4. CASE EnforceManifest
  <2>0. artifact.sections = 0 => artifact.sections # 1
    OBVIOUS
  <2>1. stage' = "done" \/ (stage' = "compile" /\ Granted)
    BY <1>4, <2>0 DEF EnforceManifest, Refuse, Granted
  <2>2. Checked'
    BY <1>1, <1>2, <2>1 DEF Checked, Granted, Ready
  <2> QED
    BY <1>1, <2>1, <2>2, ControlStep
<1>5. CASE CompileModule
  <2>1. Granted
    BY <1>5 DEF CompileModule, ContainInv, Checked
  <2>2. stage' \in {"done", "imports"}
    BY <1>5 DEF CompileModule, Refuse
  <2>3. Checked'
    BY <1>1, <1>2, <2>1, <2>2 DEF Checked, Granted, Ready
  <2> QED
    BY <1>1, <2>2, <2>3, ControlStep
<1>6. CASE CheckImports
  <2>1. Granted
    BY <1>6 DEF CheckImports, ContainInv, Checked
  <2>2. stage' = "done" \/ (stage' = "memory" /\ artifact.imports \subseteq policy.capabilities)
    BY <1>6 DEF CheckImports, Refuse
  <2>3. Checked'
    BY <1>1, <1>2, <2>1, <2>2 DEF Checked, Granted, Ready
  <2> QED
    BY <1>1, <2>2, <2>3, ControlStep
<1>7. CASE CheckMemory
  <2>1. Granted /\ artifact.imports \subseteq policy.capabilities
    BY <1>7 DEF CheckMemory, ContainInv, Checked
  <2>2. stage' = "done" \/ (stage' = "instantiate" /\ artifact.pages <= policy.memory)
    BY <1>7 DEF CheckMemory, Refuse
  <2>3. Checked'
    BY <1>1, <1>2, <2>1, <2>2 DEF Checked, Granted, Ready
  <2> QED
    BY <1>1, <2>2, <2>3, ControlStep
<1> QED
  BY <1>3, <1>4, <1>5, <1>6, <1>7

\* One round of inference keeps what was found.
LEMMA InferStep ==
  ASSUME ContainInv, Infer
  PROVE  ContainInv'
<1>1. /\ UNCHANGED <<program, artifact, policy, result, guestVars>>
      /\ stage = "infer" /\ stage' \in {"bounds", "infer"} /\ inferred' = Round
  BY DEF Infer
<1>2. DirectFound'
  BY <1>1 DEF ContainInv, DirectFound, Direct, Round
<1>3. Checked'
  BY <1>1 DEF Checked, Ready
<1>4. Instance' /\ RunContained'
  BY <1>1 DEF ContainInv, Instance, RunContained, guestVars
<1> QED
  BY <1>2, <1>3, <1>4 DEF ContainInv

\* A fresh store starts inside the limits, and the export is called in it.
LEMMA InstantiateStep ==
  ASSUME ContainInv, Instantiate \/ LookupExport
  PROVE  ContainInv'
<1>1. /\ UNCHANGED <<program, artifact, policy, inferred, exceeded, performed>>
      /\ fuel' \in {fuel, policy.fuel} /\ memory' \in {memory, artifact.pages}
      /\ frame' \in DOMAIN program /\ stage \in Ready /\ stage' \in Ready \cup {"done"}
      /\ stage' = "starting" => ModuleIs("start")
  BY DEF Instantiate, LookupExport, Refuse, Ready
<1>2. Granted /\ artifact.imports \subseteq policy.capabilities /\ artifact.pages <= policy.memory
  BY <1>1 DEF ContainInv, Checked
<1>3. Checked'
  BY <1>1, <1>2, SameRequired DEF Checked, Granted, Ready
<1>4. Instance' /\ DirectFound'
  BY <1>1 DEF ContainInv, Instance, DirectFound, Direct, ModuleIs
<1>5. RunContained'
  BY <1>1, <1>2 DEF ContainInv, Instance, RunContained, Ready
<1> QED
  BY <1>3, <1>4, <1>5 DEF ContainInv

\* Every step of the guest stays inside the policy.
LEMMA GuestKeeps ==
  ASSUME ContainInv,
         \/ PerformEffect \/ CallFunction \/ CallHost \/ MemoryGrowing \/ Return \/ TrapGuest
  PROVE  ContainInv'
<1>1. /\ UNCHANGED <<program, artifact, policy, inferred>> /\ stage \in {"starting", "running"}
      /\ fuel > 0 /\ fuel' = fuel - 1
  BY DEF PerformEffect, CallFunction, CallHost, MemoryGrowing, Return, TrapGuest, GuestStep
<1>2. /\ stage' \in {"starting", "lookup", "running", "done"} /\ frame \in DOMAIN program
      /\ stage' = "starting" => stage = "starting"
  BY <1>1 DEF PerformEffect, CallFunction, CallHost, MemoryGrowing, Return, TrapGuest, Stop,
              Refuse, ContainInv, Instance
<1>3. Granted /\ artifact.imports \subseteq policy.capabilities /\ artifact.pages <= policy.memory
  BY <1>1 DEF ContainInv, Checked, Ready
<1>4. Checked' /\ DirectFound'
  BY <1>1, <1>2, <1>3, SameRequired
     DEF ContainInv, Checked, Granted, DirectFound, Direct, Ready
<1>5. fuel' \in Nat /\ fuel' <= policy'.fuel /\ ~exceeded
  BY <1>1 DEF ContainInv, Instance, RunContained
<1>6. frame' \in DOMAIN program' /\ memory' \in Nat /\ memory' <= policy'.memory
      /\ (exceeded' => /\ stage' = "done"
                       /\ \/ result' = "MemoryLimitExceeded"
                          \/ result' = "Instantiation" /\ ModuleIs("start")')
  <2>1. CASE MemoryGrowing
    BY <1>1, <1>2, <1>5, <2>1
       DEF MemoryGrowing, Stop, Refuse, ModuleIs, ContainInv, Instance, RunContained
  <2>2. CASE CallFunction
    BY <1>1, <1>5, <2>2 DEF CallFunction, Callees, ContainInv, Instance, RunContained
  <2>3. CASE PerformEffect \/ CallHost \/ Return \/ TrapGuest
    <3>1. UNCHANGED <<memory, exceeded, frame>>
      BY <2>3 DEF PerformEffect, CallHost, Return, TrapGuest
    <3>2. memory \in Nat /\ memory <= policy.memory
      BY DEF ContainInv, Instance, RunContained
    <3> QED
      BY <1>1, <1>2, <1>5, <3>1, <3>2
  <2> QED
    BY <2>1, <2>2, <2>3
<1>7. performed' \subseteq policy'.effects \cup policy'.capabilities
  <2>1. performed \subseteq policy.effects \cup policy.capabilities
    BY DEF ContainInv, RunContained
  <2>2. CASE PerformEffect
    <3>1. PICK e \in Direct(frame) : performed' = performed \cup {e}
      BY <2>2 DEF PerformEffect
    <3>2. e \in Required
      BY <1>2, <3>1 DEF ContainInv, DirectFound, Required
    <3>3. e \in policy.effects
      BY <1>3, <2>2, <3>2 DEF PerformEffect, Granted
    <3> QED
      BY <1>1, <2>1, <3>1, <3>3
  <2>3. CASE CallHost
    BY <1>1, <1>3, <2>1, <2>3 DEF CallHost
  <2>4. CASE CallFunction \/ MemoryGrowing \/ Return \/ TrapGuest
    BY <1>1, <2>1, <2>4 DEF CallFunction, MemoryGrowing, Return, TrapGuest
  <2> QED
    BY <2>2, <2>3, <2>4
<1>8. Instance' /\ RunContained'
  BY <1>1, <1>2, <1>5, <1>6, <1>7 DEF ContainInv, Instance, RunContained, ModuleIs
<1> QED
  BY <1>4, <1>6, <1>8 DEF ContainInv

\* What runs stays inside its policy: effects, host functions, memory and fuel.
THEOREM RunsAreContained == SandboxSpec => []RunContained
<1>1. SandboxInit => ContainInv
  <2> SUFFICES ASSUME SandboxInit PROVE ContainInv
    OBVIOUS
  <2>1. Instance /\ Checked
    BY DEF SandboxInit, Instance, Checked, Ready
  <2>2. DirectFound
    BY DEF SandboxInit, DirectFound
  <2>3. RunContained
    BY DEF SandboxInit, RunContained
  <2> QED
    BY <2>1, <2>2, <2>3 DEF ContainInv
<1>2. ContainInv /\ [SandboxNext]_sandboxVars => ContainInv'
  <2> SUFFICES ASSUME ContainInv, [SandboxNext]_sandboxVars PROVE ContainInv'
    OBVIOUS
  <2>1. CASE UNCHANGED sandboxVars
    <3>1. /\ UNCHANGED <<program, artifact, policy, inferred, stage, result>>
          /\ UNCHANGED guestVars
      BY <2>1 DEF sandboxVars
    <3>2. Instance' /\ DirectFound'
      BY <3>1 DEF guestVars, ContainInv, Instance, DirectFound, Direct, ModuleIs
    <3>3. Checked'
      BY <3>1, SameRequired DEF ContainInv, Checked, Granted
    <3>4. RunContained'
      BY <3>1 DEF guestVars, ContainInv, RunContained, ModuleIs
    <3> QED
      BY <3>2, <3>3, <3>4 DEF ContainInv
  <2> QED
    BY <2>1, CheckStep, InferStep, InstantiateStep, GuestKeeps DEF SandboxNext
<1>3. ContainInv => RunContained
  BY DEF ContainInv
<1> QED
  BY <1>1, <1>2, <1>3, PTL DEF SandboxSpec

-----------------------------------------------------------------------------
(* Effect inference.                                                       *)

\* The effects inferred absorb those of the definitions called.
Stable == \A d \in DOMAIN program : \A c \in Callees(d) : inferred[c] \subseteq inferred[d]

\* The inductive invariant: what is inferred happens directly or below, and
\* nothing more is to be found once the loop has ended.
InferInv ==
  /\ DirectFound
  /\ \A d \in DOMAIN program : inferred[d] \subseteq MayPerform(d)
  /\ stage # "infer" => Stable
  /\ stage \notin {"infer", "bounds"} => (stage # "rejected" <=> WithinBounds)

\* A definition is below itself, and what is below a callee is below the caller.
LEMMA BelowCallee ==
  ASSUME NEW d \in DOMAIN program
  PROVE  /\ Direct(d) \subseteq MayPerform(d)
         /\ \A c \in Callees(d) : MayPerform(c) \subseteq MayPerform(d)
<1>1. d \in Below(d)
  BY DEF Below
<1>2. ASSUME NEW c \in Callees(d), NEW e \in Below(c)
      PROVE  e \in Below(d)
  <2> SUFFICES ASSUME NEW s \in SUBSET DOMAIN program, d \in s, ClosedUnderCalls(s)
               PROVE  e \in s
    BY <1>2 DEF Below
  <2>1. c \in s
    BY <1>2 DEF ClosedUnderCalls
  <2> QED
    BY <1>2, <2>1 DEF Below
<1> QED
  BY <1>1, <1>2 DEF MayPerform

\* Inferred effects that absorb those of callees contain all that can happen
\* below: the definitions whose effects are contained are closed under calls.
LEMMA StableCovers ==
  ASSUME NEW d \in DOMAIN program, DirectFound, Stable
  PROVE  MayPerform(d) \subseteq inferred[d]
<1> DEFINE s == {c \in DOMAIN program : inferred[c] \subseteq inferred[d]}
<1>1. d \in s /\ s \in SUBSET DOMAIN program
  OBVIOUS
<1>2. ClosedUnderCalls(s)
  BY DEF ClosedUnderCalls, Stable, Callees
<1>3. ASSUME NEW c \in Below(d)
      PROVE  c \in s
  BY <1>1, <1>2, <1>3 DEF Below
<1> QED
  BY <1>3 DEF MayPerform, DirectFound, Below

\* What a definition can reach depends on the program alone.
LEMMA SameReach ==
  ASSUME UNCHANGED program
  PROVE  \A d : MayPerform(d)' = MayPerform(d)
<1>1. \A d : Callees(d)' = Callees(d) /\ Direct(d)' = Direct(d)
  BY DEF Callees, Direct
<1>2. \A d : Below(d)' = Below(d)
  BY <1>1 DEF Below, ClosedUnderCalls
<1> QED
  BY <1>1, <1>2 DEF MayPerform

\* One round of inference adds nothing that cannot happen.
LEMMA RoundSound ==
  ASSUME InferInv, Infer
  PROVE  InferInv'
<1>1. /\ UNCHANGED program /\ inferred' = Round
      /\ stage' = IF Round = inferred THEN "bounds" ELSE "infer"
  BY DEF Infer
<1>2. DirectFound'
  BY <1>1 DEF InferInv, DirectFound, Direct, Round
<1>3. ASSUME NEW d \in DOMAIN program
      PROVE  Round[d] \subseteq MayPerform(d)
  <2>1. \A c \in Callees(d) : c \in DOMAIN program
    BY DEF Callees
  <2>2. \A c \in Callees(d) : inferred[c] \subseteq MayPerform(d)
    BY <1>3, <2>1, BelowCallee DEF InferInv
  <2> QED
    BY <1>3, <2>2 DEF InferInv, Round
<1>4. \A d \in DOMAIN program' : inferred'[d] \subseteq MayPerform(d)'
  BY <1>1, <1>3, SameReach
<1>5. ASSUME Round = inferred
      PROVE  Stable
  <2>1. ASSUME NEW d \in DOMAIN program, NEW c \in Callees(d)
        PROVE  inferred[c] \subseteq inferred[d]
    <3>1. inferred[d] = inferred[d] \cup UNION {inferred[b] : b \in Callees(d)}
      BY <1>5, <2>1 DEF Round
    <3> QED
      BY <2>1, <3>1
  <2> QED
    BY <2>1 DEF Stable
<1>6. stage' # "infer" => Stable'
  BY <1>1, <1>5 DEF Stable, Callees
<1> QED
  BY <1>1, <1>2, <1>4, <1>6 DEF InferInv

\* Later steps change neither the program nor what was inferred.
LEMMA InferredKept ==
  ASSUME InferInv, UNCHANGED <<program, inferred>>, stage # "infer", stage' # "infer",
         stage' \notin {"infer", "bounds"} => (stage' # "rejected" <=> WithinBounds)
  PROVE  InferInv'
<1>1. DirectFound' /\ Stable'
  BY DEF InferInv, DirectFound, Direct, Stable, Callees
<1>2. \A d \in DOMAIN program' : inferred'[d] \subseteq MayPerform(d)'
  BY SameReach DEF InferInv
<1>3. WithinBounds' <=> WithinBounds
  BY DEF WithinBounds
<1> QED
  BY <1>1, <1>2, <1>3 DEF InferInv

\* Declared bounds are accepted exactly when they cover everything that can
\* happen in and below a definition, through recursion as well.
THEOREM BoundsAreExact == SandboxSpec => []BoundsExact
<1>1. SandboxInit => InferInv
  <2> SUFFICES ASSUME SandboxInit PROVE InferInv
    OBVIOUS
  <2>1. inferred = [d \in DOMAIN program |-> Direct(d)] /\ stage = "infer"
    BY DEF SandboxInit
  <2>2. DirectFound
    BY <2>1 DEF DirectFound
  <2>3. \A d \in DOMAIN program : inferred[d] \subseteq MayPerform(d)
    BY <2>1, BelowCallee
  <2> QED
    BY <2>1, <2>2, <2>3 DEF InferInv
<1>2. InferInv /\ [SandboxNext]_sandboxVars => InferInv'
  <2> SUFFICES ASSUME InferInv, [SandboxNext]_sandboxVars PROVE InferInv'
    OBVIOUS
  <2>1. CASE Infer
    BY <2>1, RoundSound
  <2>2. CASE CheckBounds
    <3>1. /\ UNCHANGED <<program, inferred>> /\ stage = "bounds"
          /\ stage' = IF WithinBounds THEN "compiled" ELSE "rejected"
      BY <2>2 DEF CheckBounds
    <3> QED
      BY <3>1, InferredKept
  <2>3. ASSUME UNCHANGED <<program, inferred>>, stage \notin {"infer", "bounds", "rejected"},
               stage' \notin {"infer", "bounds", "rejected"}
        PROVE  InferInv'
    BY <2>3, InferredKept DEF InferInv
  <2>4. CASE \/ ExecuteI32 \/ ExecuteI64 \/ EnforceManifest \/ CompileModule \/ CheckImports
             \/ CheckMemory \/ Instantiate \/ LookupExport
    BY <2>3, <2>4 DEF ExecuteI32, ExecuteI64, Execute, EnforceManifest, CompileModule,
                      CheckImports, CheckMemory, Instantiate, LookupExport, Refuse
  <2>5. CASE \/ PerformEffect \/ CallFunction \/ CallHost \/ MemoryGrowing \/ Return
             \/ TrapGuest \/ OutOfFuel
    BY <2>3, <2>5 DEF PerformEffect, CallFunction, CallHost, MemoryGrowing, Return,
                      TrapGuest, OutOfFuel, GuestStep, Stop, Refuse
  <2>6. CASE UNCHANGED sandboxVars
    <3>1. UNCHANGED <<program, inferred, stage>>
      BY <2>6 DEF sandboxVars
    <3>2. DirectFound' /\ (Stable' <=> Stable)
      BY <3>1 DEF InferInv, DirectFound, Direct, Stable, Callees
    <3>3. \A d \in DOMAIN program' : inferred'[d] \subseteq MayPerform(d)'
      BY <3>1, SameReach DEF InferInv
    <3>4. WithinBounds' <=> WithinBounds
      BY <3>1 DEF WithinBounds, WellFormed, Bound
    <3> QED
      BY <3>1, <3>2, <3>3, <3>4 DEF InferInv
  <2> QED
    BY <2>1, <2>2, <2>4, <2>5, <2>6 DEF SandboxNext
<1>3. InferInv => BoundsExact
  <2> SUFFICES ASSUME InferInv, stage \notin {"infer", "bounds"}
               PROVE  stage # "rejected" <=>
                        \A d \in DOMAIN program : program[d].declared # <<"undeclared">> =>
                          /\ WellFormed(program[d].declared)
                          /\ MayPerform(d) \subseteq Bound(program[d].declared)
    BY DEF BoundsExact
  <2>1. \A d \in DOMAIN program : MayPerform(d) = inferred[d]
    BY StableCovers DEF InferInv
  <2> QED
    BY <2>1 DEF InferInv, WithinBounds
<1> QED
  BY <1>1, <1>2, <1>3, PTL DEF SandboxSpec

HIDE SandboxAssumption
=============================================================================
