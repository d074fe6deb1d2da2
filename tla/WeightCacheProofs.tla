------------------------- MODULE WeightCacheProofs -------------------------
(***************************************************************************)
(* Theorems about WeightCache, for every set of pages and versions, every  *)
(* file length, chunk size and number of faults.                           *)
(***************************************************************************)
EXTENDS WeightCache, SequenceTheorems, TLAPS

-----------------------------------------------------------------------------
(* Slices of a buffer *)

(* A slice of a buffer (iterateChunks) is a sequence of bytes.             *)
LEMMA SliceType ==
  ASSUME NEW buf \in Seq(Byte), NEW c \in Nat, NEW n \in Nat
  PROVE  Slice(buf, c, n) \in Seq(Byte)
<1>1. Lesser(n + c, Len(buf)) \in Nat /\ Lesser(n + c, Len(buf)) <= Len(buf)
  BY LenProperties DEF Lesser
<1>2. \A i \in n + 1 .. Lesser(n + c, Len(buf)) : buf[i] \in Byte
  BY <1>1, ElementOfSeq
<1>. QED  BY <1>1, <1>2, SubSeqProperties DEF Slice

(* A published file is a sequence of bytes of its published length.        *)
LEMMA ContentType ==
  ASSUME NEW v \in Version, NEW f \in File, CacheAssumption
  PROVE  /\ Content(v, f) \in Seq(Byte)
         /\ Len(Content(v, f)) = FileLen[v][f]
         /\ FileLen[v][f] \in Nat
<1>1. FileLen[v][f] \in Nat  BY DEF CacheAssumption
<1>2. \A p \in 1 .. FileLen[v][f] : <<v, f, p>> \in Byte
  BY <1>1 DEF Byte
<1>3. Content(v, f) \in [1 .. FileLen[v][f] -> Byte]
  BY <1>2 DEF Content
<1>. QED  BY <1>1, <1>3

(* The first n bytes of a buffer followed by its slice at n are its first  *)
(* n + c bytes: reading chunk after chunk rebuilds the file.               *)
LEMMA PrefixAndSlice ==
  ASSUME NEW buf \in Seq(Byte), NEW c \in Nat \ {0}, NEW n \in Nat
  PROVE  SubSeq(buf, 1, Lesser(n, Len(buf))) \o Slice(buf, c, n)
           = SubSeq(buf, 1, Lesser(n + c, Len(buf)))
<1>1. Len(buf) \in Nat  BY LenProperties
<1>2. CASE n <= Len(buf)
  <2>1. Lesser(n, Len(buf)) = n  BY <1>2 DEF Lesser
  <2>2. Lesser(n + c, Len(buf)) \in n .. Len(buf)  BY <1>1, <1>2 DEF Lesser
  <2>. QED  BY <1>1, <1>2, <2>1, <2>2, ConcatAdjacentSubSeq DEF Slice
<1>3. CASE n > Len(buf)
  <2>1. Lesser(n, Len(buf)) = Len(buf) /\ Lesser(n + c, Len(buf)) = Len(buf)
    BY <1>1, <1>3 DEF Lesser
  <2>2. Slice(buf, c, n) = <<>>
    BY <1>1, <1>3, <2>1, SubSeqEmpty DEF Slice
  <2>. QED  BY <2>1, <2>2, SubSeqFull, ConcatEmptySeq
<1>4. n <= Len(buf) \/ n > Len(buf)  BY <1>1
<1>. QED  BY <1>2, <1>3, <1>4

(* A prefix as long as the buffer is the buffer.                           *)
LEMMA FullPrefix ==
  ASSUME NEW buf \in Seq(Byte), NEW n \in Nat,
         Len(SubSeq(buf, 1, Lesser(n, Len(buf)))) = Len(buf)
  PROVE  SubSeq(buf, 1, Lesser(n, Len(buf))) = buf
<1>1. Len(buf) \in Nat  BY LenProperties
<1>2. Lesser(n, Len(buf)) \in 0 .. Len(buf)  BY <1>1 DEF Lesser
<1>3. \A i \in 1 .. Lesser(n, Len(buf)) : buf[i] \in Byte
  BY <1>1, <1>2, ElementOfSeq
<1>4. Len(SubSeq(buf, 1, Lesser(n, Len(buf)))) = Lesser(n, Len(buf))
  BY <1>1, <1>2, <1>3, SubSeqProperties
<1>. QED  BY <1>4, SubSeqFull

-----------------------------------------------------------------------------
(* Type correctness *)

(* An empty store's record (readCurrentVersion) is well-formed.            *)
LEMMA NoRecordType == NoRecord \in Record
BY DEF NoRecord, Record, FileInfo

(* A page without a load is well-formed.                                   *)
LEMMA IdleType == Idle \in Load
<1>1. NoBytes \in [File -> Seq(Byte)]  BY EmptySeq DEF NoBytes
<1>2. 1 \in File  BY DEF File
<1>. QED  BY <1>1, <1>2, NoRecordType DEF Idle, Load, Phase

(* Falling back to the download leaves a well-formed load.                 *)
LEMMA MissType ==
  ASSUME NEW ld \in Load
  PROVE  Miss(ld) \in Load
<1>1. NoBytes \in [File -> Seq(Byte)]  BY EmptySeq DEF NoBytes
<1>2. 1 \in File  BY DEF File
<1>. QED  BY <1>1, <1>2, NoRecordType DEF Miss, Load, Phase

(* Resolving leaves a well-formed load.                                    *)
LEMMA DoneType ==
  ASSUME NEW ld \in Load
  PROVE  Done(ld) \in Load
BY IdleType DEF Done, Load, Phase

(* Going on to the next file leaves a well-formed load.                    *)
LEMMA NextFileType ==
  ASSUME NEW ld \in Load, NEW p \in Phase
  PROVE  NextFile(ld, p) \in Load
<1>1. CASE ld.file = LastFile
  <2>1. 1 \in File  BY DEF File
  <2>. QED  BY <1>1, <2>1 DEF NextFile, Load
<1>2. CASE ld.file # LastFile
  <2>1. ld.file + 1 \in File  BY <1>2 DEF File, LastFile, Load
  <2>. QED  BY <1>2, <2>1 DEF NextFile, Load
<1>. QED  BY <1>1, <1>2

(* Going on to the next file changes the phase, file and index alone.      *)
LEMMA NextFileFields ==
  ASSUME NEW ld \in Load, NEW p \in Phase
  PROVE  /\ NextFile(ld, p).want = ld.want
         /\ NextFile(ld, p).size = ld.size
         /\ NextFile(ld, p).store = ld.store
         /\ NextFile(ld, p).rec = ld.rec
         /\ NextFile(ld, p).bufs = ld.bufs
         /\ NextFile(ld, p).todo = ld.todo
         /\ NextFile(ld, p).index = 0
         /\ ld.file = LastFile => NextFile(ld, p).pc = p /\ NextFile(ld, p).file = 1
         /\ ld.file # LastFile => NextFile(ld, p).pc = ld.pc /\ NextFile(ld, p).file = ld.file + 1
BY DEF NextFile, Load

(* Going on to the next chunk leaves a well-formed load.                   *)
LEMMA NextChunkType ==
  ASSUME NEW ld \in Load
  PROVE  [ld EXCEPT !.index = @ + 1] \in Load
<1>1. ld.index + 1 \in Nat  BY DEF Load
<1>. QED  BY <1>1 DEF Load

(* A load's chunk size is a number.                                        *)
LEMMA SizeType ==
  ASSUME CacheAssumption, NEW ld \in Load
  PROVE  ld.size \in Nat
<1>1. ld.size \in ChunkSize \cup {0}  BY DEF Load
<1>2. ChunkSize \subseteq Nat  BY DEF CacheAssumption
<1>3. \A c \in ChunkSize \cup {0} : c \in Nat  BY <1>2
<1>. QED  BY <1>1, <1>3

(* Resolving keeps the version asked for and the bytes held.               *)
LEMMA DoneFields ==
  ASSUME NEW ld \in Load
  PROVE  Done(ld).pc = "done" /\ Done(ld).want = ld.want /\ Done(ld).bufs = ld.bufs
BY IdleType DEF Done, Load

(* A step of one page to a well-formed load keeps all well-formed.         *)
LEMMA BecomeType ==
  ASSUME TypeOK, NEW l \in Loader, NEW ld \in Load, Become(l, ld)
  PROVE  load' \in [Loader -> Load]
BY DEF TypeOK, Become

(* With a version, the key a load is at (chunkKey) is well-formed.         *)
LEMMA NextKeyType ==
  ASSUME TypeOK, NEW l \in Loader, load[l].want # None
  PROVE  NextKey(l) \in ChunkKey
BY DEF TypeOK, Load, NextKey, KeyOf, ChunkKey

(* In these phases the page knows its manifest.                            *)
HasManifest(ld) ==
  ld.pc \in Phase \ {"idle", "manifest", "failed"} => ld.want \in Version

(* The type invariant needs this much more to be inductive: what is put in *)
(* the store has a version, and a known size.                              *)
TypeInv ==
  /\ TypeOK
  /\ \A l \in Loader : HasManifest(load[l])

(* The type invariant holds at first.                                      *)
LEMMA TypeInvInit == CacheAssumption /\ Init => TypeInv
<1>. SUFFICES ASSUME CacheAssumption, Init PROVE TypeInv
  OBVIOUS
<1>1. faults \in 0 .. MaxFaults  BY DEF Init, CacheAssumption
<1>2. Present = {}  BY DEF Init, Present
<1>3. load \in [Loader -> Load]  BY IdleType DEF Init
<1>4. \A l \in Loader : HasManifest(load[l])  BY DEF Init, Idle, HasManifest
<1>. QED  BY <1>1, <1>2, <1>3, <1>4, NoRecordType DEF Init, TypeInv, TypeOK

(* A step that gives page l a well-formed load and leaves the store and    *)
(* the origin alone preserves the type invariant.                          *)
LEMMA LocalStep ==
  ASSUME TypeInv, NEW l \in Loader, NEW ld \in Load, HasManifest(ld), Become(l, ld),
         UNCHANGED <<storage, deployed, chunks, current, evicted>>, faults' \in 0 .. MaxFaults
  PROVE  TypeInv'
<1>1. load' \in [Loader -> Load]  BY BecomeType DEF TypeInv
<1>2. \A m \in Loader : load'[m] = IF m = l THEN ld ELSE load[m]
  BY DEF TypeInv, TypeOK, Become
<1>3. \A m \in Loader : HasManifest(load[m])'
  BY <1>2 DEF TypeInv, HasManifest
<1>. QED  BY <1>1, <1>3 DEF TypeInv, TypeOK, Present

(* A fault stays within the bound on faults.                               *)
LEMMA FaultType ==
  ASSUME TypeOK, CacheAssumption, Fault
  PROVE  faults' \in 0 .. MaxFaults
BY DEF TypeOK, CacheAssumption, Fault

(* Every step of a load preserves the type invariant.                      *)
LEMMA TypeInvProceed ==
  ASSUME CacheAssumption, TypeInv, NEW l \in Loader, Proceed(l)
  PROVE  TypeInv'
<1>. DEFINE ld == load[l]
<1>1. /\ ld \in Load /\ HasManifest(ld)
      /\ faults \in 0 .. MaxFaults
  BY DEF TypeInv, TypeOK
<1>2. CASE Visit(l)
  <2>1. PICK c \in ChunkSize : Become(l, [Idle EXCEPT !.pc = "manifest", !.size = c])
    BY <1>2 DEF Visit
  <2>2. [Idle EXCEPT !.pc = "manifest", !.size = c] \in Load
    BY IdleType DEF Load, Phase
  <2>3. HasManifest([Idle EXCEPT !.pc = "manifest", !.size = c])
    BY DEF HasManifest, Idle
  <2>. QED  BY <1>1, <1>2, <2>1, <2>2, <2>3, LocalStep DEF Visit
<1>3. CASE FetchManifest(l)
  <2>1. [ld EXCEPT !.pc = "open", !.want = deployed] \in Load
    BY <1>1 DEF TypeInv, TypeOK, Load, Phase
  <2>2. HasManifest([ld EXCEPT !.pc = "open", !.want = deployed])
    BY <1>1 DEF TypeInv, TypeOK, Load, HasManifest
  <2>. QED  BY <1>1, <1>3, <2>1, <2>2, LocalStep DEF FetchManifest
<1>4. CASE OpenStore(l)
  <2>1. [ld EXCEPT !.pc = "current", !.store = TRUE] \in Load
    BY <1>1 DEF Load, Phase
  <2>2. HasManifest([ld EXCEPT !.pc = "current", !.store = TRUE])
    BY <1>1, <1>4 DEF OpenStore, Load, HasManifest
  <2>. QED  BY <1>1, <1>4, <2>1, <2>2, LocalStep DEF OpenStore
<1>5. CASE ReadCurrent(l)
  <2>1. [ld EXCEPT !.pc = "read", !.rec = current] \in Load
    BY <1>1 DEF TypeInv, TypeOK, Load, Phase
  <2>2. HasManifest([ld EXCEPT !.pc = "read", !.rec = current]) /\ HasManifest(Miss(ld))
    BY <1>1, <1>5 DEF ReadCurrent, Load, HasManifest, Miss, Phase
  <2>. QED  BY <1>1, <1>5, <2>1, <2>2, MissType, LocalStep DEF ReadCurrent
<1>6. CASE ReadChunk(l)
  <2>. DEFINE rd == [ld EXCEPT !.bufs[ld.file] = Joined(l)]
  <2>1. ld.want # None
    BY <1>1, <1>6 DEF ReadChunk, HasManifest, Phase, CacheAssumption
  <2>2. Joined(l) \in Seq(Byte)
    BY <1>1, <1>6, ConcatProperties DEF ReadChunk, Readable, Joined, TypeInv, TypeOK, Load
  <2>3. rd \in Load  BY <1>1, <2>2 DEF Load
  <2>4. [rd EXCEPT !.index = @ + 1] \in Load  BY <2>3, NextChunkType
  <2>5. NextFile(rd, "list") \in Load  BY <2>3, NextFileType DEF Phase
  <2>6. /\ HasManifest([rd EXCEPT !.index = @ + 1])
        /\ HasManifest(NextFile(rd, "list"))
    <3>1. rd.want \in Version
      BY <1>1, <1>6 DEF ReadChunk, HasManifest, Phase, Load
    <3>. QED  BY <2>3, <3>1, NextFileFields DEF HasManifest, Load, Phase
  <2>7. Become(l, IF IsLastChunk(l) THEN NextFile(rd, "list") ELSE [rd EXCEPT !.index = @ + 1])
    BY <1>6 DEF ReadChunk
  <2>. QED  BY <1>1, <1>6, <2>4, <2>5, <2>6, <2>7, LocalStep DEF ReadChunk
<1>7. CASE ReadMiss(l)
  <2>1. HasManifest(Miss(ld))
    BY <1>1, <1>7 DEF ReadMiss, Load, HasManifest, Miss, Phase
  <2>. QED  BY <1>1, <1>7, <2>1, MissType, LocalStep DEF ReadMiss
<1>8. CASE FetchFile(l)
  <2>. DEFINE fd   == [ld EXCEPT !.bufs[ld.file] = Content(deployed, ld.file)]
              next == NextFile(fd, "quota")
  <2>1. Content(deployed, ld.file) \in Seq(Byte)
    BY <1>1, ContentType DEF TypeInv, TypeOK, Load
  <2>2. fd \in Load /\ fd.want \in Version
    BY <1>1, <1>8, <2>1 DEF FetchFile, HasManifest, Phase, Load
  <2>3. next \in Load /\ next.want \in Version
    BY <2>2, NextFileType, NextFileFields DEF Phase
  <2>4. Done(next) \in Load /\ Done(next).want \in Version
    BY <2>3, DoneType, DoneFields
  <2>5. Become(l, IF next.pc = "quota" /\ ~next.store THEN Done(next) ELSE next)
    BY <1>8 DEF FetchFile
  <2>. QED  BY <1>1, <1>8, <2>3, <2>4, <2>5, LocalStep DEF FetchFile, HasManifest
<1>9. CASE DecideToCache(l)
  <2>1. [ld EXCEPT !.pc = "put", !.rec.hash = ld.want] \in Load
    BY <1>1 DEF Load, Phase, Record
  <2>2. HasManifest([ld EXCEPT !.pc = "put", !.rec.hash = ld.want])
    BY <1>1, <1>9 DEF DecideToCache, Load, HasManifest
  <2>. QED  BY <1>1, <1>9, <2>1, <2>2, LocalStep DEF DecideToCache
<1>10. CASE PutChunk(l)
  <2>. DEFINE buf    == ld.bufs[ld.file]
              offset == ld.index * ld.size
              info   == [total |-> Len(buf), count |-> ld.index + 1]
              pd     == [ld EXCEPT !.rec.files[ld.file] = info]
              next   == IF IsLastSlice(buf, ld.size, offset)
                          THEN NextFile(pd, "record")
                          ELSE [ld EXCEPT !.index = @ + 1]
  <2>1. /\ ld.want \in Version /\ NextKey(l) \in ChunkKey
        /\ buf \in Seq(Byte) /\ offset \in Nat /\ ld.size \in Nat
    <3>1. ld.want \in Version
      BY <1>1, <1>10 DEF PutChunk, HasManifest, Phase
    <3>2. NextKey(l) \in ChunkKey
      BY <1>1, <3>1, NextKeyType DEF TypeInv, CacheAssumption
    <3>3. ld.size \in Nat  BY <1>1, SizeType
    <3>. QED  BY <1>1, <3>1, <3>2, <3>3 DEF Load
  <2>2. info \in FileInfo
    BY <1>1, <2>1, LenProperties DEF FileInfo, Load
  <2>3. pd \in Load
    BY <1>1, <2>2 DEF Load, Record
  <2>4. next \in Load
    <3>1. NextFile(pd, "record") \in Load  BY <2>3, NextFileType DEF Phase
    <3>2. [ld EXCEPT !.index = @ + 1] \in Load  BY <1>1, NextChunkType
    <3>. QED  BY <3>1, <3>2
  <2>5. HasManifest(next)
    <3>1. pd.want = ld.want  BY <1>1 DEF Load
    <3>2. NextFile(pd, "record").want = ld.want
      BY <2>3, <3>1, NextFileFields DEF Phase
    <3>. QED  BY <1>1, <2>1, <3>2 DEF HasManifest, Load
  <2>6. Become(l, next)
    BY <1>10 DEF PutChunk
  <2>7. load' \in [Loader -> Load]  BY <2>4, <2>6, BecomeType DEF TypeInv
  <2>8. \A m \in Loader : HasManifest(load[m])'
    <3>1. \A m \in Loader : load'[m] = IF m = l THEN next ELSE load[m]
      BY <2>6 DEF TypeInv, TypeOK, Become
    <3>. QED  BY <2>5, <3>1 DEF TypeInv, HasManifest
  <2>9. Slice(buf, ld.size, offset) \in Seq(Byte)  BY <2>1, SliceType
  <2>10. /\ Present' = Present \cup {NextKey(l)}
         /\ \A k \in Present' : chunks'[k] \in Seq(Byte)
    BY <1>10, <2>9 DEF PutChunk, AfterPut, NextSlice, Present, TypeInv, TypeOK
  <2>11. /\ UNCHANGED <<storage, deployed, current, faults>>
         /\ evicted' = evicted \ {NextKey(l)}
    BY <1>10 DEF PutChunk
  <2>. QED  BY <1>1, <2>1, <2>7, <2>8, <2>10, <2>11 DEF TypeInv, TypeOK
<1>11. CASE PutRecord(l)
  <2>1. [ld EXCEPT !.pc = "list"] \in Load  BY <1>1 DEF Load, Phase
  <2>2. HasManifest([ld EXCEPT !.pc = "list"])
    BY <1>1, <1>11 DEF PutRecord, HasManifest, Phase, Load
  <2>3. load' \in [Loader -> Load]
    BY <1>11, <2>1, BecomeType DEF PutRecord, TypeInv
  <2>4. \A m \in Loader : HasManifest(load[m])'
    BY <1>1, <1>11, <2>2 DEF PutRecord, Become, TypeInv, TypeOK, HasManifest
  <2>. QED  BY <1>1, <1>11, <2>3, <2>4 DEF PutRecord, TypeInv, TypeOK, Present, Load
<1>12. CASE List(l)
  <2>. DEFINE orphans == Present \ RecordKeys(ld.rec)
  <2>1. [ld EXCEPT !.pc = "sweep", !.todo = orphans] \in Load
    BY <1>1 DEF TypeInv, TypeOK, Load, Phase
  <2>2. HasManifest([ld EXCEPT !.pc = "sweep", !.todo = orphans])
    BY <1>1, <1>12 DEF List, HasManifest, Phase, Load
  <2>3. Done(ld) \in Load /\ HasManifest(Done(ld))
    BY <1>1, <1>12, DoneType, DoneFields DEF List, HasManifest, Phase
  <2>. QED  BY <1>1, <1>12, <2>1, <2>2, <2>3, LocalStep DEF List
<1>13. CASE DeleteOrphan(l)
  <2>1. PICK k \in ld.todo :
          /\ chunks' = [j \in Present \ {k} |-> chunks[j]]
          /\ Become(l, IF ld.todo = {k} THEN Done(ld) ELSE [ld EXCEPT !.todo = @ \ {k}])
    BY <1>13 DEF DeleteOrphan
  <2>2. [ld EXCEPT !.todo = @ \ {k}] \in Load /\ HasManifest([ld EXCEPT !.todo = @ \ {k}])
    BY <1>1 DEF Load, HasManifest
  <2>3. Done(ld) \in Load /\ HasManifest(Done(ld))
    BY <1>1, <1>13, DoneType, DoneFields DEF DeleteOrphan, HasManifest, Phase
  <2>4. load' \in [Loader -> Load]
    BY <2>1, <2>2, <2>3, BecomeType DEF TypeInv
  <2>5. \A m \in Loader : HasManifest(load[m])'
    BY <1>1, <2>1, <2>2, <2>3 DEF Become, TypeInv, TypeOK, HasManifest
  <2>6. Present' \subseteq Present /\ \A j \in Present' : chunks'[j] = chunks[j]
    BY <2>1 DEF Present
  <2>. QED  BY <1>1, <1>13, <2>4, <2>5, <2>6 DEF DeleteOrphan, TypeInv, TypeOK
<1>14. CASE Leave(l)
  <2>1. HasManifest(Idle)  BY DEF Idle, HasManifest
  <2>. QED  BY <1>1, <1>14, <2>1, IdleType, LocalStep DEF Leave
<1>15. CASE DecideNotToCache(l) \/ PutExceeds(l)
  <2>1. Done(ld) \in Load /\ HasManifest(Done(ld))
    BY <1>1, <1>15, DoneType, DoneFields DEF DecideNotToCache, PutExceeds, HasManifest, Phase
  <2>. QED  BY <1>1, <1>15, <2>1, LocalStep DEF DecideNotToCache, PutExceeds
<1>. QED  BY <1>2, <1>3, <1>4, <1>5, <1>6, <1>7, <1>8, <1>9, <1>10, <1>11, <1>12, <1>13, <1>14,
             <1>15 DEF Proceed

(* Every fault of a load preserves the type invariant.                     *)
LEMMA TypeInvDisturb ==
  ASSUME CacheAssumption, TypeInv, NEW l \in Loader, Disturb(l)
  PROVE  TypeInv'
<1>. DEFINE ld == load[l]
<1>1. /\ ld \in Load /\ HasManifest(ld)
      /\ faults' \in 0 .. MaxFaults
  BY FaultType DEF TypeInv, TypeOK, Disturb, NoStore, DownloadFails, StoreRejects, Crash
<1>2. CASE NoStore(l)
  <2>1. [ld EXCEPT !.pc = "fetch"] \in Load  BY <1>1 DEF Load, Phase
  <2>2. HasManifest([ld EXCEPT !.pc = "fetch"])
    BY <1>1, <1>2 DEF NoStore, HasManifest, Phase, Load
  <2>. QED  BY <1>1, <1>2, <2>1, <2>2, LocalStep DEF NoStore
<1>3. CASE DownloadFails(l)
  <2>1. /\ [Idle EXCEPT !.pc = "failed"] \in Load
        /\ HasManifest([Idle EXCEPT !.pc = "failed"])
    BY IdleType DEF Idle, Load, Phase, HasManifest
  <2>. QED  BY <1>1, <1>3, <2>1, LocalStep DEF DownloadFails
<1>4. CASE StoreRejects(l)
  <2>1. ld.want \in Version  BY <1>1, <1>4 DEF StoreRejects, HasManifest, Phase
  <2>2. Done(ld) \in Load /\ HasManifest(Done(ld))
    BY <1>1, <2>1, DoneType, DoneFields DEF HasManifest
  <2>3. Miss(ld) \in Load /\ HasManifest(Miss(ld))
    BY <1>1, <2>1, MissType DEF HasManifest, Miss, Load
  <2>. QED  BY <1>1, <1>4, <2>2, <2>3, LocalStep DEF StoreRejects
<1>5. CASE Crash(l)
  <2>1. HasManifest(Idle)  BY DEF Idle, HasManifest
  <2>. QED  BY <1>1, <1>5, <2>1, IdleType, LocalStep DEF Crash
<1>. QED  BY <1>2, <1>3, <1>4, <1>5 DEF Disturb

(* Eviction, clearing and publishing preserve the type invariant.          *)
LEMMA TypeInvEnvironment ==
  ASSUME CacheAssumption, TypeInv,
         EvictChunk \/ ClearStore \/ \E v \in Version : Deploy(v)
  PROVE  TypeInv'
<1>1. faults' \in 0 .. MaxFaults
  BY FaultType DEF TypeInv, EvictChunk, ClearStore, Deploy
<1>2. load' = load  BY DEF EvictChunk, ClearStore, Deploy
<1>3. CASE EvictChunk
  <2>1. PICK k \in Present : chunks' = [j \in Present \ {k} |-> chunks[j]]
                            /\ evicted' = evicted \cup {k}
    BY <1>3 DEF EvictChunk
  <2>2. Present' \subseteq Present /\ \A j \in Present' : chunks'[j] = chunks[j]
    BY <2>1 DEF Present
  <2>. QED  BY <1>1, <1>2, <1>3, <2>1, <2>2 DEF EvictChunk, TypeInv, TypeOK, HasManifest
<1>4. CASE ClearStore
  <2>1. Present' = {}  BY <1>4 DEF ClearStore, Present
  <2>. QED  BY <1>1, <1>2, <1>4, <2>1, NoRecordType DEF ClearStore, TypeInv, TypeOK, HasManifest
<1>5. CASE \E v \in Version : Deploy(v)
  BY <1>1, <1>2, <1>5 DEF Deploy, TypeInv, TypeOK, HasManifest, Present
<1>. QED  BY <1>3, <1>4, <1>5

(* Every step preserves the type invariant.                                *)
LEMMA TypeInvNext == CacheAssumption /\ TypeInv /\ [Next]_vars => TypeInv'
<1>. SUFFICES ASSUME CacheAssumption, TypeInv, [Next]_vars PROVE TypeInv'
  OBVIOUS
<1>1. CASE Next
  BY <1>1, TypeInvProceed, TypeInvDisturb, TypeInvEnvironment DEF Next
<1>2. CASE UNCHANGED vars
  BY <1>2 DEF vars, TypeInv, TypeOK, HasManifest, Present
<1>. QED  BY <1>1, <1>2

(* The store, the record and every load keep their shapes under every step *)
(* of every page and every fault.                                          *)
THEOREM TypeCorrect == Safety => []TypeOK
<1>1. Init => TypeInv  BY TypeInvInit, CacheAssumption
<1>2. TypeInv /\ [Next]_vars => TypeInv'  BY TypeInvNext, CacheAssumption
<1>3. TypeInv => TypeOK  BY DEF TypeInv
<1>. QED  BY <1>1, <1>2, <1>3, PTL DEF Safety

-----------------------------------------------------------------------------
(* Loads are exact *)

(* All pages use the same chunkSizeBytes.                                  *)
OneChunkSize == \A c, d \in ChunkSize : c = d

(* The file is held as published.                                          *)
Exact(ld, f) == ld.bufs[f] = Content(ld.want, f)

(* The first n bytes of a published file.                                  *)
Prefix(v, f, n) == SubSeq(Content(v, f), 1, Lesser(n, Len(Content(v, f))))

(* The record has the file's published length.                             *)
TotalExact(r, f) == r.files[f].total = FileLen[r.hash][f]

(* The record has every file's published length.                           *)
RecordExact(r) == r.hash \in Version => \A f \in File : TotalExact(r, f)

(* Whatever page wrote it, a chunk is the slice its key says.              *)
StoreExact ==
  \A k \in Present, c \in ChunkSize :
    chunks[k] = Slice(Content(k.hash, k.file), c, k.index * c)

(* What a load knows in each phase, when the origin serves version v.      *)
LoadInv(ld, v) ==
  /\ ld.pc \in {"idle", "manifest", "failed"} => ld.want = None
  /\ ld.pc \notin {"idle", "done", "failed"} => ld.size \in ChunkSize
  /\ ld.pc \in {"open", "current", "read", "fetch"} => ld.want = v
  /\ ld.pc \in {"manifest", "open", "current"} =>
       ld.bufs = NoBytes /\ ld.file = 1 /\ ld.index = 0
  /\ ld.pc = "read" =>
       /\ ld.rec.hash = ld.want
       /\ RecordExact(ld.rec)
       /\ \A f \in File : f < ld.file => Exact(ld, f)
       /\ ld.bufs[ld.file] = Prefix(ld.want, ld.file, ld.index * ld.size)
       /\ \A f \in File : f > ld.file => ld.bufs[f] = <<>>
  /\ ld.pc = "fetch" => \A f \in File : f < ld.file => Exact(ld, f)
  /\ ld.pc = "quota" => ld.file = 1
  /\ ld.pc = "put" =>
       /\ ld.rec.hash = ld.want
       /\ \A f \in File : f < ld.file => TotalExact(ld.rec, f)
  /\ ld.pc = "record" => ld.rec.hash = ld.want /\ RecordExact(ld.rec)
  /\ ld.pc \in {"quota", "put", "record", "list", "sweep", "done"} =>
       \A f \in File : Exact(ld, f)

(* The inductive invariant: what is stored, recorded or held is exact.     *)
ExactInv ==
  /\ TypeInv
  /\ StoreExact
  /\ RecordExact(current)
  /\ \A l \in Loader : LoadInv(load[l], deployed)

(* Nothing is stored, recorded or held at first: all of it is exact.       *)
LEMMA ExactInvInit == CacheAssumption /\ Init => ExactInv
<1>. SUFFICES ASSUME CacheAssumption, Init PROVE ExactInv
  OBVIOUS
<1>1. TypeInv  BY TypeInvInit
<1>2. StoreExact  BY DEF Init, StoreExact, Present
<1>3. RecordExact(current)  BY DEF Init, NoRecord, RecordExact, CacheAssumption
<1>4. \A l \in Loader : LoadInv(load[l], deployed)
  BY DEF Init, LoadInv, Idle
<1>. QED  BY <1>1, <1>2, <1>3, <1>4 DEF ExactInv

(* Other loads do not notice the step of one.                              *)
LEMMA OtherLoads ==
  ASSUME ExactInv, NEW l \in Loader, NEW ld, LoadInv(ld, deployed), Become(l, ld),
         deployed' = deployed
  PROVE  \A m \in Loader : LoadInv(load[m], deployed)'
<1>1. \A m \in Loader : load'[m] = IF m = l THEN ld ELSE load[m]
  BY DEF ExactInv, TypeInv, TypeOK, Become
<1>. QED  BY <1>1 DEF ExactInv

(* After a miss nothing is claimed of the bytes held.                      *)
LEMMA MissInv ==
  ASSUME NEW ld \in Load, NEW v, LoadInv(ld, v), ld.pc \in {"current", "read"}
  PROVE  LoadInv(Miss(ld), v)
<1>1. /\ Miss(ld).pc = "fetch" /\ Miss(ld).file = 1
      /\ Miss(ld).want = ld.want /\ Miss(ld).size = ld.size
  BY DEF Miss, Load
<1>2. \A f \in File : ~(f < 1)  BY DEF File
<1>. QED  BY <1>1, <1>2 DEF LoadInv

(* A load that resolves with exact files keeps its invariant.              *)
LEMMA DoneInv ==
  ASSUME NEW ld \in Load, NEW v, \A f \in File : Exact(ld, f)
  PROVE  LoadInv(Done(ld), v)
BY DoneFields DEF LoadInv, Exact

(* Reading one more chunk extends the prefix; a file accepted as complete  *)
(* is the published file.                                                  *)
LEMMA ReadChunkExact ==
  ASSUME CacheAssumption, ExactInv, NEW l \in Loader, ReadChunk(l)
  PROVE  /\ Joined(l) = Prefix(load[l].want, load[l].file, (load[l].index + 1) * load[l].size)
         /\ IsLastChunk(l) => Joined(l) = Content(load[l].want, load[l].file)
<1>. DEFINE ld == load[l]
            con == Content(ld.want, ld.file)
            n  == ld.index * ld.size
<1>1. /\ ld \in Load /\ LoadInv(ld, deployed) /\ ld.pc = "read"
      /\ ld.want \in Version /\ ld.file \in File
  BY DEF ExactInv, TypeInv, TypeOK, HasManifest, Phase, ReadChunk, Load
<1>2. ld.size \in ChunkSize /\ ld.size \in Nat \ {0} /\ ld.index \in Nat /\ n \in Nat
  <2>1. ld.size \in ChunkSize  BY <1>1 DEF LoadInv
  <2>2. ld.size \in Nat \ {0}  BY <2>1 DEF CacheAssumption
  <2>3. ld.index \in Nat  BY <1>1 DEF Load
  <2>. QED  BY <2>1, <2>2, <2>3
<1>3. con \in Seq(Byte) /\ Len(con) = FileLen[ld.want][ld.file]
  BY <1>1, ContentType
<1>4. NextKey(l) \in Present  BY DEF ReadChunk, Readable
<1>5. chunks[NextKey(l)] = Slice(con, ld.size, n)
  BY <1>2, <1>4 DEF ExactInv, StoreExact, NextKey, KeyOf
<1>6. ld.bufs[ld.file] = SubSeq(con, 1, Lesser(n, Len(con)))
  BY <1>1 DEF LoadInv, Prefix
<1>7. Joined(l) = SubSeq(con, 1, Lesser(n + ld.size, Len(con)))
  BY <1>2, <1>3, <1>5, <1>6, PrefixAndSlice DEF Joined
<1>8. n + ld.size = (ld.index + 1) * ld.size  BY <1>2
<1>9. ASSUME IsLastChunk(l) PROVE Joined(l) = con
  <2>1. Len(Joined(l)) = Len(con)
    BY <1>1, <1>3, <1>9 DEF ReadChunk, Readable, InfoOf, LoadInv, RecordExact, TotalExact
  <2>2. n + ld.size \in Nat  BY <1>2
  <2>. QED  BY <1>3, <1>7, <2>1, <2>2, FullPrefix
<1>. QED  BY <1>7, <1>8, <1>9 DEF Prefix

(* A step that leaves the store alone preserves exactness when the load it *)
(* leads to is exact.                                                      *)
LEMMA LocalExact ==
  ASSUME ExactInv, TypeInv', NEW l \in Loader, NEW ld, LoadInv(ld, deployed), Become(l, ld),
         UNCHANGED <<deployed, chunks, current>>
  PROVE  ExactInv'
<1>1. \A m \in Loader : LoadInv(load[m], deployed)'  BY OtherLoads
<1>2. StoreExact' /\ RecordExact(current)'
  BY DEF ExactInv, StoreExact, Present, RecordExact, TotalExact
<1>. QED  BY <1>1, <1>2 DEF ExactInv

(* After a complete file the next one starts empty, after the last one the *)
(* load is a hit.                                                          *)
LEMMA FileReadInv ==
  ASSUME CacheAssumption, NEW rd \in Load, NEW v \in Version,
         rd.pc = "read", rd.want = v, rd.size \in ChunkSize,
         rd.rec.hash = rd.want, RecordExact(rd.rec),
         \A f \in File : f <= rd.file => Exact(rd, f),
         \A f \in File : f > rd.file => rd.bufs[f] = <<>>
  PROVE  LoadInv(NextFile(rd, "list"), v)
<1>1. PICK nf : nf = NextFile(rd, "list")  OBVIOUS
<1>2. /\ nf.want = rd.want /\ nf.size = rd.size /\ nf.rec = rd.rec /\ nf.bufs = rd.bufs
      /\ nf.index = 0
  BY <1>1, NextFileFields DEF Phase
<1>3. CASE rd.file = LastFile
  <2>1. nf.pc = "list"  BY <1>1, <1>3, NextFileFields DEF Phase
  <2>2. \A f \in File : Exact(nf, f)  BY <1>2, <1>3 DEF Exact, File, LastFile
  <2>. QED  BY <1>1, <1>2, <2>1, <2>2 DEF LoadInv
<1>4. CASE rd.file # LastFile
  <2>1. nf.pc = "read" /\ nf.file = rd.file + 1  BY <1>1, <1>4, NextFileFields DEF Phase
  <2>2. rd.file \in File /\ nf.file \in File /\ nf.file > rd.file
    BY <1>4, <2>1 DEF File, LastFile, Load
  <2>3. \A f \in File : f < nf.file => Exact(nf, f)
    BY <1>2, <2>1, <2>2 DEF Exact, File
  <2>4. \A f \in File : f >= nf.file => nf.bufs[f] = <<>>
    BY <1>2, <2>1, <2>2 DEF File
  <2>5. nf.bufs[nf.file] = Prefix(nf.want, nf.file, nf.index * nf.size)
    <3>1. nf.index * nf.size = 0
      <4>1. nf.size \in Nat  BY <1>2, SizeType
      <4>. QED  BY <1>2, <4>1
    <3>2. Lesser(0, Len(Content(nf.want, nf.file))) = 0
      BY <1>2, <2>2, ContentType DEF Lesser
    <3>3. Prefix(nf.want, nf.file, 0) = <<>>  BY <3>2, SubSeqEmpty DEF Prefix
    <3>4. nf.bufs[nf.file] = <<>>  BY <2>2, <2>4 DEF File
    <3>. QED  BY <3>1, <3>3, <3>4
  <2>6. \A f \in File : f > nf.file => nf.bufs[f] = <<>>  BY <2>2, <2>4 DEF File
  <2>. QED  BY <1>1, <1>2, <2>1, <2>3, <2>5, <2>6 DEF LoadInv
<1>. QED  BY <1>3, <1>4

(* Reading a chunk (readCachedFile) preserves exactness.                   *)
LEMMA ReadChunkInv ==
  ASSUME CacheAssumption, ExactInv, TypeInv', NEW l \in Loader, ReadChunk(l)
  PROVE  ExactInv'
<1>. DEFINE ld == load[l]
            rd == [ld EXCEPT !.bufs[ld.file] = Joined(l)]
            nx == [rd EXCEPT !.index = @ + 1]
            nf == NextFile(rd, "list")
<1>1. /\ ld \in Load /\ LoadInv(ld, deployed) /\ ld.pc = "read"
      /\ ld.file \in File /\ ld.index \in Nat
  BY DEF ExactInv, TypeInv, TypeOK, ReadChunk, Load
<1>2. Joined(l) \in Seq(Byte)
  BY <1>1, ConcatProperties DEF ReadChunk, Readable, Joined, ExactInv, TypeInv, TypeOK, Load
<1>3. rd \in Load  BY <1>1, <1>2 DEF Load
<1>4. /\ rd.pc = "read" /\ rd.want = ld.want /\ rd.size = ld.size /\ rd.rec = ld.rec
      /\ rd.file = ld.file /\ rd.index = ld.index
      /\ \A f \in File : rd.bufs[f] = IF f = ld.file THEN Joined(l) ELSE ld.bufs[f]
  BY <1>1 DEF Load
<1>5. ASSUME ~IsLastChunk(l) PROVE LoadInv(nx, deployed)
  <2>1. /\ nx.pc = "read" /\ nx.want = ld.want /\ nx.size = ld.size /\ nx.rec = ld.rec
        /\ nx.file = ld.file /\ nx.index = ld.index + 1
        /\ \A f \in File : nx.bufs[f] = IF f = ld.file THEN Joined(l) ELSE ld.bufs[f]
    BY <1>1, <1>3, <1>4 DEF Load
  <2>2. nx.bufs[nx.file] = Prefix(nx.want, nx.file, nx.index * nx.size)
    BY <1>1, <2>1, ReadChunkExact
  <2>3. \A f \in File : f < nx.file => Exact(nx, f)
    BY <1>1, <2>1 DEF LoadInv, Exact, File
  <2>4. \A f \in File : f > nx.file => nx.bufs[f] = <<>>
    BY <1>1, <2>1 DEF LoadInv, File
  <2>. QED  BY <1>1, <2>1, <2>2, <2>3, <2>4 DEF LoadInv
<1>6. ASSUME IsLastChunk(l) PROVE LoadInv(nf, deployed)
  <2>1. \A f \in File : f <= rd.file => Exact(rd, f)
    <3>1. rd.bufs[ld.file] = Content(ld.want, ld.file)  BY <1>1, <1>4, <1>6, ReadChunkExact
    <3>2. \A f \in File : f < ld.file => Exact(rd, f)
      BY <1>1, <1>4 DEF LoadInv, Exact, File
    <3>. QED  BY <1>1, <1>4, <3>1, <3>2 DEF Exact, File
  <2>2. \A f \in File : f > rd.file => rd.bufs[f] = <<>>
    BY <1>1, <1>4 DEF LoadInv, File
  <2>3. rd.want = deployed /\ rd.want \in Version /\ rd.size \in ChunkSize
    BY <1>1, <1>4 DEF LoadInv, ExactInv, TypeInv, TypeOK
  <2>4. rd.rec.hash = rd.want /\ RecordExact(rd.rec)
    BY <1>1, <1>4 DEF LoadInv
  <2>. HIDE DEF rd
  <2>. QED  BY <1>3, <1>4, <2>1, <2>2, <2>3, <2>4, FileReadInv
<1>7. Become(l, IF IsLastChunk(l) THEN nf ELSE nx)  BY DEF ReadChunk
<1>8. UNCHANGED <<deployed, chunks, current>>  BY DEF ReadChunk
<1>. QED  BY <1>5, <1>6, <1>7, <1>8, LocalExact

(* A download preserves exactness.                                         *)
LEMMA FetchFileInv ==
  ASSUME CacheAssumption, ExactInv, TypeInv', NEW l \in Loader, FetchFile(l)
  PROVE  ExactInv'
<1>. DEFINE ld == load[l]
<1>1. PICK fd : fd = [ld EXCEPT !.bufs[ld.file] = Content(deployed, ld.file)]
  OBVIOUS
<1>2. PICK nf : nf = NextFile(fd, "quota")  OBVIOUS
<1>3. /\ ld \in Load /\ LoadInv(ld, deployed) /\ ld.pc = "fetch" /\ ld.want = deployed
      /\ deployed \in Version /\ ld.file \in File /\ ld.size \in ChunkSize
  BY DEF ExactInv, TypeInv, TypeOK, FetchFile, Load, LoadInv
<1>4. Content(deployed, ld.file) \in Seq(Byte)  BY <1>3, ContentType
<1>5. fd \in Load  BY <1>1, <1>3, <1>4 DEF Load
<1>6. /\ fd.pc = "fetch" /\ fd.want = deployed /\ fd.size = ld.size /\ fd.file = ld.file
      /\ \A f \in File : f <= fd.file => Exact(fd, f)
  <2>1. /\ fd.pc = "fetch" /\ fd.want = deployed /\ fd.size = ld.size /\ fd.file = ld.file
        /\ \A f \in File : fd.bufs[f] = IF f = ld.file THEN Content(deployed, f) ELSE ld.bufs[f]
    BY <1>1, <1>3 DEF Load
  <2>2. \A f \in File : f < ld.file => Exact(ld, f)  BY <1>3 DEF LoadInv
  <2>. QED  BY <1>3, <2>1, <2>2 DEF Exact, File
<1>7. nf.want = deployed /\ nf.size = ld.size /\ nf.bufs = fd.bufs /\ nf \in Load
  BY <1>2, <1>5, <1>6, NextFileFields, NextFileType DEF Phase
<1>8. CASE ld.file = LastFile
  <2>1. nf.pc = "quota" /\ nf.file = 1
    BY <1>2, <1>5, <1>6, <1>8, NextFileFields DEF Phase
  <2>2. \A f \in File : Exact(nf, f)
    BY <1>6, <1>7, <1>8 DEF Exact, File, LastFile
  <2>3. LoadInv(nf, deployed)  BY <1>3, <1>7, <2>1, <2>2 DEF LoadInv
  <2>4. LoadInv(Done(nf), deployed)  BY <1>7, <2>2, DoneInv
  <2>5. Become(l, nf) \/ Become(l, Done(nf))  BY <1>1, <1>2 DEF FetchFile
  <2>. QED  BY <2>3, <2>4, <2>5, LocalExact DEF FetchFile
<1>9. CASE ld.file # LastFile
  <2>1. nf.pc = "fetch" /\ nf.file = ld.file + 1
    BY <1>2, <1>5, <1>6, <1>9, NextFileFields DEF Phase
  <2>2. \A f \in File : f < nf.file => Exact(nf, f)
    BY <1>3, <1>6, <1>7, <2>1 DEF Exact, File
  <2>3. LoadInv(nf, deployed)  BY <1>3, <1>7, <2>1, <2>2 DEF LoadInv
  <2>4. Become(l, nf)  BY <1>1, <1>2, <2>1 DEF FetchFile
  <2>. QED  BY <2>3, <2>4, LocalExact DEF FetchFile
<1>. QED  BY <1>8, <1>9

(* Writing a chunk (writeCachedFile) preserves exactness.                  *)
LEMMA PutChunkInv ==
  ASSUME CacheAssumption, OneChunkSize, ExactInv, TypeInv', NEW l \in Loader, PutChunk(l)
  PROVE  ExactInv'
<1>. DEFINE ld     == load[l]
            buf    == ld.bufs[ld.file]
            offset == ld.index * ld.size
            info   == [total |-> Len(buf), count |-> ld.index + 1]
<1>1. /\ ld \in Load /\ LoadInv(ld, deployed) /\ ld.pc = "put" /\ ld.want \in Version
      /\ ld.file \in File /\ ld.index \in Nat /\ ld.size \in ChunkSize
      /\ ld.rec.hash = ld.want /\ buf = Content(ld.want, ld.file)
  BY DEF ExactInv, TypeInv, TypeOK, HasManifest, Phase, PutChunk, Load, LoadInv, Exact
<1>2. StoreExact'
  <2>1. /\ Present' = Present \cup {NextKey(l)}
        /\ chunks'[NextKey(l)] = Slice(Content(ld.want, ld.file), ld.size, offset)
        /\ \A k \in Present : k # NextKey(l) => chunks'[k] = chunks[k]
    BY <1>1 DEF PutChunk, AfterPut, NextSlice, Present
  <2>2. /\ NextKey(l).hash = ld.want /\ NextKey(l).file = ld.file
        /\ NextKey(l).index = ld.index
    BY DEF NextKey, KeyOf
  <2>3. \A c \in ChunkSize : c = ld.size  BY <1>1 DEF OneChunkSize
  <2>. QED  BY <2>1, <2>2, <2>3 DEF StoreExact, ExactInv
<1>3. PICK pd : pd = [ld EXCEPT !.rec.files[ld.file] = info]  OBVIOUS
<1>4. PICK nf : nf = NextFile(pd, "record")  OBVIOUS
<1>5. /\ pd \in Load /\ pd.pc = "put" /\ pd.want = ld.want /\ pd.size = ld.size
      /\ pd.file = ld.file /\ pd.bufs = ld.bufs /\ pd.rec.hash = ld.want
      /\ \A f \in File : pd.rec.files[f] = IF f = ld.file THEN info ELSE ld.rec.files[f]
  <2>1. info \in FileInfo
    <3>1. Len(buf) \in Nat  BY <1>1, ContentType
    <3>. QED  BY <1>1, <3>1 DEF FileInfo
  <2>. QED  BY <1>1, <1>3, <2>1 DEF Load, Record
<1>6. \A f \in File : f <= ld.file => TotalExact(pd.rec, f)
  <2>1. info.total = FileLen[ld.want][ld.file]  BY <1>1, ContentType
  <2>2. \A f \in File : f < ld.file => TotalExact(ld.rec, f)  BY <1>1 DEF LoadInv
  <2>3. TotalExact(pd.rec, ld.file)  BY <1>1, <1>5, <2>1 DEF TotalExact
  <2>4. ASSUME NEW f \in File, f < ld.file
        PROVE  TotalExact(pd.rec, f)
    <3>1. TotalExact(ld.rec, f)  BY <2>2, <2>4
    <3>2. f # ld.file  BY <1>1, <2>4 DEF File
    <3>3. pd.rec.files[f] = ld.rec.files[f]  BY <1>5, <2>4, <3>2
    <3>. QED  BY <1>1, <1>5, <3>1, <3>3 DEF TotalExact
  <2>5. \A f \in File : f <= ld.file => f = ld.file \/ f < ld.file  BY <1>1 DEF File
  <2>. QED  BY <2>3, <2>4, <2>5
<1>7. /\ nf.want = ld.want /\ nf.size = ld.size /\ nf.bufs = ld.bufs /\ nf.rec = pd.rec
      /\ ld.file = LastFile => nf.pc = "record"
      /\ ld.file # LastFile => nf.pc = "put" /\ nf.file = ld.file + 1
  BY <1>4, <1>5, NextFileFields DEF Phase
<1>8. \A f \in File : Exact(ld, f) /\ Exact(nf, f)
  BY <1>1, <1>7 DEF LoadInv, Exact
<1>9. LoadInv(nf, deployed)
  <2>1. CASE ld.file = LastFile
    <3>1. RecordExact(nf.rec)  BY <1>6, <1>7, <2>1 DEF RecordExact, File, LastFile
    <3>. QED  BY <1>1, <1>5, <1>7, <1>8, <2>1, <3>1 DEF LoadInv
  <2>2. CASE ld.file # LastFile
    <3>1. \A f \in File : f < nf.file => TotalExact(nf.rec, f)
      BY <1>1, <1>6, <1>7, <2>2 DEF File
    <3>. QED  BY <1>1, <1>5, <1>7, <1>8, <2>2, <3>1 DEF LoadInv
  <2>. QED  BY <2>1, <2>2
<1>10. PICK nx : nx = [ld EXCEPT !.index = @ + 1]  OBVIOUS
<1>11. LoadInv(nx, deployed)
  <2>1. /\ nx.pc = "put" /\ nx.want = ld.want /\ nx.size = ld.size /\ nx.file = ld.file
        /\ nx.bufs = ld.bufs /\ nx.rec = ld.rec
    BY <1>1, <1>10 DEF Load
  <2>. QED  BY <1>1, <1>8, <2>1 DEF LoadInv, Exact
<1>12. Become(l, nf) \/ Become(l, nx)
  BY <1>3, <1>4, <1>10 DEF PutChunk
<1>13. deployed' = deployed /\ current' = current  BY DEF PutChunk
<1>14. \A m \in Loader : LoadInv(load[m], deployed)'
  BY <1>9, <1>11, <1>12, <1>13, OtherLoads
<1>15. RecordExact(current)'  BY <1>13 DEF ExactInv, RecordExact, TotalExact
<1>. QED  BY <1>2, <1>14, <1>15 DEF ExactInv

(* Every step of a load preserves exactness.                               *)
LEMMA ProceedExact ==
  ASSUME CacheAssumption, OneChunkSize, ExactInv, TypeInv', NEW l \in Loader, Proceed(l)
  PROVE  ExactInv'
<1>. DEFINE ld == load[l]
<1>1. ld \in Load /\ LoadInv(ld, deployed)  BY DEF ExactInv, TypeInv, TypeOK
<1>2. CASE Visit(l)
  <2>1. PICK c \in ChunkSize : Become(l, [Idle EXCEPT !.pc = "manifest", !.size = c])
    BY <1>2 DEF Visit
  <2>2. LoadInv([Idle EXCEPT !.pc = "manifest", !.size = c], deployed)
    BY DEF LoadInv, Idle
  <2>. QED  BY <1>2, <2>1, <2>2, LocalExact DEF Visit
<1>3. CASE FetchManifest(l)
  <2>1. PICK nx : nx = [ld EXCEPT !.pc = "open", !.want = deployed]  OBVIOUS
  <2>2. LoadInv(nx, deployed)  BY <1>1, <1>3, <2>1 DEF FetchManifest, LoadInv, Load
  <2>. QED  BY <1>3, <2>1, <2>2, LocalExact DEF FetchManifest
<1>4. CASE OpenStore(l)
  <2>1. PICK nx : nx = [ld EXCEPT !.pc = "current", !.store = TRUE]  OBVIOUS
  <2>2. LoadInv(nx, deployed)  BY <1>1, <1>4, <2>1 DEF OpenStore, LoadInv, Load
  <2>. QED  BY <1>4, <2>1, <2>2, LocalExact DEF OpenStore
<1>5. CASE ReadCurrent(l)
  <2>1. LoadInv(Miss(ld), deployed)  BY <1>1, <1>5, MissInv DEF ReadCurrent
  <2>2. PICK nx : nx = [ld EXCEPT !.pc = "read", !.rec = current]  OBVIOUS
  <2>3. ASSUME current.hash = ld.want PROVE LoadInv(nx, deployed)
    <3>1. /\ nx.pc = "read" /\ nx.rec = current /\ nx.want = ld.want /\ nx.size = ld.size
          /\ nx.file = 1 /\ nx.index = 0 /\ nx.bufs = NoBytes /\ nx.want = deployed
          /\ nx.size \in ChunkSize
      BY <1>1, <1>5, <2>2 DEF ReadCurrent, LoadInv, Load
    <3>2. 1 \in File /\ \A f \in File : ~(f < 1) /\ nx.bufs[f] = <<>>
      BY <3>1 DEF File, NoBytes
    <3>3. Prefix(nx.want, nx.file, nx.index * nx.size) = <<>>
      <4>1. nx.index * nx.size = 0
        <5>1. nx.size \in Nat  BY <1>1, <3>1, SizeType
        <5>. QED  BY <3>1, <5>1
      <4>2. nx.want \in Version  BY <3>1 DEF ExactInv, TypeInv, TypeOK
      <4>3. Lesser(0, Len(Content(nx.want, 1))) = 0
        BY <3>2, <4>2, ContentType DEF Lesser
      <4>. QED  BY <3>1, <4>1, <4>3, SubSeqEmpty DEF Prefix
    <3>4. RecordExact(nx.rec)  BY <3>1 DEF ExactInv
    <3>. QED  BY <2>3, <3>1, <3>2, <3>3, <3>4 DEF LoadInv
  <2>. QED  BY <1>5, <2>1, <2>2, <2>3, LocalExact DEF ReadCurrent
<1>6. CASE ReadChunk(l)  BY <1>6, ReadChunkInv
<1>7. CASE ReadMiss(l)
  <2>1. LoadInv(Miss(ld), deployed)  BY <1>1, <1>7, MissInv DEF ReadMiss
  <2>. QED  BY <1>7, <2>1, LocalExact DEF ReadMiss
<1>8. CASE FetchFile(l)  BY <1>8, FetchFileInv
<1>9. CASE DecideToCache(l)
  <2>1. PICK nx : nx = [ld EXCEPT !.pc = "put", !.rec.hash = ld.want]  OBVIOUS
  <2>2. /\ nx.pc = "put" /\ nx.want = ld.want /\ nx.size = ld.size /\ nx.bufs = ld.bufs
        /\ nx.file = ld.file /\ nx.rec.hash = ld.want
    BY <1>1, <2>1 DEF Load, Record
  <2>3. ld.file = 1 /\ ld.size \in ChunkSize /\ \A f \in File : Exact(ld, f) /\ ~(f < 1)
    BY <1>1, <1>9 DEF DecideToCache, LoadInv, File
  <2>4. LoadInv(nx, deployed)  BY <2>2, <2>3 DEF LoadInv, Exact
  <2>. QED  BY <1>9, <2>1, <2>4, LocalExact DEF DecideToCache
<1>10. CASE PutChunk(l)  BY <1>10, PutChunkInv
<1>11. CASE PutRecord(l)
  <2>1. PICK nx : nx = [ld EXCEPT !.pc = "list"]  OBVIOUS
  <2>2. LoadInv(nx, deployed)
    BY <1>1, <1>11, <2>1 DEF PutRecord, LoadInv, Load, Exact
  <2>3. \A m \in Loader : LoadInv(load[m], deployed)'
    BY <1>11, <2>1, <2>2, OtherLoads DEF PutRecord
  <2>4. RecordExact(ld.rec)  BY <1>1, <1>11 DEF PutRecord, LoadInv
  <2>5. RecordExact(current)'
    BY <1>11, <2>4 DEF PutRecord, RecordExact, TotalExact
  <2>6. StoreExact'  BY <1>11 DEF PutRecord, ExactInv, StoreExact, Present
  <2>. QED  BY <2>3, <2>5, <2>6 DEF ExactInv
<1>12. CASE List(l)
  <2>1. \A f \in File : Exact(ld, f)  BY <1>1, <1>12 DEF List, LoadInv
  <2>2. LoadInv(Done(ld), deployed)  BY <1>1, <2>1, DoneInv
  <2>3. PICK nx : nx = [ld EXCEPT !.pc = "sweep", !.todo = Present \ RecordKeys(ld.rec)]
    OBVIOUS
  <2>4. LoadInv(nx, deployed)
    BY <1>1, <1>12, <2>1, <2>3 DEF List, LoadInv, Load, Exact
  <2>. QED  BY <1>12, <2>2, <2>3, <2>4, LocalExact DEF List
<1>13. CASE DeleteOrphan(l)
  <2>1. PICK k \in ld.todo :
          /\ chunks' = [j \in Present \ {k} |-> chunks[j]]
          /\ Become(l, IF ld.todo = {k} THEN Done(ld) ELSE [ld EXCEPT !.todo = @ \ {k}])
    BY <1>13 DEF DeleteOrphan
  <2>2. \A f \in File : Exact(ld, f)  BY <1>1, <1>13 DEF DeleteOrphan, LoadInv
  <2>3. LoadInv(Done(ld), deployed)  BY <1>1, <2>2, DoneInv
  <2>4. PICK nx : nx = [ld EXCEPT !.todo = @ \ {k}]  OBVIOUS
  <2>5. LoadInv(nx, deployed)
    BY <1>1, <1>13, <2>2, <2>4 DEF DeleteOrphan, LoadInv, Load, Exact
  <2>6. \A m \in Loader : LoadInv(load[m], deployed)'
    BY <1>13, <2>1, <2>3, <2>4, <2>5, OtherLoads DEF DeleteOrphan
  <2>7. StoreExact'
    BY <2>1 DEF ExactInv, StoreExact, Present
  <2>. QED  BY <1>13, <2>6, <2>7 DEF DeleteOrphan, ExactInv, RecordExact, TotalExact
<1>14. CASE Leave(l)
  <2>1. LoadInv(Idle, deployed)  BY DEF Idle, LoadInv
  <2>. QED  BY <1>14, <2>1, LocalExact DEF Leave
<1>15. CASE DecideNotToCache(l) \/ PutExceeds(l)
  <2>1. LoadInv(Done(ld), deployed)
    BY <1>1, <1>15, DoneInv DEF DecideNotToCache, PutExceeds, LoadInv
  <2>. QED  BY <1>15, <2>1, LocalExact DEF DecideNotToCache, PutExceeds
<1>. QED  BY <1>2, <1>3, <1>4, <1>5, <1>6, <1>7, <1>8, <1>9, <1>10, <1>11, <1>12, <1>13, <1>14,
             <1>15 DEF Proceed

(* Every fault of a load preserves exactness.                              *)
LEMMA DisturbExact ==
  ASSUME CacheAssumption, ExactInv, TypeInv', NEW l \in Loader, Disturb(l)
  PROVE  ExactInv'
<1>. DEFINE ld == load[l]
<1>1. ld \in Load /\ LoadInv(ld, deployed)  BY DEF ExactInv, TypeInv, TypeOK
<1>2. CASE NoStore(l)
  <2>1. PICK nx : nx = [ld EXCEPT !.pc = "fetch"]  OBVIOUS
  <2>2. \A f \in File : ~(f < 1)  BY DEF File
  <2>3. LoadInv(nx, deployed)  BY <1>1, <1>2, <2>1, <2>2 DEF NoStore, LoadInv, Load
  <2>. QED  BY <1>2, <2>1, <2>3, LocalExact DEF NoStore
<1>3. CASE DownloadFails(l)
  <2>1. LoadInv([Idle EXCEPT !.pc = "failed"], deployed)  BY DEF Idle, LoadInv
  <2>. QED  BY <1>3, <2>1, LocalExact DEF DownloadFails
<1>4. CASE StoreRejects(l)
  <2>1. CASE ld.pc \in {"current", "read"}
    <3>1. LoadInv(Miss(ld), deployed)  BY <1>1, <2>1, MissInv
    <3>. QED  BY <1>4, <2>1, <3>1, LocalExact DEF StoreRejects
  <2>2. CASE ld.pc \notin {"current", "read"}
    <3>1. \A f \in File : Exact(ld, f)  BY <1>1, <1>4, <2>2 DEF StoreRejects, LoadInv
    <3>2. LoadInv(Done(ld), deployed)  BY <1>1, <3>1, DoneInv
    <3>. QED  BY <1>4, <2>2, <3>2, LocalExact DEF StoreRejects
  <2>. QED  BY <2>1, <2>2
<1>5. CASE Crash(l)
  <2>1. LoadInv(Idle, deployed)  BY DEF Idle, LoadInv
  <2>. QED  BY <1>5, <2>1, LocalExact DEF Crash
<1>. QED  BY <1>2, <1>3, <1>4, <1>5 DEF Disturb

(* Evicting or clearing leaves what remains exact; a new version may only  *)
(* be published while no load has fetched a manifest and not all files.    *)
LEMMA EnvironmentExact ==
  ASSUME CacheAssumption, ~DeployDuringLoad, ExactInv, TypeInv',
         EvictChunk \/ ClearStore \/ \E v \in Version : Deploy(v)
  PROVE  ExactInv'
<1>1. CASE EvictChunk
  <2>1. PICK k \in Present : chunks' = [j \in Present \ {k} |-> chunks[j]]
    BY <1>1 DEF EvictChunk
  <2>2. StoreExact'  BY <2>1 DEF ExactInv, StoreExact, Present
  <2>. QED  BY <1>1, <2>2 DEF EvictChunk, ExactInv, RecordExact, TotalExact
<1>2. CASE ClearStore
  <2>1. StoreExact'  BY <1>2 DEF ClearStore, StoreExact, Present
  <2>2. RecordExact(current)'
    BY <1>2 DEF ClearStore, RecordExact, NoRecord, CacheAssumption
  <2>. QED  BY <1>2, <2>1, <2>2 DEF ClearStore, ExactInv
<1>3. ASSUME NEW v \in Version, Deploy(v) PROVE ExactInv'
  <2>1. UNCHANGED <<chunks, current, load>>  BY <1>3 DEF Deploy
  <2>2. \A l \in Loader : load[l].pc \notin {"open", "current", "read", "fetch"}
    BY <1>3 DEF Deploy
  <2>3. \A l \in Loader : LoadInv(load[l], deployed')
    BY <2>2 DEF ExactInv, LoadInv
  <2>4. StoreExact' /\ RecordExact(current)'
    BY <2>1 DEF ExactInv, StoreExact, Present, RecordExact, TotalExact
  <2>. QED  BY <2>1, <2>3, <2>4 DEF ExactInv
<1>. QED  BY <1>1, <1>2, <1>3

(* Every step preserves exactness.                                         *)
LEMMA ExactInvNext ==
  ASSUME CacheAssumption, OneChunkSize, ~DeployDuringLoad, ExactInv, [Next]_vars
  PROVE  ExactInv'
<1>1. TypeInv'  BY TypeInvNext DEF ExactInv
<1>2. CASE Next
  BY <1>1, <1>2, ProceedExact, DisturbExact, EnvironmentExact DEF Next
<1>3. CASE UNCHANGED vars
  BY <1>1, <1>3 DEF vars, ExactInv, StoreExact, Present, RecordExact, TotalExact
<1>. QED  BY <1>2, <1>3

(* With one chunk size and an origin that does not change under a load,    *)
(* every load of every page resolves with the published files.             *)
THEOREM LoadsAreExact ==
  ASSUME OneChunkSize, ~DeployDuringLoad
  PROVE  Safety => []LoadExact
<1>1. Init => ExactInv  BY ExactInvInit, CacheAssumption
<1>2. ExactInv /\ [Next]_vars => ExactInv'  BY ExactInvNext, CacheAssumption
<1>3. ExactInv => LoadExact  BY DEF ExactInv, LoadInv, LoadExact, Exact
<1>. QED  BY <1>1, <1>2, <1>3, PTL DEF Safety

-----------------------------------------------------------------------------
(* The cache is invisible *)

(* Phases between the manifest and the outcome.                            *)
Loading(pc) == pc \in Phase \ {"idle", "manifest", "done", "failed"}

(* What the step of one page looks like to the caller.                     *)
LEMMA MappedStep ==
  ASSUME TypeOK, NEW l \in Loader, NEW ld, Become(l, ld)
  PROVE  /\ SourcePhase' = [SourcePhase EXCEPT ![l] = PhaseOf(ld)]
         /\ SourceAsked' = [SourceAsked EXCEPT ![l] = ld.want]
         /\ SourceGot' = [SourceGot EXCEPT ![l] = IF ld.pc = "done" THEN ld.bufs ELSE NoBytes]
<1>1. \A m \in Loader : load'[m] = IF m = l THEN ld ELSE load[m]
  BY DEF TypeOK, Become
<1>2. SourcePhase' = [SourcePhase EXCEPT ![l] = PhaseOf(ld)]
  BY <1>1 DEF SourcePhase, PhaseOf
<1>3. SourceAsked' = [SourceAsked EXCEPT ![l] = ld.want]
  BY <1>1 DEF SourceAsked
<1>4. SourceGot' = [SourceGot EXCEPT ![l] = IF ld.pc = "done" THEN ld.bufs ELSE NoBytes]
  BY <1>1 DEF SourceGot
<1>. QED  BY <1>2, <1>3, <1>4

(* A step inside a load is invisible until it delivers the files.          *)
LEMMA LoadingStep ==
  ASSUME TypeOK, TypeOK', LoadExact', NEW l \in Loader, NEW ld, Become(l, ld), deployed' = deployed,
         Loading(load[l].pc), Loading(ld.pc) \/ ld.pc = "done", ld.want = load[l].want
  PROVE  [Source!Next]_Source!vars
<1>1. /\ SourcePhase[l] = "loading" /\ SourceAsked[l] = ld.want
      /\ SourceGot[l] = NoBytes
  BY DEF SourcePhase, SourceAsked, SourceGot, PhaseOf, Loading, Phase
<1>2. SourceAsked' = SourceAsked
  BY <1>1, MappedStep DEF SourceAsked
<1>3. CASE Loading(ld.pc)
  <2>1. PhaseOf(ld) = "loading" /\ ld.pc # "done"  BY <1>3 DEF PhaseOf, Loading, Phase
  <2>2. /\ SourcePhase' = [SourcePhase EXCEPT ![l] = SourcePhase[l]]
        /\ SourceGot' = [SourceGot EXCEPT ![l] = SourceGot[l]]
    BY <1>1, <2>1, MappedStep
  <2>3. SourcePhase' = SourcePhase /\ SourceGot' = SourceGot
    BY <2>2 DEF SourcePhase, SourceGot
  <2>. QED  BY <1>2, <2>3 DEF Source!vars
<1>4. CASE ld.pc = "done"
  <2>1. PhaseOf(ld) = "done"  BY <1>4 DEF PhaseOf
  <2>2. load'[l] = ld  BY DEF TypeOK, Become
  <2>3. load'[l].bufs = [f \in File |-> Content(ld.want, f)]
    <3>1. \A f \in File : load'[l].bufs[f] = Content(ld.want, f)
      BY <1>4, <2>2 DEF LoadExact
    <3>2. load'[l].bufs \in [File -> Seq(Byte)]  BY DEF TypeOK, Load
    <3>. QED  BY <3>1, <3>2
  <2>4. Source!Deliver(l)
    BY <1>1, <1>2, <1>4, <2>1, <2>2, <2>3, MappedStep
       DEF Source!Deliver, Source!Content, Content, Source!File, File
  <2>. QED  BY <2>4 DEF Source!Next
<1>. QED  BY <1>3, <1>4

(* A page that forgets its load.                                           *)
LEMMA ForgetStep ==
  ASSUME TypeOK, NEW l \in Loader, Become(l, Idle), load[l].pc # "idle", deployed' = deployed
  PROVE  Source!Next
<1>1. SourcePhase[l] # "idle"
  BY DEF SourcePhase, PhaseOf
<1>2. /\ SourcePhase' = [SourcePhase EXCEPT ![l] = "idle"]
      /\ SourceAsked' = [SourceAsked EXCEPT ![l] = None]
      /\ SourceGot' = [SourceGot EXCEPT ![l] = NoBytes]
  BY MappedStep DEF Idle, PhaseOf
<1>. QED  BY <1>1, <1>2 DEF Source!Next, Source!Forget, Source!Nothing, NoBytes, Source!File, File

(* Every step of a load is a step of the source, or invisible.             *)
LEMMA ProceedRefines ==
  ASSUME ExactInv, TypeOK', LoadExact', NEW l \in Loader, Proceed(l)
  PROVE  [Source!Next]_Source!vars
<1>. DEFINE ld == load[l]
<1>1. /\ ld \in Load /\ LoadInv(ld, deployed) /\ TypeOK
      /\ SourcePhase[l] = PhaseOf(ld) /\ SourceAsked[l] = ld.want
      /\ SourceGot[l] = IF ld.pc = "done" THEN ld.bufs ELSE NoBytes
  BY DEF ExactInv, TypeInv, TypeOK, SourcePhase, SourceAsked, SourceGot
<1>2. CASE Visit(l)
  <2>1. PICK nx : nx.pc = "manifest" /\ nx.want = None /\ Become(l, nx)
    BY <1>2 DEF Visit, Idle
  <2>2. PhaseOf(nx) = "asking" /\ PhaseOf(ld) = "idle" /\ ld.want = None
    BY <1>1, <1>2, <2>1 DEF Visit, PhaseOf, LoadInv
  <2>3. /\ SourcePhase' = [SourcePhase EXCEPT ![l] = "asking"]
        /\ SourceAsked' = [SourceAsked EXCEPT ![l] = SourceAsked[l]]
        /\ SourceGot' = [SourceGot EXCEPT ![l] = SourceGot[l]]
    BY <1>1, <1>2, <2>1, <2>2, MappedStep DEF Visit
  <2>4. SourceAsked' = SourceAsked /\ SourceGot' = SourceGot
    BY <2>3 DEF SourceAsked, SourceGot
  <2>. QED  BY <1>1, <1>2, <2>2, <2>3, <2>4 DEF Visit, Source!Next, Source!Ask
<1>3. CASE FetchManifest(l)
  <2>1. PICK nx : nx = [ld EXCEPT !.pc = "open", !.want = deployed]  OBVIOUS
  <2>2. nx.pc = "open" /\ nx.want = deployed  BY <1>1, <2>1 DEF Load
  <2>3. SourcePhase[l] = "asking" /\ PhaseOf(nx) = "loading" /\ SourceGot[l] = NoBytes
    BY <1>1, <1>3, <2>2 DEF FetchManifest, PhaseOf
  <2>4. Become(l, nx) /\ deployed' = deployed  BY <1>3, <2>1 DEF FetchManifest
  <2>5. /\ SourcePhase' = [SourcePhase EXCEPT ![l] = "loading"]
        /\ SourceAsked' = [SourceAsked EXCEPT ![l] = deployed]
        /\ SourceGot' = [SourceGot EXCEPT ![l] = SourceGot[l]]
    BY <1>1, <2>2, <2>3, <2>4, MappedStep
  <2>6. SourceGot' = SourceGot  BY <2>5 DEF SourceGot
  <2>. QED  BY <2>3, <2>4, <2>5, <2>6 DEF Source!Next, Source!Manifest
<1>4. CASE OpenStore(l)
  <2>1. PICK nx : nx = [ld EXCEPT !.pc = "current", !.store = TRUE]  OBVIOUS
  <2>2. nx.pc = "current" /\ nx.want = ld.want  BY <1>1, <2>1 DEF Load
  <2>. QED  BY <1>1, <1>4, <2>1, <2>2, LoadingStep DEF OpenStore, Loading, Phase
<1>5. CASE ReadCurrent(l)
  <2>1. PICK nx : nx = [ld EXCEPT !.pc = "read", !.rec = current]  OBVIOUS
  <2>2. nx.pc = "read" /\ nx.want = ld.want  BY <1>1, <2>1 DEF Load
  <2>3. Miss(ld).pc = "fetch" /\ Miss(ld).want = ld.want  BY <1>1 DEF Miss, Load
  <2>. QED  BY <1>1, <1>5, <2>1, <2>2, <2>3, LoadingStep DEF ReadCurrent, Loading, Phase
<1>6. CASE ReadChunk(l)
  <2>1. PICK rd : rd = [ld EXCEPT !.bufs[ld.file] = Joined(l)]  OBVIOUS
  <2>2. rd.pc = "read" /\ rd.want = ld.want  BY <1>1, <1>6, <2>1 DEF ReadChunk, Load
  <2>3. PICK nx : nx = [rd EXCEPT !.index = @ + 1]  OBVIOUS
  <2>4. nx.pc = "read" /\ nx.want = ld.want  BY <1>1, <2>1, <2>2, <2>3 DEF Load
  <2>5. PICK nf : nf = NextFile(rd, "list")  OBVIOUS
  <2>6. nf.pc \in {"read", "list"} /\ nf.want = ld.want
    BY <1>1, <2>1, <2>2, <2>5 DEF NextFile, Load
  <2>7. Become(l, nx) \/ Become(l, nf)  BY <1>6, <2>1, <2>3, <2>5 DEF ReadChunk
  <2>. QED
    BY <1>1, <1>6, <2>4, <2>6, <2>7, LoadingStep DEF ReadChunk, Loading, Phase
<1>7. CASE ReadMiss(l)
  <2>1. Miss(ld).pc = "fetch" /\ Miss(ld).want = ld.want  BY <1>1 DEF Miss, Load
  <2>. QED  BY <1>1, <1>7, <2>1, LoadingStep DEF ReadMiss, Loading, Phase
<1>8. CASE FetchFile(l)
  <2>1. PICK fd : fd = [ld EXCEPT !.bufs[ld.file] = Content(deployed, ld.file)]  OBVIOUS
  <2>2. fd.pc = "fetch" /\ fd.want = ld.want  BY <1>1, <1>8, <2>1 DEF FetchFile, Load
  <2>3. PICK nf : nf = NextFile(fd, "quota")  OBVIOUS
  <2>4. nf.pc \in {"fetch", "quota"} /\ nf.want = ld.want
    BY <1>1, <2>1, <2>2, <2>3 DEF NextFile, Load
  <2>5. Done(nf).pc = "done" /\ Done(nf).want = ld.want  BY <2>4 DEF Done, Idle
  <2>6. Become(l, nf) \/ Become(l, Done(nf))  BY <1>8, <2>1, <2>3 DEF FetchFile
  <2>. QED
    BY <1>1, <1>8, <2>4, <2>5, <2>6, LoadingStep DEF FetchFile, Loading, Phase
<1>9. CASE DecideToCache(l)
  <2>1. PICK nx : nx = [ld EXCEPT !.pc = "put", !.rec.hash = ld.want]  OBVIOUS
  <2>2. nx.pc = "put" /\ nx.want = ld.want  BY <1>1, <2>1 DEF Load
  <2>. QED  BY <1>1, <1>9, <2>1, <2>2, LoadingStep DEF DecideToCache, Loading, Phase
<1>10. CASE PutChunk(l)
  <2>1. PICK pd : pd = [ld EXCEPT !.rec.files[ld.file] =
                          [total |-> Len(ld.bufs[ld.file]), count |-> ld.index + 1]]
    OBVIOUS
  <2>2. pd.pc = "put" /\ pd.want = ld.want  BY <1>1, <1>10, <2>1 DEF PutChunk, Load
  <2>3. PICK nf : nf = NextFile(pd, "record")  OBVIOUS
  <2>4. nf.pc \in {"put", "record"} /\ nf.want = ld.want
    BY <1>1, <2>1, <2>2, <2>3 DEF NextFile, Load
  <2>5. PICK nx : nx = [ld EXCEPT !.index = @ + 1]  OBVIOUS
  <2>6. nx.pc = "put" /\ nx.want = ld.want  BY <1>1, <1>10, <2>5 DEF PutChunk, Load
  <2>7. Become(l, nf) \/ Become(l, nx)  BY <1>10, <2>1, <2>3, <2>5 DEF PutChunk
  <2>. QED
    BY <1>1, <1>10, <2>4, <2>6, <2>7, LoadingStep DEF PutChunk, Loading, Phase
<1>11. CASE PutRecord(l)
  <2>1. PICK nx : nx = [ld EXCEPT !.pc = "list"]  OBVIOUS
  <2>2. nx.pc = "list" /\ nx.want = ld.want  BY <1>1, <2>1 DEF Load
  <2>. QED  BY <1>1, <1>11, <2>1, <2>2, LoadingStep DEF PutRecord, Loading, Phase
<1>12. CASE List(l)
  <2>1. Done(ld).pc = "done" /\ Done(ld).want = ld.want  BY <1>1, DoneFields
  <2>2. PICK nx : nx = [ld EXCEPT !.pc = "sweep", !.todo = Present \ RecordKeys(ld.rec)]
    OBVIOUS
  <2>3. nx.pc = "sweep" /\ nx.want = ld.want  BY <1>1, <2>2 DEF Load
  <2>4. Become(l, Done(ld)) \/ Become(l, nx)  BY <1>12, <2>2 DEF List
  <2>. QED
    BY <1>1, <1>12, <2>1, <2>3, <2>4, LoadingStep DEF List, Loading, Phase
<1>13. CASE DeleteOrphan(l)
  <2>1. PICK k \in ld.todo :
          Become(l, IF ld.todo = {k} THEN Done(ld) ELSE [ld EXCEPT !.todo = @ \ {k}])
    BY <1>13 DEF DeleteOrphan
  <2>2. Done(ld).pc = "done" /\ Done(ld).want = ld.want  BY <1>1, DoneFields
  <2>3. PICK nx : nx = [ld EXCEPT !.todo = @ \ {k}]  OBVIOUS
  <2>4. nx.pc = "sweep" /\ nx.want = ld.want
    BY <1>1, <1>13, <2>3 DEF DeleteOrphan, Load
  <2>5. Become(l, Done(ld)) \/ Become(l, nx)  BY <2>1, <2>3
  <2>. QED
    BY <1>1, <1>13, <2>2, <2>4, <2>5, LoadingStep DEF DeleteOrphan, Loading, Phase
<1>14. CASE Leave(l)
  <2>1. Become(l, Idle) /\ ld.pc \in {"done", "failed"} /\ deployed' = deployed
    BY <1>14 DEF Leave
  <2>. QED  BY <1>1, <2>1, ForgetStep
<1>15. CASE DecideNotToCache(l) \/ PutExceeds(l)
  <2>1. Done(ld).pc = "done" /\ Done(ld).want = ld.want  BY <1>1, DoneFields
  <2>. QED
    BY <1>1, <1>15, <2>1, LoadingStep DEF DecideNotToCache, PutExceeds, Loading, Phase
<1>. QED  BY <1>2, <1>3, <1>4, <1>5, <1>6, <1>7, <1>8, <1>9, <1>10, <1>11, <1>12, <1>13, <1>14,
             <1>15 DEF Proceed

(* Every fault of a load is a step of the source, or invisible.            *)
LEMMA DisturbRefines ==
  ASSUME ExactInv, TypeOK', LoadExact', NEW l \in Loader, Disturb(l)
  PROVE  [Source!Next]_Source!vars
<1>. DEFINE ld == load[l]
<1>1. /\ ld \in Load /\ LoadInv(ld, deployed) /\ TypeOK
      /\ SourcePhase[l] = PhaseOf(ld) /\ SourceAsked[l] = ld.want
      /\ SourceGot[l] = IF ld.pc = "done" THEN ld.bufs ELSE NoBytes
  BY DEF ExactInv, TypeInv, TypeOK, SourcePhase, SourceAsked, SourceGot
<1>2. CASE NoStore(l)
  <2>1. PICK nx : nx = [ld EXCEPT !.pc = "fetch"]  OBVIOUS
  <2>2. nx.pc = "fetch" /\ nx.want = ld.want  BY <1>1, <2>1 DEF Load
  <2>. QED  BY <1>1, <1>2, <2>1, <2>2, LoadingStep DEF NoStore, Loading, Phase
<1>3. CASE DownloadFails(l)
  <2>1. PICK nx : nx.pc = "failed" /\ nx.want = None /\ Become(l, nx)
    BY <1>3 DEF DownloadFails, Idle
  <2>2. PhaseOf(nx) = "failed" /\ PhaseOf(ld) \in {"asking", "loading"} /\ ld.pc # "done"
    BY <1>3, <2>1 DEF DownloadFails, PhaseOf
  <2>3. /\ SourcePhase' = [SourcePhase EXCEPT ![l] = "failed"]
        /\ SourceAsked' = [SourceAsked EXCEPT ![l] = None]
        /\ SourceGot' = [SourceGot EXCEPT ![l] = SourceGot[l]]
    BY <1>1, <2>1, <2>2, MappedStep
  <2>4. SourceGot' = SourceGot  BY <2>3 DEF SourceGot
  <2>. QED  BY <1>1, <1>3, <2>2, <2>3, <2>4 DEF DownloadFails, Source!Next, Source!Fail
<1>4. CASE StoreRejects(l)
  <2>1. Done(ld).pc = "done" /\ Done(ld).want = ld.want  BY <1>1, DoneFields
  <2>2. Miss(ld).pc = "fetch" /\ Miss(ld).want = ld.want  BY <1>1 DEF Miss, Load
  <2>3. Become(l, Done(ld)) \/ Become(l, Miss(ld))  BY <1>4 DEF StoreRejects
  <2>. QED
    BY <1>1, <1>4, <2>1, <2>2, <2>3, LoadingStep DEF StoreRejects, Loading, Phase
<1>5. CASE Crash(l)
  <2>1. Become(l, Idle) /\ ld.pc # "idle" /\ deployed' = deployed
    BY <1>5 DEF Crash
  <2>. QED  BY <1>1, <2>1, ForgetStep
<1>. QED  BY <1>2, <1>3, <1>4, <1>5 DEF Disturb

(* Under the assumptions of LoadsAreExact every behaviour of the cache is, *)
(* for the caller, a behaviour of the source: each step is a step of       *)
(* WeightSource or changes nothing it shows.                               *)
THEOREM CacheImplementsSource ==
  ASSUME OneChunkSize, ~DeployDuringLoad
  PROVE  Safety => Source!Safety
<1>1. Init => ExactInv  BY ExactInvInit, CacheAssumption
<1>2. ExactInv /\ [Next]_vars => ExactInv'  BY ExactInvNext, CacheAssumption
<1>3. ExactInv => LoadExact /\ TypeOK
  BY DEF ExactInv, TypeInv, LoadInv, LoadExact, Exact
<1>4. Init => Source!Init
  BY DEF Init, Source!Init, SourcePhase, SourceAsked, SourceGot, Idle, PhaseOf, NoBytes,
         Source!Nothing, File, Source!File
<1>5. ExactInv /\ LoadExact' /\ TypeOK' /\ [Next]_vars => [Source!Next]_Source!vars
  <2>. SUFFICES ASSUME ExactInv, LoadExact', TypeOK', [Next]_vars
                PROVE  [Source!Next]_Source!vars
    OBVIOUS
  <2>1. CASE \E l \in Loader : Proceed(l) \/ Disturb(l)
    BY <2>1, ProceedRefines, DisturbRefines
  <2>2. CASE EvictChunk \/ ClearStore \/ UNCHANGED vars
    <3>1. deployed' = deployed /\ load' = load  BY <2>2 DEF EvictChunk, ClearStore, vars
    <3>. QED  BY <3>1 DEF Source!vars, SourcePhase, SourceAsked, SourceGot
  <2>3. ASSUME NEW v \in Version, Deploy(v) PROVE Source!Next
    <3>1. deployed' = v /\ load' = load  BY <2>3 DEF Deploy
    <3>2. UNCHANGED <<SourcePhase, SourceAsked, SourceGot>>
      BY <3>1 DEF SourcePhase, SourceAsked, SourceGot
    <3>. QED  BY <3>1, <3>2 DEF Source!Next, Source!Publish
  <2>. QED  BY <2>1, <2>2, <2>3 DEF Next
<1>. QED  BY <1>1, <1>2, <1>3, <1>4, <1>5, PTL DEF Safety, Source!Safety

-----------------------------------------------------------------------------
(***************************************************************************)
(* The current-version record when one page loads at a time: it names only *)
(* what was written, whatever the browser evicts and wherever a load is    *)
(* interrupted.  With a second page's sweep this is false                  *)
(* (CacheTwoTabsRecord).                                                   *)
(***************************************************************************)

(* There is one page.                                                      *)
OneLoader == \A l, m \in Loader : l = m

(* What was written, and removed by nobody but the browser.                *)
Written == Present \cup evicted

(* The keys of the first n chunks of a file.                               *)
FileKeys(h, f, n) == {KeyOf(h, f, i) : i \in 0 .. n - 1}

(* What load ld knows of its record, when the store's is cur and w was     *)
(* written: the one it builds or reads is backed, and the one in the store *)
(* names nothing else while it sweeps.                                     *)
RecInv(ld, cur, w) ==
  /\ ld.pc \notin {"read", "put", "record", "list", "sweep"} => ld.rec = NoRecord
  /\ ld.pc = "quota" => ld.index = 0
  /\ ld.pc = "put" =>
       /\ ld.rec.hash = ld.want
       /\ \A f \in File : f >= ld.file => ld.rec.files[f].count = 0
       /\ FileKeys(ld.want, ld.file, ld.index) \subseteq w
  /\ ld.pc \in {"read", "put", "record"} => RecordKeys(ld.rec) \subseteq w
  /\ ld.pc \in {"read", "list", "sweep"} => RecordKeys(cur) \subseteq RecordKeys(ld.rec)
  /\ ld.pc = "sweep" => ld.todo \cap RecordKeys(ld.rec) = {}

BackedInv ==
  /\ TypeInv
  /\ RecordKeys(current) \subseteq Written
  /\ \A l \in Loader : RecInv(load[l], current, Written)

-----------------------------------------------------------------------------
(* Keys *)

(* A record's keys, file by file.                                          *)
LEMMA RecordKeysForm ==
  ASSUME NEW r
  PROVE  RecordKeys(r) = UNION {FileKeys(r.hash, f, r.files[f].count) : f \in File}
BY DEF RecordKeys, FileKeys

(* A file without chunks has no keys.                                      *)
LEMMA NoKeys ==
  ASSUME NEW h, NEW f
  PROVE  FileKeys(h, f, 0) = {}
BY DEF FileKeys

(* One more chunk is one more key.                                         *)
LEMMA OneMoreKey ==
  ASSUME NEW h, NEW f, NEW n \in Nat
  PROVE  FileKeys(h, f, n + 1) = FileKeys(h, f, n) \cup {KeyOf(h, f, n)}
<1>1. 0 .. (n + 1) - 1 = (0 .. n - 1) \cup {n}
  OBVIOUS
<1>. QED  BY <1>1 DEF FileKeys

(* An empty record names nothing.                                          *)
LEMMA NoRecordKeys ==
  ASSUME NEW r, \A f \in File : r.files[f].count = 0
  PROVE  RecordKeys(r) = {}
BY RecordKeysForm, NoKeys

LEMMA NoRecordNamesNothing == RecordKeys(NoRecord) = {}
BY NoRecordKeys DEF NoRecord

-----------------------------------------------------------------------------
(* Steps *)

(* What the only page becomes, and the store, are all there is to show.    *)
LEMMA BackedStep ==
  ASSUME OneLoader, BackedInv, TypeInv', NEW l \in Loader, NEW ld, Become(l, ld),
         RecInv(ld, current', Written'), RecordKeys(current') \subseteq Written'
  PROVE  BackedInv'
<1>1. \A m \in Loader : m = l
  BY DEF OneLoader
<1>2. load'[l] = ld
  BY DEF Become, BackedInv, TypeInv, TypeOK
<1>. QED  BY <1>1, <1>2 DEF BackedInv

(* The store is left alone.                                                *)
LEMMA BackedLocal ==
  ASSUME OneLoader, BackedInv, TypeInv', NEW l \in Loader, NEW ld, Become(l, ld),
         RecInv(ld, current, Written), UNCHANGED <<chunks, current, evicted>>
  PROVE  BackedInv'
<1>1. Written' = Written /\ current' = current
  BY DEF Written, Present
<1>. QED  BY <1>1, BackedStep DEF BackedInv

(* A load that has no record says nothing of one.                          *)
LEMMA NoRecInv ==
  ASSUME NEW ld, NEW cur, NEW w, ld.rec = NoRecord,
         ld.pc \notin {"quota", "read", "put", "record", "list", "sweep"}
  PROVE  RecInv(ld, cur, w)
BY DEF RecInv

(* Missing and resolving forget the record.                                *)
LEMMA OutcomeForm ==
  ASSUME NEW ld \in Load
  PROVE  /\ Miss(ld).rec = NoRecord /\ Miss(ld).pc = "fetch"
         /\ Done(ld).rec = NoRecord /\ Done(ld).pc = "done"
         /\ Idle.rec = NoRecord /\ Idle.pc = "idle"
BY IdleType DEF Miss, Done, Load, Idle

LEMMA BackedOutcome ==
  ASSUME NEW ld \in Load, NEW cur, NEW w
  PROVE  RecInv(Miss(ld), cur, w) /\ RecInv(Done(ld), cur, w) /\ RecInv(Idle, cur, w)
BY OutcomeForm, NoRecInv

(* Steps before there is a record, and those after which there is none.    *)
LEMMA BackedPlain ==
  ASSUME OneLoader, BackedInv, TypeInv', NEW l \in Loader,
         \/ Visit(l) \/ FetchManifest(l) \/ OpenStore(l) \/ FetchFile(l) \/ ReadMiss(l) \/ Leave(l)
         \/ DecideNotToCache(l) \/ PutExceeds(l) \/ Disturb(l)
  PROVE  BackedInv'
<1> DEFINE ld == load[l]
<1>1. ld \in Load /\ RecInv(ld, current, Written)
  BY DEF BackedInv, TypeInv, TypeOK
<1>2. UNCHANGED <<chunks, current, evicted>>
  BY DEF Visit, FetchManifest, OpenStore, FetchFile, ReadMiss, Leave, Disturb, NoStore,
         DecideNotToCache, PutExceeds, DownloadFails, StoreRejects, Crash
<1>3. SUFFICES \E nx : Become(l, nx) /\ RecInv(nx, current, Written)
  BY <1>2, BackedLocal
<1> DEFINE Goal == \E nx : Become(l, nx) /\ RecInv(nx, current, Written)
<1>4. ASSUME Visit(l) PROVE Goal
  <2>1. PICK c \in ChunkSize : Become(l, [Idle EXCEPT !.pc = "manifest", !.size = c])
    BY <1>4 DEF Visit
  <2>2. RecInv([Idle EXCEPT !.pc = "manifest", !.size = c], current, Written)
    BY IdleType, NoRecInv DEF Idle
  <2>. QED  BY <2>1, <2>2
<1>5. ASSUME FetchManifest(l) \/ OpenStore(l) \/ NoStore(l) PROVE Goal
  <2>1. ld.rec = NoRecord
    BY <1>1, <1>5 DEF FetchManifest, OpenStore, NoStore, RecInv
  <2>2. PICK nx : /\ Become(l, nx)
                  /\ \/ nx = [ld EXCEPT !.pc = "open", !.want = deployed]
                     \/ nx = [ld EXCEPT !.pc = "current", !.store = TRUE]
                     \/ nx = [ld EXCEPT !.pc = "fetch"]
    BY <1>5 DEF FetchManifest, OpenStore, NoStore
  <2>3. nx.rec = NoRecord /\ nx.pc \in {"open", "current", "fetch"}
    BY <1>1, <2>1, <2>2 DEF Load
  <2>. QED  BY <2>2, <2>3, NoRecInv
<1>6. ASSUME FetchFile(l) PROVE Goal
  <2>1. ld.pc = "fetch" /\ ld.rec = NoRecord
    BY <1>1, <1>6 DEF FetchFile, RecInv
  <2>2. PICK fd : fd = [ld EXCEPT !.bufs[ld.file] = Content(deployed, ld.file)]
    OBVIOUS
  <2>3. fd.pc = "fetch" /\ fd.rec = NoRecord
    BY <1>1, <2>1, <2>2 DEF Load
  <2>4. PICK nf : nf = NextFile(fd, "quota")
    OBVIOUS
  <2>5. fd \in Load /\ nf \in Load
    <3>1. deployed \in Version /\ ld.file \in File
      BY <1>1 DEF BackedInv, TypeInv, TypeOK, Load
    <3>2. Content(deployed, ld.file) \in Seq(Byte)
      BY <3>1, ContentType, CacheAssumption
    <3>3. fd \in Load
      BY <1>1, <2>2, <3>1, <3>2 DEF Load
    <3>. QED  BY <2>4, <3>3, NextFileType DEF Phase
  <2>6. nf.rec = NoRecord /\ nf.pc \in {"fetch", "quota"} /\ nf.index = 0
    BY <2>3, <2>4, <2>5, NextFileFields DEF Phase
  <2>. RecInv(nf, current, Written)
    BY <2>6 DEF RecInv
  <2>7. Become(l, nf) \/ Become(l, Done(nf))
    BY <1>6, <2>2, <2>4 DEF FetchFile
  <2>. QED  BY <2>5, <2>7, BackedOutcome
<1>7. ASSUME \/ ReadMiss(l) \/ Leave(l) \/ StoreRejects(l) \/ Crash(l)
             \/ DecideNotToCache(l) \/ PutExceeds(l)
      PROVE  Goal
  <2>1. Become(l, Miss(ld)) \/ Become(l, Done(ld)) \/ Become(l, Idle)
    BY <1>7 DEF ReadMiss, Leave, StoreRejects, DecideNotToCache, PutExceeds, Crash
  <2>. QED  BY <1>1, <2>1, BackedOutcome
<1>8. ASSUME DownloadFails(l) PROVE Goal
  <2>1. Become(l, [Idle EXCEPT !.pc = "failed"])
    BY <1>8 DEF DownloadFails
  <2>2. RecInv([Idle EXCEPT !.pc = "failed"], current, Written)
    BY IdleType, NoRecInv DEF Idle
  <2>. QED  BY <2>1, <2>2
<1>. QED  BY <1>4, <1>5, <1>6, <1>7, <1>8 DEF Disturb

(* A record that matches the manifest is the one in the store.             *)
LEMMA BackedReadCurrent ==
  ASSUME OneLoader, BackedInv, TypeInv', NEW l \in Loader, ReadCurrent(l)
  PROVE  BackedInv'
<1> DEFINE ld == load[l]
<1>1. ld \in Load /\ UNCHANGED <<chunks, current, evicted>>
  BY DEF BackedInv, TypeInv, TypeOK, ReadCurrent
<1>2. PICK nx : nx = [ld EXCEPT !.pc = "read", !.rec = current]
  OBVIOUS
<1>3. nx.pc = "read" /\ nx.rec = current
  BY <1>1, <1>2 DEF Load
<1>4. RecInv(nx, current, Written)
  BY <1>3 DEF RecInv, BackedInv
<1>5. Become(l, nx) \/ Become(l, Miss(ld))
  BY <1>2 DEF ReadCurrent
<1>. QED  BY <1>1, <1>4, <1>5, BackedLocal, BackedOutcome

(* Reading leaves the record as it is.                                     *)
LEMMA BackedReadChunk ==
  ASSUME OneLoader, BackedInv, TypeInv', NEW l \in Loader, ReadChunk(l)
  PROVE  BackedInv'
<1> DEFINE ld == load[l]
<1>1. /\ ld \in Load /\ RecInv(ld, current, Written) /\ ld.pc = "read"
      /\ UNCHANGED <<chunks, current, evicted>>
  BY DEF BackedInv, TypeInv, TypeOK, ReadChunk
<1>2. PICK rd : rd = [ld EXCEPT !.bufs[ld.file] = Joined(l)]
  OBVIOUS
<1>3. rd \in Load /\ rd.pc = "read" /\ rd.rec = ld.rec
  <2>1. Joined(l) \in Seq(Byte)
    BY <1>1, ConcatProperties DEF ReadChunk, Readable, Joined, BackedInv, TypeInv, TypeOK, Load
  <2>. QED  BY <1>1, <1>2, <2>1 DEF Load
<1>4. PICK nf : nf = NextFile(rd, "list")
  OBVIOUS
<1>5. PICK nx : nx = [rd EXCEPT !.index = @ + 1]
  OBVIOUS
<1>6. /\ nf.pc \in {"read", "list"} /\ nf.rec = ld.rec
      /\ nx.pc = "read" /\ nx.rec = ld.rec
  BY <1>3, <1>4, <1>5, NextFileFields DEF Phase, Load
<1>7. RecInv(nf, current, Written) /\ RecInv(nx, current, Written)
  BY <1>1, <1>6 DEF RecInv
<1>8. Become(l, nf) \/ Become(l, nx)
  BY <1>2, <1>4, <1>5 DEF ReadChunk
<1>. QED  BY <1>1, <1>7, <1>8, BackedLocal

(* The record to be written starts empty.                                  *)
LEMMA BackedDecide ==
  ASSUME OneLoader, BackedInv, TypeInv', NEW l \in Loader, DecideToCache(l)
  PROVE  BackedInv'
<1> DEFINE ld == load[l]
<1>1. /\ ld \in Load /\ ld.pc = "quota" /\ ld.rec = NoRecord /\ ld.index = 0
      /\ UNCHANGED <<chunks, current, evicted>>
  BY DEF BackedInv, TypeInv, TypeOK, DecideToCache, RecInv
<1>2. PICK nx : nx = [ld EXCEPT !.pc = "put", !.rec.hash = ld.want]
  OBVIOUS
<1>3. /\ nx.pc = "put" /\ nx.want = ld.want /\ nx.rec.hash = ld.want /\ nx.index = 0
      /\ nx.rec.files = NoRecord.files
  BY <1>1, <1>2 DEF Load, Record
<1>4. \A f \in File : nx.rec.files[f].count = 0
  BY <1>3 DEF NoRecord
<1>5. RecInv(nx, current, Written)
  BY <1>3, <1>4, NoKeys, NoRecordKeys DEF RecInv
<1>6. Become(l, nx)
  BY <1>2 DEF DecideToCache
<1>. QED  BY <1>1, <1>5, <1>6, BackedLocal

(* A chunk is written before the record that will name it.                 *)
LEMMA BackedPutChunk ==
  ASSUME OneLoader, BackedInv, TypeInv', NEW l \in Loader, PutChunk(l)
  PROVE  BackedInv'
<1> DEFINE ld   == load[l]
           buf  == ld.bufs[ld.file]
           info == [total |-> Len(buf), count |-> ld.index + 1]
<1>1. /\ ld \in Load /\ RecInv(ld, current, Written) /\ ld.pc = "put"
      /\ ld.file \in File /\ ld.index \in Nat /\ current' = current
  BY DEF BackedInv, TypeInv, TypeOK, PutChunk, Load
<1>2. Written' = Written \cup {KeyOf(ld.want, ld.file, ld.index)}
  BY DEF PutChunk, AfterPut, Written, Present, NextKey
<1>3. FileKeys(ld.want, ld.file, ld.index + 1) \subseteq Written'
  BY <1>1, <1>2, OneMoreKey DEF RecInv
<1>4. RecordKeys(ld.rec) \subseteq Written' /\ RecordKeys(current') \subseteq Written'
  BY <1>1, <1>2 DEF RecInv, BackedInv
<1>5. PICK pd : pd = [ld EXCEPT !.rec.files[ld.file] = info]
  OBVIOUS
<1>6. /\ pd \in Load /\ pd.pc = "put" /\ pd.want = ld.want /\ pd.file = ld.file
      /\ pd.rec.hash = ld.rec.hash
      /\ \A f \in File : pd.rec.files[f] = IF f = ld.file THEN info ELSE ld.rec.files[f]
  <2>1. info \in FileInfo
    <3>1. buf \in Seq(Byte)
      BY <1>1 DEF Load
    <3>. QED  BY <1>1, <3>1, LenProperties DEF FileInfo
  <2>. QED  BY <1>1, <1>5, <2>1 DEF Load, Record
<1>7. RecordKeys(pd.rec) \subseteq Written'
  <2>1. ASSUME NEW f \in File
        PROVE  FileKeys(pd.rec.hash, f, pd.rec.files[f].count) \subseteq Written'
    <3>1. CASE f = ld.file
      BY <1>1, <1>3, <1>6, <3>1 DEF RecInv
    <3>2. CASE f # ld.file
      BY <1>4, <1>6, <3>2, RecordKeysForm
    <3>. QED  BY <3>1, <3>2
  <2>. QED  BY <2>1, RecordKeysForm
<1>8. PICK nf : nf = NextFile(pd, "record")
  OBVIOUS
<1>9. RecInv(nf, current', Written')
  <2>1. nf.want = ld.want /\ nf.rec = pd.rec /\ nf.index = 0
    BY <1>6, <1>8, NextFileFields DEF Phase
  <2>2. CASE ld.file = LastFile
    <3>1. nf.pc = "record"
      BY <1>6, <1>8, <2>2, NextFileFields DEF Phase
    <3>. QED  BY <1>7, <2>1, <3>1 DEF RecInv
  <2>3. CASE ld.file # LastFile
    <3>1. nf.pc = "put" /\ nf.file = ld.file + 1
      BY <1>6, <1>8, <2>3, NextFileFields DEF Phase
    <3>2. \A f \in File : f >= nf.file => nf.rec.files[f].count = 0
      BY <1>1, <1>6, <2>1, <3>1 DEF RecInv, File
    <3>. QED  BY <1>1, <1>6, <1>7, <2>1, <3>1, <3>2, NoKeys DEF RecInv
  <2>. QED  BY <2>2, <2>3
<1>10. PICK nx : nx = [ld EXCEPT !.index = @ + 1]
  OBVIOUS
<1>11. RecInv(nx, current', Written')
  <2>1. /\ nx.pc = "put" /\ nx.want = ld.want /\ nx.file = ld.file
        /\ nx.rec = ld.rec /\ nx.index = ld.index + 1
    BY <1>1, <1>10 DEF Load
  <2>. QED  BY <1>1, <1>3, <1>4, <2>1 DEF RecInv
<1>12. Become(l, nf) \/ Become(l, nx)
  BY <1>5, <1>8, <1>10 DEF PutChunk
<1>. QED  BY <1>4, <1>9, <1>11, <1>12, BackedStep

(* The record is published last, and everything it names is there.         *)
LEMMA BackedPutRecord ==
  ASSUME OneLoader, BackedInv, TypeInv', NEW l \in Loader, PutRecord(l)
  PROVE  BackedInv'
<1> DEFINE ld == load[l]
<1>1. /\ ld \in Load /\ RecInv(ld, current, Written) /\ ld.pc = "record"
      /\ current' = ld.rec /\ Written' = Written
  BY DEF BackedInv, TypeInv, TypeOK, PutRecord, Written, Present
<1>2. PICK nx : nx = [ld EXCEPT !.pc = "list"]
  OBVIOUS
<1>3. nx.pc = "list" /\ nx.rec = ld.rec
  BY <1>1, <1>2 DEF Load
<1>4. RecInv(nx, current', Written')
  BY <1>1, <1>3 DEF RecInv
<1>5. RecordKeys(current') \subseteq Written'
  BY <1>1 DEF RecInv
<1>. QED  BY <1>2, <1>4, <1>5, BackedStep DEF PutRecord

(* What the sweep lists is named by no record.                             *)
LEMMA BackedList ==
  ASSUME OneLoader, BackedInv, TypeInv', NEW l \in Loader, List(l)
  PROVE  BackedInv'
<1> DEFINE ld == load[l]
<1>1. /\ ld \in Load /\ RecInv(ld, current, Written) /\ ld.pc = "list"
      /\ UNCHANGED <<chunks, current, evicted>>
  BY DEF BackedInv, TypeInv, TypeOK, List
<1>2. PICK nx : nx = [ld EXCEPT !.pc = "sweep", !.todo = Present \ RecordKeys(ld.rec)]
  OBVIOUS
<1>3. /\ nx.pc = "sweep" /\ nx.rec = ld.rec /\ nx.todo = Present \ RecordKeys(ld.rec)
  BY <1>1, <1>2 DEF Load
<1>4. RecInv(nx, current, Written)
  BY <1>1, <1>3 DEF RecInv
<1>5. Become(l, nx) \/ Become(l, Done(ld))
  BY <1>2 DEF List
<1>. QED  BY <1>1, <1>4, <1>5, BackedLocal, BackedOutcome

(* The sweep takes nothing the record names.                               *)
LEMMA BackedDelete ==
  ASSUME OneLoader, BackedInv, TypeInv', NEW l \in Loader, DeleteOrphan(l)
  PROVE  BackedInv'
<1> DEFINE ld == load[l]
<1>1. /\ ld \in Load /\ RecInv(ld, current, Written) /\ ld.pc = "sweep"
      /\ UNCHANGED <<current, evicted>>
  BY DEF BackedInv, TypeInv, TypeOK, DeleteOrphan
<1>2. PICK k \in ld.todo :
        /\ chunks' = [j \in Present \ {k} |-> chunks[j]]
        /\ Become(l, IF ld.todo = {k} THEN Done(ld) ELSE [ld EXCEPT !.todo = @ \ {k}])
  BY DEF DeleteOrphan
<1>3. Written \ {k} \subseteq Written'
  BY <1>1, <1>2 DEF Written, Present
<1>4. RecordKeys(current') \subseteq Written'
  BY <1>1, <1>2, <1>3 DEF RecInv, BackedInv
<1>5. PICK nx : nx = [ld EXCEPT !.todo = @ \ {k}]
  OBVIOUS
<1>6. nx.pc = "sweep" /\ nx.rec = ld.rec /\ nx.todo = ld.todo \ {k}
  BY <1>1, <1>5 DEF Load
<1>7. RecInv(nx, current', Written')
  BY <1>1, <1>6 DEF RecInv
<1>8. Become(l, nx) \/ Become(l, Done(ld))
  BY <1>2, <1>5
<1>. QED  BY <1>1, <1>4, <1>7, <1>8, BackedStep, BackedOutcome

(* What the browser removes it has removed.                                *)
LEMMA BackedEnvironment ==
  ASSUME BackedInv, TypeInv', EvictChunk \/ ClearStore \/ \E v \in Version : Deploy(v)
  PROVE  BackedInv'
<1>1. load' = load
  BY DEF EvictChunk, ClearStore, Deploy
<1>2. CASE EvictChunk \/ \E v \in Version : Deploy(v)
  <2>1. Written' = Written /\ current' = current
    BY <1>2 DEF EvictChunk, Deploy, Written, Present
  <2>. QED  BY <1>1, <2>1 DEF BackedInv
<1>3. CASE ClearStore
  <2>1. Written' = Written /\ current' = NoRecord
    BY <1>3 DEF ClearStore, Written, Present
  <2>2. \A l \in Loader : RecInv(load[l], NoRecord, Written)
    BY NoRecordNamesNothing DEF BackedInv, RecInv
  <2>. QED  BY <1>1, <2>1, <2>2, NoRecordNamesNothing DEF BackedInv
<1>. QED  BY <1>2, <1>3

LEMMA BackedInvInit == Init => BackedInv
<1>1. SUFFICES ASSUME Init PROVE BackedInv
  OBVIOUS
<1>2. \A l \in Loader : RecInv(load[l], current, Written)
  <2>1. Idle.rec = NoRecord /\ Idle.pc = "idle"
    BY DEF Idle
  <2>. QED  BY <1>1, <2>1, NoRecInv DEF Init
<1>. QED  BY <1>1, <1>2, TypeInvInit, CacheAssumption, NoRecordNamesNothing DEF Init, BackedInv

LEMMA BackedInvNext ==
  ASSUME OneLoader, BackedInv, [Next]_vars
  PROVE  BackedInv'
<1>1. TypeInv'
  BY TypeInvNext, CacheAssumption DEF BackedInv
<1>2. ASSUME NEW l \in Loader, Proceed(l) PROVE BackedInv'
  BY <1>1, <1>2, BackedPlain, BackedReadCurrent, BackedReadChunk, BackedDecide, BackedPutChunk,
     BackedPutRecord, BackedList, BackedDelete DEF Proceed
<1>3. ASSUME NEW l \in Loader, Disturb(l) PROVE BackedInv'
  BY <1>1, <1>3, BackedPlain
<1>4. CASE EvictChunk \/ ClearStore \/ \E v \in Version : Deploy(v)
  BY <1>1, <1>4, BackedEnvironment
<1>5. CASE UNCHANGED vars
  <2>1. Written' = Written /\ current' = current /\ load' = load
    BY <1>5 DEF vars, Written, Present
  <2>. QED  BY <1>1, <2>1 DEF BackedInv
<1>. QED  BY <1>2, <1>3, <1>4, <1>5 DEF Next

(* With one page the record in the store names only chunks that were       *)
(* written and that nothing but the browser removed, wherever a load was   *)
(* interrupted: the record is put after its chunks, and a sweep spares     *)
(* what the last record names.                                             *)
THEOREM RecordsAreBacked ==
  ASSUME OneLoader
  PROVE  Safety => []RecordBacked
<1>1. Init => BackedInv  BY BackedInvInit
<1>2. BackedInv /\ [Next]_vars => BackedInv'  BY BackedInvNext
<1>3. BackedInv => RecordBacked
  BY DEF BackedInv, RecordBacked, Written
<1>. QED  BY <1>1, <1>2, <1>3, PTL DEF Safety

-----------------------------------------------------------------------------
(* A reload downloads nothing *)

(* The record counts enough chunks of the file, and at least one.          *)
Counted(r, f) ==
  \A c \in ChunkSize : r.files[f].count > 0 /\ FileLen[r.hash][f] <= r.files[f].count * c

(* The record counts all chunks.                                           *)
CountExact(r) == r.hash \in Version => \A f \in File : Counted(r, f)

(* A load reads a chunk its record counts, or has counted what it wrote.   *)
CountInv(ld) ==
  /\ ld.pc = "read" => CountExact(ld.rec) /\ ld.index < ld.rec.files[ld.file].count
  /\ ld.pc = "put" => \A f \in File : f < ld.file => Counted(ld.rec, f)
  /\ ld.pc = "record" => CountExact(ld.rec)

FreeInv ==
  /\ ExactInv /\ BackedInv
  /\ CountExact(current)
  /\ \A l \in Loader : CountInv(load[l])

(* What the next chunk is when it is there: the file so far and the next   *)
(* slice of it are what readCachedFile accepts.                            *)
LEMMA PresentIsReadable ==
  ASSUME FreeInv, NEW l \in Loader, load[l].pc = "read", NextKey(l) \in Present
  PROVE  Readable(l)
<1> DEFINE ld  == load[l]
           con == Content(ld.want, ld.file)
           n   == ld.index * ld.size
<1>1. /\ ld \in Load /\ LoadInv(ld, deployed) /\ ld.want \in Version /\ ld.file \in File
      /\ ld.rec.hash = ld.want /\ CountInv(ld)
  BY DEF FreeInv, ExactInv, TypeInv, TypeOK, HasManifest, Phase, Load, LoadInv
<1>2. ld.size \in ChunkSize /\ ld.size \in Nat \ {0} /\ ld.index \in Nat /\ n \in Nat
  <2>1. ld.size \in ChunkSize  BY <1>1 DEF LoadInv
  <2>2. ld.size \in Nat \ {0}  BY <2>1, CacheAssumption
  <2>3. ld.index \in Nat  BY <1>1 DEF Load
  <2>. QED  BY <2>1, <2>2, <2>3
<1>3. con \in Seq(Byte) /\ Len(con) = FileLen[ld.want][ld.file] /\ Len(con) \in Nat
  BY <1>1, ContentType, CacheAssumption
<1>4. chunks[NextKey(l)] = Slice(con, ld.size, n)
  BY <1>2 DEF FreeInv, ExactInv, StoreExact, NextKey, KeyOf
<1>5. ld.bufs[ld.file] = SubSeq(con, 1, Lesser(n, Len(con)))
  BY <1>1 DEF LoadInv, Prefix
<1>6. Joined(l) = SubSeq(con, 1, Lesser(n + ld.size, Len(con)))
  BY <1>2, <1>3, <1>4, <1>5, PrefixAndSlice DEF Joined
<1>7. Len(Joined(l)) = Lesser(n + ld.size, Len(con))
  <2>1. PICK m : m = Lesser(n + ld.size, Len(con))
    OBVIOUS
  <2>2. PICK s : s = con
    OBVIOUS
  <2>3. s \in Seq(Byte) /\ m \in 0 .. Len(s)
    BY <1>2, <1>3, <2>1, <2>2 DEF Lesser
  <2>4. \A i \in 1 .. m : s[i] \in Byte
    BY <2>3, ElementOfSeq
  <2>5. Len(SubSeq(s, 1, m)) = m
    BY <2>3, <2>4, SubSeqProperties
  <2>. QED  BY <1>6, <2>1, <2>2, <2>5
<1>8. InfoOf(l).total = Len(con)
  BY <1>1, <1>3 DEF LoadInv, RecordExact, TotalExact, InfoOf
<1>9. Len(Joined(l)) <= InfoOf(l).total
  BY <1>2, <1>3, <1>7, <1>8 DEF Lesser
<1>10. ASSUME IsLastChunk(l) PROVE Len(Joined(l)) = InfoOf(l).total
  <2>1. Len(con) <= (ld.index + 1) * ld.size
    BY <1>1, <1>2, <1>3, <1>10 DEF CountInv, CountExact, Counted, IsLastChunk, InfoOf
  <2>2. (ld.index + 1) * ld.size = n + ld.size
    BY <1>2
  <2>. QED  BY <1>2, <1>3, <1>7, <1>8, <2>1, <2>2 DEF Lesser
<1>. QED  BY <1>9, <1>10 DEF Readable

(* A load reads only keys its record names.                                *)
LEMMA ReadsRecorded ==
  ASSUME FreeInv, NEW l \in Loader, load[l].pc = "read"
  PROVE  NextKey(l) \in Written
<1> DEFINE ld == load[l]
<1>1. /\ ld \in Load /\ ld.rec.hash = ld.want /\ CountInv(ld) /\ RecInv(ld, current, Written)
  BY DEF FreeInv, ExactInv, BackedInv, TypeInv, TypeOK, LoadInv
<1>2. /\ ld.file \in File /\ ld.index \in Nat /\ ld.rec.files[ld.file].count \in Nat
  BY <1>1 DEF Load, Record, FileInfo
<1>3. ld.index \in 0 .. ld.rec.files[ld.file].count - 1
  BY <1>1, <1>2 DEF CountInv
<1>4. NextKey(l) \in FileKeys(ld.rec.hash, ld.file, ld.rec.files[ld.file].count)
  BY <1>1, <1>3 DEF NextKey, FileKeys
<1>5. NextKey(l) \in RecordKeys(ld.rec)
  BY <1>2, <1>4, RecordKeysForm
<1>. QED  BY <1>1, <1>5 DEF RecInv

(* The counts after a step of one page.                                    *)
LEMMA CountStep ==
  ASSUME FreeInv, NEW l \in Loader, NEW ld, Become(l, ld), CountInv(ld), CountExact(current)'
  PROVE  CountExact(current)' /\ \A m \in Loader : CountInv(load[m])'
<1>1. \A m \in Loader : load'[m] = IF m = l THEN ld ELSE load[m]
  BY DEF FreeInv, ExactInv, TypeInv, TypeOK, Become
<1>2. \A m \in Loader : CountInv(load'[m])
  BY <1>1 DEF FreeInv
<1>. QED  BY <1>2

(* The steps that neither go on reading nor write.                         *)
LEMMA CountPlain ==
  ASSUME FreeInv, NEW l \in Loader,
         \/ Visit(l) \/ FetchManifest(l) \/ OpenStore(l) \/ FetchFile(l) \/ ReadMiss(l)
         \/ List(l) \/ DeleteOrphan(l) \/ Leave(l)
         \/ DecideNotToCache(l) \/ PutExceeds(l) \/ Disturb(l)
  PROVE  CountExact(current)' /\ \A m \in Loader : CountInv(load[m])'
<1> DEFINE ld == load[l]
<1>1. ld \in Load
  BY DEF FreeInv, ExactInv, TypeInv, TypeOK
<1>2. CountExact(current)'
  <2>1. current' = current
    BY DEF Visit, FetchManifest, OpenStore, FetchFile, ReadMiss, List, DeleteOrphan, Leave, Disturb,
           NoStore, DecideNotToCache, PutExceeds, DownloadFails, StoreRejects, Crash
  <2>. QED  BY <2>1 DEF FreeInv, CountExact, Counted
<1> DEFINE Goal == \E nx : Become(l, nx) /\ nx.pc \notin {"read", "put", "record"}
<1>3. SUFFICES Goal
  BY <1>2, CountStep DEF CountInv
<1>4. Miss(ld).pc = "fetch" /\ Done(ld).pc = "done" /\ Idle.pc = "idle"
  BY <1>1, OutcomeForm
<1>5. ASSUME Visit(l) \/ DownloadFails(l) PROVE Goal
  <2>1. PICK nx : /\ Become(l, nx)
                  /\ \/ \E c \in ChunkSize : nx = [Idle EXCEPT !.pc = "manifest", !.size = c]
                     \/ nx = [Idle EXCEPT !.pc = "failed"]
    BY <1>5 DEF Visit, DownloadFails
  <2>2. nx.pc \in {"manifest", "failed"}
    BY <2>1 DEF Idle
  <2>. QED  BY <2>1, <2>2
<1>6. ASSUME FetchManifest(l) \/ OpenStore(l) \/ NoStore(l) PROVE Goal
  <2>1. PICK nx : /\ Become(l, nx)
                  /\ \/ nx = [ld EXCEPT !.pc = "open", !.want = deployed]
                     \/ nx = [ld EXCEPT !.pc = "current", !.store = TRUE]
                     \/ nx = [ld EXCEPT !.pc = "fetch"]
    BY <1>6 DEF FetchManifest, OpenStore, NoStore
  <2>2. nx.pc \in {"open", "current", "fetch"}
    BY <1>1, <2>1 DEF Load
  <2>. QED  BY <2>1, <2>2
<1>7. ASSUME FetchFile(l) PROVE Goal
  <2>1. PICK fd : fd = [ld EXCEPT !.bufs[ld.file] = Content(deployed, ld.file)]
    OBVIOUS
  <2>2. PICK nf : nf = NextFile(fd, "quota")
    OBVIOUS
  <2>3. fd \in Load /\ fd.pc = "fetch"
    <3>1. deployed \in Version /\ ld.file \in File /\ ld.pc = "fetch"
      BY <1>1, <1>7 DEF FreeInv, ExactInv, TypeInv, TypeOK, Load, FetchFile
    <3>2. Content(deployed, ld.file) \in Seq(Byte)
      BY <3>1, ContentType, CacheAssumption
    <3>. QED  BY <1>1, <2>1, <3>1, <3>2 DEF Load
  <2>4. nf \in Load /\ nf.pc \in {"fetch", "quota"}
    BY <2>2, <2>3, NextFileFields, NextFileType DEF Phase
  <2>5. Become(l, nf) \/ Become(l, Done(nf))
    BY <1>7, <2>1, <2>2 DEF FetchFile
  <2>. QED  BY <2>4, <2>5, OutcomeForm
<1>8. ASSUME List(l) \/ DeleteOrphan(l) PROVE Goal
  <2>1. PICK nx : /\ Become(l, nx)
                  /\ \/ nx = [ld EXCEPT !.pc = "sweep", !.todo = Present \ RecordKeys(ld.rec)]
                     \/ ld.pc = "sweep" /\ \E k : nx = [ld EXCEPT !.todo = @ \ {k}]
                     \/ nx = Done(ld)
    BY <1>8 DEF List, DeleteOrphan
  <2>2. nx.pc \in {"sweep", "done"}
    BY <1>1, <1>4, <2>1 DEF Load
  <2>. QED  BY <2>1, <2>2
<1>9. ASSUME \/ ReadMiss(l) \/ Leave(l) \/ StoreRejects(l) \/ Crash(l)
             \/ DecideNotToCache(l) \/ PutExceeds(l)
      PROVE  Goal
  <2>1. Become(l, Miss(ld)) \/ Become(l, Done(ld)) \/ Become(l, Idle)
    BY <1>9 DEF ReadMiss, Leave, StoreRejects, DecideNotToCache, PutExceeds, Crash
  <2>. QED  BY <1>4, <2>1
<1>. QED  BY <1>5, <1>6, <1>7, <1>8, <1>9 DEF Disturb

(* The record of a hit counts all chunks, the first one of them.           *)
LEMMA CountReadCurrent ==
  ASSUME FreeInv, NEW l \in Loader, ReadCurrent(l)
  PROVE  CountExact(current)' /\ \A m \in Loader : CountInv(load[m])'
<1> DEFINE ld == load[l]
<1>1. /\ ld \in Load /\ LoadInv(ld, deployed) /\ HasManifest(ld) /\ ld.pc = "current"
      /\ CountExact(current) /\ current' = current
  BY DEF FreeInv, ExactInv, TypeInv, TypeOK, ReadCurrent
<1>2. CountExact(current)'
  BY <1>1 DEF CountExact, Counted
<1>3. Miss(ld).pc = "fetch"
  BY <1>1, OutcomeForm
<1>4. ASSUME current.hash = ld.want
      PROVE  CountInv([ld EXCEPT !.pc = "read", !.rec = current])
  <2>1. PICK nx : nx = [ld EXCEPT !.pc = "read", !.rec = current]
    OBVIOUS
  <2>2. nx.pc = "read" /\ nx.rec = current /\ nx.index = 0 /\ nx.file = 1
    BY <1>1, <2>1 DEF Load, LoadInv
  <2>3. Counted(current, 1) /\ ld.size \in ChunkSize
    BY <1>1, <1>4 DEF HasManifest, Phase, CountExact, File, LoadInv
  <2>4. 0 < current.files[1].count
    BY <2>3 DEF Counted
  <2>. QED  BY <1>1, <2>1, <2>2, <2>4 DEF CountInv
<1>5. \/ current.hash = ld.want /\ Become(l, [ld EXCEPT !.pc = "read", !.rec = current])
      \/ Become(l, Miss(ld))
  BY DEF ReadCurrent
<1>. QED  BY <1>2, <1>3, <1>4, <1>5, CountStep DEF CountInv

(* The chunk to be read next is counted.                                   *)
LEMMA CountReadChunk ==
  ASSUME FreeInv, NEW l \in Loader, ReadChunk(l)
  PROVE  CountExact(current)' /\ \A m \in Loader : CountInv(load[m])'
<1> DEFINE ld == load[l]
<1>1. /\ ld \in Load /\ LoadInv(ld, deployed) /\ HasManifest(ld) /\ ld.pc = "read"
      /\ CountInv(ld) /\ CountExact(current) /\ current' = current
  BY DEF FreeInv, ExactInv, TypeInv, TypeOK, ReadChunk
<1>2. CountExact(current)'
  BY <1>1 DEF CountExact, Counted
<1>3. PICK rd : rd = [ld EXCEPT !.bufs[ld.file] = Joined(l)]
  OBVIOUS
<1>4. /\ rd \in Load /\ rd.pc = "read" /\ rd.rec = ld.rec /\ rd.file = ld.file
      /\ rd.index = ld.index
  <2>1. Joined(l) \in Seq(Byte)
    BY <1>1, ConcatProperties
       DEF ReadChunk, Readable, Joined, FreeInv, ExactInv, TypeInv, TypeOK, Load
  <2>. QED  BY <1>1, <1>3, <2>1 DEF Load
<1>5. CountInv(NextFile(rd, "list"))
  <2>1. PICK nf : nf = NextFile(rd, "list")
    OBVIOUS
  <2>2. nf \in Load /\ nf.rec = ld.rec /\ nf.index = 0 /\ nf.pc \in {"read", "list"}
    BY <1>4, <2>1, NextFileFields, NextFileType DEF Phase
  <2>3. Counted(ld.rec, nf.file) /\ ld.size \in ChunkSize
    BY <1>1, <2>2 DEF HasManifest, Phase, CountInv, CountExact, LoadInv, Load
  <2>4. 0 < nf.rec.files[nf.file].count
    BY <2>2, <2>3 DEF Counted
  <2>. QED  BY <1>1, <2>1, <2>2, <2>4 DEF CountInv
<1>6. ASSUME ~IsLastChunk(l) PROVE CountInv([rd EXCEPT !.index = @ + 1])
  <2>1. PICK nx : nx = [rd EXCEPT !.index = @ + 1]
    OBVIOUS
  <2>2. /\ nx.pc = "read" /\ nx.rec = ld.rec /\ nx.file = ld.file
        /\ nx.index = ld.index + 1
    BY <1>4, <2>1 DEF Load
  <2>3. ld.index \in Nat /\ ld.rec.files[ld.file].count \in Nat
    BY <1>1 DEF Load, Record, FileInfo
  <2>4. ld.index + 1 < ld.rec.files[ld.file].count
    BY <1>1, <1>6, <2>3 DEF CountInv, IsLastChunk, InfoOf
  <2>. QED  BY <1>1, <2>1, <2>2, <2>4 DEF CountInv
<1>7. \/ Become(l, NextFile(rd, "list"))
      \/ ~IsLastChunk(l) /\ Become(l, [rd EXCEPT !.index = @ + 1])
  BY <1>3 DEF ReadChunk
<1>. QED  BY <1>2, <1>5, <1>6, <1>7, CountStep

(* A write starts with the first file.                                     *)
LEMMA CountDecide ==
  ASSUME FreeInv, NEW l \in Loader, DecideToCache(l)
  PROVE  CountExact(current)' /\ \A m \in Loader : CountInv(load[m])'
<1> DEFINE ld == load[l]
<1>1. /\ ld \in Load /\ ld.file = 1 /\ CountExact(current) /\ current' = current
  BY DEF FreeInv, ExactInv, TypeInv, TypeOK, DecideToCache, LoadInv
<1>2. CountExact(current)'
  BY <1>1 DEF CountExact, Counted
<1>3. PICK nx : nx = [ld EXCEPT !.pc = "put", !.rec.hash = ld.want]
  OBVIOUS
<1>4. nx.pc = "put" /\ nx.file = 1
  BY <1>1, <1>3 DEF Load
<1>5. CountInv(nx)
  BY <1>4 DEF CountInv, File
<1>. QED  BY <1>2, <1>3, <1>5, CountStep DEF DecideToCache

(* A file's count is set with its last slice, so its chunks hold it all.   *)
LEMMA CountPutChunk ==
  ASSUME OneChunkSize, FreeInv, NEW l \in Loader, PutChunk(l)
  PROVE  CountExact(current)' /\ \A m \in Loader : CountInv(load[m])'
<1> DEFINE ld     == load[l]
           buf    == ld.bufs[ld.file]
           offset == ld.index * ld.size
           info   == [total |-> Len(buf), count |-> ld.index + 1]
<1>1. /\ ld \in Load /\ LoadInv(ld, deployed) /\ CountInv(ld) /\ ld.pc = "put"
      /\ ld.want \in Version /\ ld.file \in File /\ ld.index \in Nat
      /\ ld.size \in ChunkSize /\ ld.rec.hash = ld.want /\ buf = Content(ld.want, ld.file)
      /\ CountExact(current) /\ current' = current
  BY DEF FreeInv, ExactInv, TypeInv, TypeOK, HasManifest, Phase, PutChunk, Load, LoadInv, Exact
<1>2. CountExact(current)'
  BY <1>1 DEF CountExact, Counted
<1>3. Len(buf) = FileLen[ld.want][ld.file] /\ Len(buf) \in Nat
  BY <1>1, ContentType, CacheAssumption
<1>4. ASSUME IsLastSlice(buf, ld.size, offset)
      PROVE  CountInv(NextFile([ld EXCEPT !.rec.files[ld.file] = info], "record"))
  <2>1. PICK pd : pd = [ld EXCEPT !.rec.files[ld.file] = info]
    OBVIOUS
  <2>2. PICK nf : nf = NextFile(pd, "record")
    OBVIOUS
  <2>3. /\ pd \in Load /\ pd.pc = "put" /\ pd.file = ld.file /\ pd.rec.hash = ld.want
        /\ \A f \in File : pd.rec.files[f] = IF f = ld.file THEN info ELSE ld.rec.files[f]
    <3>1. info \in FileInfo
      BY <1>1, <1>3 DEF FileInfo
    <3>. QED  BY <1>1, <2>1, <3>1 DEF Load, Record
  <2>4. nf.rec = pd.rec
    BY <2>2, <2>3, NextFileFields DEF Phase
  <2>5. Counted(pd.rec, ld.file)
    <3>1. ld.size \in Nat /\ \A c \in ChunkSize : c = ld.size
      BY <1>1, CacheAssumption DEF OneChunkSize
    <3>2. offset + ld.size = (ld.index + 1) * ld.size
      BY <1>1, <3>1
    <3>3. Len(buf) <= offset + ld.size
      <4>1. offset \in Nat
        BY <1>1, <3>1
      <4>. QED  BY <1>3, <1>4, <3>1, <4>1 DEF IsLastSlice
    <3>. QED  BY <1>1, <1>3, <2>3, <3>1, <3>2, <3>3 DEF Counted
  <2>6. ASSUME NEW f \in File, f <= ld.file PROVE Counted(pd.rec, f)
    <3>1. CASE f = ld.file
      BY <2>5, <3>1
    <3>2. CASE f # ld.file
      <4>1. f < ld.file
        BY <1>1, <2>6, <3>2 DEF File
      <4>2. Counted(ld.rec, f)
        BY <1>1, <4>1 DEF CountInv
      <4>. QED  BY <1>1, <2>3, <3>2, <4>2 DEF Counted
    <3>. QED  BY <3>1, <3>2
  <2>7. CASE ld.file = LastFile
    <3>1. nf.pc = "record"
      BY <2>2, <2>3, <2>7, NextFileFields DEF Phase
    <3>2. CountExact(nf.rec)
      BY <2>4, <2>6, <2>7 DEF CountExact, File, LastFile
    <3>. QED  BY <2>1, <2>2, <3>1, <3>2 DEF CountInv
  <2>8. CASE ld.file # LastFile
    <3>1. nf.pc = "put" /\ nf.file = ld.file + 1
      BY <2>2, <2>3, <2>8, NextFileFields DEF Phase
    <3>2. \A f \in File : f < nf.file => Counted(nf.rec, f)
      BY <1>1, <2>4, <2>6, <3>1 DEF File
    <3>. QED  BY <2>1, <2>2, <3>1, <3>2 DEF CountInv
  <2>. QED  BY <2>7, <2>8
<1>5. CountInv([ld EXCEPT !.index = @ + 1])
  <2>1. PICK nx : nx = [ld EXCEPT !.index = @ + 1]
    OBVIOUS
  <2>2. nx.pc = "put" /\ nx.file = ld.file /\ nx.rec = ld.rec
    BY <1>1, <2>1 DEF Load
  <2>. QED  BY <1>1, <2>1, <2>2 DEF CountInv
<1>6. \/ /\ IsLastSlice(buf, ld.size, offset)
         /\ Become(l, NextFile([ld EXCEPT !.rec.files[ld.file] = info], "record"))
      \/ Become(l, [ld EXCEPT !.index = @ + 1])
  BY DEF PutChunk
<1>. QED  BY <1>2, <1>4, <1>5, <1>6, CountStep

(* The record published counts all chunks.                                 *)
LEMMA CountPutRecord ==
  ASSUME FreeInv, NEW l \in Loader, PutRecord(l)
  PROVE  CountExact(current)' /\ \A m \in Loader : CountInv(load[m])'
<1> DEFINE ld == load[l]
<1>1. /\ ld \in Load /\ CountExact(ld.rec) /\ current' = ld.rec
  BY DEF FreeInv, ExactInv, TypeInv, TypeOK, PutRecord, CountInv
<1>2. CountExact(current)'
  BY <1>1 DEF CountExact, Counted
<1>3. PICK nx : nx = [ld EXCEPT !.pc = "list"]
  OBVIOUS
<1>4. nx.pc = "list"
  BY <1>1, <1>3 DEF Load
<1>. QED  BY <1>2, <1>3, <1>4, CountStep DEF PutRecord, CountInv

(* A cleared store counts nothing and matches no manifest.                 *)
LEMMA CountEnvironment ==
  ASSUME FreeInv, EvictChunk \/ ClearStore \/ \E v \in Version : Deploy(v)
  PROVE  CountExact(current)' /\ \A m \in Loader : CountInv(load[m])'
<1>1. load' = load /\ (current' = current \/ current' = NoRecord)
  BY DEF EvictChunk, ClearStore, Deploy
<1>2. CountExact(NoRecord)
  BY CacheAssumption DEF NoRecord, CountExact
<1>3. CountExact(current')
  BY <1>1, <1>2 DEF FreeInv
<1>4. \A m \in Loader : CountInv(load'[m])
  BY <1>1 DEF FreeInv
<1>. QED  BY <1>3, <1>4

(* Nothing is counted at first.                                            *)
LEMMA FreeInvInit == Init => FreeInv
<1>1. SUFFICES ASSUME Init PROVE FreeInv
  OBVIOUS
<1>2. CountExact(current)
  BY <1>1, CacheAssumption DEF Init, NoRecord, CountExact
<1>3. \A l \in Loader : CountInv(load[l])
  BY <1>1 DEF Init, Idle, CountInv
<1>. QED  BY <1>1, <1>2, <1>3, ExactInvInit, BackedInvInit, CacheAssumption DEF FreeInv

(* Every step preserves what a reload relies on.                           *)
LEMMA FreeInvNext ==
  ASSUME OneLoader, OneChunkSize, ~DeployDuringLoad, FreeInv, [Next]_vars
  PROVE  FreeInv'
<1>1. ExactInv'
  BY ExactInvNext, CacheAssumption DEF FreeInv
<1>2. BackedInv'
  BY BackedInvNext DEF FreeInv
<1>3. CountExact(current)' /\ \A m \in Loader : CountInv(load[m])'
  <2>1. ASSUME NEW l \in Loader, Proceed(l) \/ Disturb(l)
        PROVE  CountExact(current)' /\ \A m \in Loader : CountInv(load[m])'
    BY <2>1, CountPlain, CountReadCurrent, CountReadChunk, CountDecide, CountPutChunk,
       CountPutRecord DEF Proceed
  <2>2. CASE EvictChunk \/ ClearStore \/ \E v \in Version : Deploy(v)
    BY <2>2, CountEnvironment
  <2>3. CASE UNCHANGED vars
    BY <2>3 DEF vars, FreeInv, CountExact, Counted, CountInv
  <2>. QED  BY <2>1, <2>2, <2>3 DEF Next
<1>. QED  BY <1>1, <1>2, <1>3 DEF FreeInv

(* A reload that turns to the network has met an eviction or a fault.      *)
LEMMA MissHasACause ==
  ASSUME OneLoader, FreeInv, [Next]_vars, NEW l \in Loader,
         load[l].pc = "read", load'[l].pc = "fetch"
  PROVE  NextKey(l) \in evicted \/ faults' # faults
<1> DEFINE ld == load[l]
<1>1. ld \in Load /\ faults \in Nat /\ load \in [Loader -> Load]
  BY CacheAssumption DEF FreeInv, ExactInv, TypeInv, TypeOK
<1>2. ASSUME ReadMiss(l) PROVE NextKey(l) \in evicted
  <2>1. NextKey(l) \notin Present
    BY <1>2, PresentIsReadable DEF ReadMiss
  <2>. QED  BY <2>1, ReadsRecorded DEF Written
<1>3. ASSUME ReadChunk(l) PROVE FALSE
  <2>1. PICK rd : rd = [ld EXCEPT !.bufs[ld.file] = Joined(l)]
    OBVIOUS
  <2>2. rd \in Load /\ rd.pc = "read"
    <3>1. Joined(l) \in Seq(Byte)
      BY <1>1, <1>3, ConcatProperties
         DEF ReadChunk, Readable, Joined, FreeInv, ExactInv, TypeInv, TypeOK, Load
    <3>. QED  BY <1>1, <2>1, <3>1 DEF Load
  <2>3. PICK nx : nx \in {NextFile(rd, "list"), [rd EXCEPT !.index = @ + 1]} /\ Become(l, nx)
    BY <1>3, <2>1 DEF ReadChunk
  <2>4. nx.pc # "fetch"
    BY <2>2, <2>3, NextFileFields DEF Phase, Load
  <2>. QED  BY <1>1, <2>3, <2>4 DEF Become
<1>4. ASSUME Disturb(l) PROVE faults' # faults
  BY <1>1, <1>4 DEF Disturb, NoStore, DownloadFails, StoreRejects, Crash, Fault
<1>5. ~(EvictChunk \/ ClearStore \/ (\E v \in Version : Deploy(v)) \/ UNCHANGED vars)
  BY DEF EvictChunk, ClearStore, Deploy, vars
<1>6. ASSUME Proceed(l) PROVE ReadMiss(l) \/ ReadChunk(l)
  BY <1>6 DEF Proceed, Visit, FetchManifest, OpenStore, ReadCurrent, FetchFile, DecideToCache,
              DecideNotToCache, PutChunk, PutExceeds, PutRecord, List, DeleteOrphan, Leave
<1>7. \A m \in Loader : m = l
  BY DEF OneLoader
<1>8. Proceed(l) \/ Disturb(l)
  BY <1>5, <1>7 DEF Next
<1>. QED  BY <1>2, <1>3, <1>4, <1>6, <1>8

(* With one page, one chunk size and an origin that does not change under  *)
(* a load, a reload whose manifest matches the record downloads nothing,   *)
(* unless the browser evicted the chunk it needs or a fault happens just   *)
(* then: what earlier loads wrote, interrupted or not, serves all others.  *)
THEOREM ReloadsAreFree ==
  ASSUME OneLoader, OneChunkSize, ~DeployDuringLoad
  PROVE  Safety => ReloadIsFree
<1>1. Init => FreeInv  BY FreeInvInit
<1>2. FreeInv /\ [Next]_vars => FreeInv'  BY FreeInvNext
<1>3. FreeInv /\ [Next]_vars
        => [\A l \in Loader : load[l].pc = "read" /\ load'[l].pc = "fetch" =>
              NextKey(l) \in evicted \/ faults' # faults]_vars
  BY MissHasACause
<1>. QED  BY <1>1, <1>2, <1>3, PTL DEF Safety, ReloadIsFree
=============================================================================
