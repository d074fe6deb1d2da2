---------------------------- MODULE WeightCache ----------------------------
(***************************************************************************)
(* The persistent weight cache of the LLM loader: every call of            *)
(* loadWeightsQ8FromUrl (llm/browser-weights.ts) against one base URL, the *)
(* chunk store those calls share (llm/weight-cache.ts over IndexedDB), and *)
(* the origin that serves the checkpoint.                                  *)
(*                                                                         *)
(* A loader is a page: it runs one load at a time, and any number of them  *)
(* one after the other.  Two loaders are two tabs.  One step of a loader   *)
(* is what the code does from one await to the next, that is one store     *)
(* operation or one download; anything else may happen in between.         *)
(*                                                                         *)
(* A file is the sequence of its bytes and a byte is <<version, file,      *)
(* position>>: two bytes are equal only when they are the same byte of the *)
(* same published file.                                                    *)
(*                                                                         *)
(* The store has so much room: the origin's quota less what other data of  *)
(* the origin occupies, which does not change within a behaviour.  Whether *)
(* a load writes depends on what the cache itself already stores.          *)
(***************************************************************************)
EXTENDS Integers, Sequences, FiniteSetsExt

CONSTANTS
  Loader,            \* the pages that load weights from this base URL
  Version,           \* published checkpoints; each stands for its manifest's hash
  FileLen,           \* FileLen[v][f]: how many bytes file f of version v has
  ChunkSize,         \* the values of chunkSizeBytes the pages use
  Storage,           \* how much room the store may have, and whether a page is told
  MaxFaults,         \* how many faults of any kind a behaviour may contain
  DeployDuringLoad,  \* TRUE: the origin may change under a load in progress
  NetworkFails,      \* TRUE: a download may fail
  None               \* no version

(* The files in the order they are downloaded, read and written: codes,    *)
(* scales, norms.                                                          *)
File == 1 .. 3
LastFile == 3

ASSUME CacheAssumption ==
  /\ FileLen \in [Version -> [File -> Nat]]
  /\ ChunkSize \subseteq Nat \ {0}
  /\ Storage \subseteq [room : Nat, told : BOOLEAN]
  /\ MaxFaults \in Nat
  /\ DeployDuringLoad \in BOOLEAN /\ NetworkFails \in BOOLEAN
  /\ None \notin Version

VARIABLES
  deployed,  \* the version the origin serves
  chunks,    \* the store's chunk entries: chunk key -> bytes
  current,   \* the store's current-version record
  storage,   \* the bytes there is room for; whether estimate() says so
  load,      \* load[l]: the state of l's load
  evicted,   \* history: keys the browser evicted and nobody wrote since
  faults     \* history: faults so far

vars == <<deployed, chunks, current, storage, load, evicted, faults>>

-----------------------------------------------------------------------------
(* Files, chunks, records *)

Byte == Version \X File \X Nat

Content(v, f) == [p \in 1 .. FileLen[v][f] |-> <<v, f, p>>]

Lesser(a, b) == IF a <= b THEN a ELSE b

(* The slice of a buffer iterateChunks yields at an offset.                *)
Slice(buf, c, offset) == SubSeq(buf, offset + 1, Lesser(offset + c, Len(buf)))

(* Nothing follows the slice at this offset; an empty buffer is one empty  *)
(* slice.                                                                  *)
IsLastSlice(buf, c, offset) == offset + c >= Len(buf)

(* The namespace is the same for all, and chunkSizeBytes is not in the key. *)
ChunkKey == [hash : Version, file : File, index : Nat]

(* Mutant: the manifest's hash is left out of the key.                     *)
KeyOf_NoHash(h, f, i) == [hash |-> CHOOSE v \in Version : TRUE, file |-> f, index |-> i]

KeyOf(h, f, i) == [hash |-> h, file |-> f, index |-> i]

FileInfo == [total : Nat, count : Nat]

Record == [hash : Version \cup {None}, files : [File -> FileInfo]]

NoRecord == [hash |-> None, files |-> [f \in File |-> [total |-> 0, count |-> 0]]]

(* The chunk keys a record implies.                                        *)
RecordKeys(r) ==
  UNION {{KeyOf(r.hash, f, i) : i \in 0 .. r.files[f].count - 1} : f \in File}

Present == DOMAIN chunks

(* expectedFileByteSizes, summed: the manifest alone tells the sizes.      *)
RequiredBytes(v) == FileLen[v][1] + FileLen[v][2] + FileLen[v][3]

(* What the cache occupies: old versions and leftovers count like the rest. *)
Stored == MapThenSumSet(LAMBDA k : Len(chunks[k]), Present)

(* There is room for another copy, with the default headroom of a tenth.   *)
Roomy(v) == 10 * storage.room >= 10 * Stored + 11 * RequiredBytes(v)

(* decideCacheStrategy: what estimate() reports as used includes what this *)
(* cache stores; where there is no estimate a write is tried all the same. *)
UseCache(v) == storage.told => Roomy(v)

-----------------------------------------------------------------------------
(* A load *)

Phase == {"idle", "manifest", "open", "current", "read", "fetch", "quota",
          "put", "record", "list", "sweep", "done", "failed"}

Load == [pc    : Phase,
         want  : Version \cup {None},      \* the manifest's hash
         size  : ChunkSize \cup {0},       \* chunkSizeBytes
         store : BOOLEAN,                  \* a chunk store could be opened
         rec   : Record,                   \* the record read or being built
         file  : File,                     \* the file and chunk that is next
         index : Nat,
         bufs  : [File -> Seq(Byte)],      \* the bytes in memory
         todo  : SUBSET ChunkKey]          \* what the sweep has yet to delete

NoBytes == [f \in File |-> <<>>]

Idle == [pc |-> "idle", want |-> None, size |-> 0, store |-> FALSE,
         rec |-> NoRecord, file |-> 1, index |-> 0, bufs |-> NoBytes, todo |-> {}]

Become(l, ld) == load' = [load EXCEPT ![l] = ld]

(* The cached copy is not usable: the load goes on as a plain download.    *)
Miss(ld) == [ld EXCEPT !.pc = "fetch", !.rec = NoRecord, !.file = 1, !.index = 0,
                       !.bufs = NoBytes]

(* The load resolves with the bytes it holds.                              *)
Done(ld) == [Idle EXCEPT !.pc = "done", !.want = ld.want, !.bufs = ld.bufs]

(* Mutant: the loop over the files misses its end.                         *)
NextFile_Endless(ld, phase) == [ld EXCEPT !.file = @ + 1, !.index = 0]

(* On to the next file, or after the last one to the next phase.           *)
NextFile(ld, phase) ==
  IF ld.file = LastFile
    THEN [ld EXCEPT !.pc = phase, !.file = 1, !.index = 0]
    ELSE [ld EXCEPT !.file = @ + 1, !.index = 0]

Fault == faults < MaxFaults /\ faults' = faults + 1

Init ==
  /\ deployed \in Version
  /\ chunks = [k \in {} |-> <<>>]
  /\ current = NoRecord
  /\ storage \in Storage
  /\ load = [l \in Loader |-> Idle]
  /\ evicted = {}
  /\ faults = 0

-----------------------------------------------------------------------------
(* Steps of a load, in the order loadWeightsQ8FromUrl takes them *)

Visit(l) ==
  /\ load[l].pc = "idle"
  /\ \E c \in ChunkSize : Become(l, [Idle EXCEPT !.pc = "manifest", !.size = c])
  /\ UNCHANGED <<storage, deployed, chunks, current, evicted, faults>>

FetchManifest(l) ==
  /\ load[l].pc = "manifest"
  /\ Become(l, [load[l] EXCEPT !.pc = "open", !.want = deployed])
  /\ UNCHANGED <<storage, deployed, chunks, current, evicted, faults>>

OpenStore(l) ==
  /\ load[l].pc = "open"
  /\ Become(l, [load[l] EXCEPT !.pc = "current", !.store = TRUE])
  /\ UNCHANGED <<storage, deployed, chunks, current, evicted, faults>>

(* No IndexedDB, the cache is disabled, or opening it failed.              *)
NoStore(l) ==
  /\ load[l].pc = "open"
  /\ Fault
  /\ Become(l, [load[l] EXCEPT !.pc = "fetch"])
  /\ UNCHANGED <<storage, deployed, chunks, current, evicted>>

ReadCurrent(l) ==
  /\ load[l].pc = "current"
  /\ Become(l, IF current.hash = load[l].want
                 THEN [load[l] EXCEPT !.pc = "read", !.rec = current]
                 ELSE Miss(load[l]))
  /\ UNCHANGED <<storage, deployed, chunks, current, evicted, faults>>

NextKey(l) == KeyOf(load[l].want, load[l].file, load[l].index)

InfoOf(l) == load[l].rec.files[load[l].file]

(* The bytes of the file l reads, with the chunk it reads next.            *)
Joined(l) == load[l].bufs[load[l].file] \o chunks[NextKey(l)]

(* Mutant: one chunk too many is read.                                     *)
IsLastChunk_Late(l) == load[l].index = InfoOf(l).count

IsLastChunk(l) == load[l].index + 1 = InfoOf(l).count

(* readCachedFile accepts the chunk.                                       *)
Readable(l) ==
  /\ NextKey(l) \in Present
  /\ Len(Joined(l)) <= InfoOf(l).total
  /\ IsLastChunk(l) => Len(Joined(l)) = InfoOf(l).total

(* Mutant: a hit does not sweep.                                           *)
ReadChunk_NoSweep(l) ==
  /\ load[l].pc = "read"
  /\ Readable(l)
  /\ LET ld == [load[l] EXCEPT !.bufs[load[l].file] = Joined(l)]
         nf == NextFile(ld, "list")
     IN  Become(l, IF ~IsLastChunk(l) THEN [ld EXCEPT !.index = @ + 1]
                   ELSE IF nf.pc = "list" THEN Done(nf) ELSE nf)
  /\ UNCHANGED <<storage, deployed, chunks, current, evicted, faults>>

ReadChunk(l) ==
  /\ load[l].pc = "read"
  /\ Readable(l)
  /\ LET ld == [load[l] EXCEPT !.bufs[load[l].file] = Joined(l)]
     IN  Become(l, IF IsLastChunk(l) THEN NextFile(ld, "list")
                                     ELSE [ld EXCEPT !.index = @ + 1])
  /\ UNCHANGED <<storage, deployed, chunks, current, evicted, faults>>

(* Mutant: a broken entry is never written again.                          *)
ReadMiss_NoRewrite(l) ==
  /\ load[l].pc = "read"
  /\ ~Readable(l)
  /\ Become(l, [Miss(load[l]) EXCEPT !.store = FALSE])
  /\ UNCHANGED <<storage, deployed, chunks, current, evicted, faults>>

ReadMiss(l) ==
  /\ load[l].pc = "read"
  /\ ~Readable(l)
  /\ Become(l, Miss(load[l]))
  /\ UNCHANGED <<storage, deployed, chunks, current, evicted, faults>>

FetchFile(l) ==
  /\ load[l].pc = "fetch"
  /\ LET ld   == [load[l] EXCEPT !.bufs[load[l].file] = Content(deployed, load[l].file)]
         next == NextFile(ld, "quota")
     IN  Become(l, IF next.pc = "quota" /\ ~next.store THEN Done(next) ELSE next)
  /\ UNCHANGED <<storage, deployed, chunks, current, evicted, faults>>

DecideToCache(l) ==
  /\ load[l].pc = "quota" /\ UseCache(load[l].want)
  /\ Become(l, [load[l] EXCEPT !.pc = "put", !.rec.hash = load[l].want])
  /\ UNCHANGED <<storage, deployed, chunks, current, evicted, faults>>

(* A load that may not write does not sweep either: what takes up the room *)
(* stays, and so may the refusal.                                          *)
DecideNotToCache(l) ==
  /\ load[l].pc = "quota" /\ ~UseCache(load[l].want)
  /\ Become(l, Done(load[l]))
  /\ UNCHANGED <<storage, deployed, chunks, current, evicted, faults>>

NextSlice(l) == Slice(load[l].bufs[load[l].file], load[l].size, load[l].index * load[l].size)

(* The store with the chunk l writes next.                                 *)
AfterPut(l) ==
  [k \in Present \cup {NextKey(l)} |-> IF k = NextKey(l) THEN NextSlice(l) ELSE chunks[k]]

HasRoom(l) ==
  MapThenSumSet(LAMBDA k : Len(AfterPut(l)[k]), DOMAIN AfterPut(l)) <= storage.room

PutChunk(l) ==
  /\ load[l].pc = "put" /\ HasRoom(l)
  /\ LET ld     == load[l]
         buf    == ld.bufs[ld.file]
         info   == [total |-> Len(buf), count |-> ld.index + 1]
     IN  /\ chunks' = AfterPut(l)
         /\ Become(l, IF IsLastSlice(buf, ld.size, ld.index * ld.size)
                        THEN NextFile([ld EXCEPT !.rec.files[ld.file] = info], "record")
                        ELSE [ld EXCEPT !.index = @ + 1])
  /\ evicted' = evicted \ {NextKey(l)}
  /\ UNCHANGED <<storage, deployed, current, faults>>

(* The quota is exceeded: the put rejects, and what the load has written   *)
(* so far stays, under no record.                                          *)
PutExceeds(l) ==
  /\ load[l].pc = "put" /\ ~HasRoom(l)
  /\ Become(l, Done(load[l]))
  /\ UNCHANGED <<storage, deployed, chunks, current, evicted, faults>>

PutRecord(l) ==
  /\ load[l].pc = "record"
  /\ current' = load[l].rec
  /\ Become(l, [load[l] EXCEPT !.pc = "list"])
  /\ UNCHANGED <<storage, deployed, chunks, evicted, faults>>

(* sweepOrphanedChunks, after a hit and after a write alike: the keys are  *)
(* listed once, then deleted one transaction at a time.                    *)
List(l) ==
  /\ load[l].pc = "list"
  /\ LET orphans == Present \ RecordKeys(load[l].rec)
     IN  Become(l, IF orphans = {} THEN Done(load[l])
                   ELSE [load[l] EXCEPT !.pc = "sweep", !.todo = orphans])
  /\ UNCHANGED <<storage, deployed, chunks, current, evicted, faults>>

DeleteOrphan(l) ==
  /\ load[l].pc = "sweep"
  /\ \E k \in load[l].todo :
       /\ chunks' = [j \in Present \ {k} |-> chunks[j]]
       /\ Become(l, IF load[l].todo = {k} THEN Done(load[l])
                     ELSE [load[l] EXCEPT !.todo = @ \ {k}])
  /\ UNCHANGED <<storage, deployed, current, evicted, faults>>

Leave(l) ==
  /\ load[l].pc \in {"done", "failed"}
  /\ Become(l, Idle)
  /\ UNCHANGED <<storage, deployed, chunks, current, evicted, faults>>

-----------------------------------------------------------------------------
(* What goes wrong around it *)

DownloadFails(l) ==
  /\ NetworkFails
  /\ load[l].pc \in {"manifest", "fetch"}
  /\ Fault
  /\ Become(l, [Idle EXCEPT !.pc = "failed"])
  /\ UNCHANGED <<storage, deployed, chunks, current, evicted>>

(* Mutant: a write that rejects is ignored and the loop goes on.           *)
StoreRejects_Ignored(l) ==
  /\ load[l].pc \in {"current", "read", "put", "record", "list", "sweep"}
  /\ Fault
  /\ Become(l, CASE load[l].pc \in {"current", "read"} -> Miss(load[l])
                 [] load[l].pc = "put" -> [load[l] EXCEPT !.index = @ + 1]
                 [] OTHER -> Done(load[l]))
  /\ UNCHANGED <<storage, deployed, chunks, current, evicted>>

(* Mutant: a read that rejects fails the load.                             *)
StoreRejects_Fails(l) ==
  /\ load[l].pc \in {"current", "read", "put", "record", "list", "sweep"}
  /\ Fault
  /\ Become(l, IF load[l].pc \in {"current", "read"} THEN [Idle EXCEPT !.pc = "failed"]
                                                      ELSE Done(load[l]))
  /\ UNCHANGED <<storage, deployed, chunks, current, evicted>>

(* A store operation rejects and has no effect.  Before a hit the load     *)
(* falls back to the network; afterwards the bytes are in memory.          *)
StoreRejects(l) ==
  /\ load[l].pc \in {"current", "read", "put", "record", "list", "sweep"}
  /\ Fault
  /\ Become(l, IF load[l].pc \in {"current", "read"} THEN Miss(load[l])
                                                      ELSE Done(load[l]))
  /\ UNCHANGED <<storage, deployed, chunks, current, evicted>>

(* The tab is closed or reloaded.                                          *)
Crash(l) ==
  /\ load[l].pc \notin {"idle", "done", "failed"}
  /\ Fault
  /\ Become(l, Idle)
  /\ UNCHANGED <<storage, deployed, chunks, current, evicted>>

(* The browser evicts one chunk.                                           *)
EvictChunk ==
  /\ \E k \in Present : /\ chunks' = [j \in Present \ {k} |-> chunks[j]]
                        /\ evicted' = evicted \cup {k}
  /\ Fault
  /\ UNCHANGED <<storage, deployed, current, load>>

(* The site's data is cleared.                                             *)
ClearStore ==
  /\ Present # {} \/ current # NoRecord
  /\ chunks' = [k \in {} |-> <<>>]
  /\ current' = NoRecord
  /\ evicted' = evicted \cup Present
  /\ Fault
  /\ UNCHANGED <<storage, deployed, load>>

(* Another checkpoint is published under the same base URL.                *)
Deploy(v) ==
  /\ v # deployed
  /\ DeployDuringLoad
     \/ \A l \in Loader : load[l].pc \notin {"open", "current", "read", "fetch"}
  /\ deployed' = v
  /\ Fault
  /\ UNCHANGED <<storage, chunks, current, load, evicted>>

-----------------------------------------------------------------------------
Proceed(l) ==
  \/ Visit(l) \/ FetchManifest(l) \/ OpenStore(l)
  \/ ReadCurrent(l) \/ ReadChunk(l) \/ ReadMiss(l) \/ FetchFile(l)
  \/ DecideToCache(l) \/ DecideNotToCache(l) \/ PutChunk(l) \/ PutExceeds(l) \/ PutRecord(l)
  \/ List(l) \/ DeleteOrphan(l) \/ Leave(l)

Disturb(l) ==
  NoStore(l) \/ DownloadFails(l) \/ StoreRejects(l) \/ Crash(l)

Next ==
  \/ \E l \in Loader : Proceed(l) \/ Disturb(l)
  \/ EvictChunk
  \/ ClearStore
  \/ \E v \in Version : Deploy(v)

(* A page that can go on goes on, and its user comes back to it.           *)
Fairness == \A l \in Loader : WF_vars(Proceed(l))

Safety == Init /\ [][Next]_vars

Spec == Safety /\ Fairness

-----------------------------------------------------------------------------
(* Properties *)

(* The store and the loads have the shapes the code gives them.            *)
TypeOK ==
  /\ deployed \in Version
  /\ Present \subseteq ChunkKey
  /\ \A k \in Present : chunks[k] \in Seq(Byte)
  /\ current \in Record
  /\ storage \in Storage
  /\ load \in [Loader -> Load]
  /\ evicted \subseteq ChunkKey
  /\ faults \in 0 .. MaxFaults

(* A load that resolves holds, for each file, exactly the bytes published  *)
(* with the manifest it fetched, whether they came from the network or     *)
(* from chunks written by several earlier loads: never a mixture, never a  *)
(* truncated or shifted file (readCachedFile, loadWeightsQ8FromUrl).       *)
LoadExact ==
  \A l \in Loader :
    load[l].pc = "done" => \A f \in File : load[l].bufs[f] = Content(load[l].want, f)

(* The current-version record names only chunks that were written and that *)
(* nothing but the browser removed: a crash, a failed write or a sweep at  *)
(* any point leaves the old version readable until the new record lands    *)
(* and the new one afterwards (browser-weights.ts, the comment before      *)
(* writeCurrentVersion).                                                   *)
RecordBacked ==
  current # NoRecord => RecordKeys(current) \subseteq Present \cup evicted

(* A load whose manifest matches the record downloads nothing, unless a    *)
(* store operation of this load rejects or the chunk it needs was evicted. *)
(* (the point of the cache: no bytes on a reload).                         *)
ReloadIsFree ==
  [][\A l \in Loader :
       load[l].pc = "read" /\ load'[l].pc = "fetch" =>
         NextKey(l) \in evicted \/ faults' # faults]_vars

(* Every chunk of the deployed version, under its record, and nothing else. *)
Complete == current.hash = deployed /\ Present = RecordKeys(current)

(* A load of the deployed version finds all of it.                         *)
Usable == current.hash = deployed /\ RecordKeys(current) \subseteq Present

(* No usable copy, and no room for one beside what is stored already.       *)
Cramped == ~Usable /\ ~Roomy(deployed)

(* Once the faults are over the cache converges: it holds the deployed     *)
(* version completely, the orphans of every interrupted write are gone,    *)
(* and no tab undoes it.  The one exception is a store without a usable    *)
(* copy and without room for one beside what it stores already: the code   *)
(* then neither writes nor sweeps, for ever (decideCacheStrategy,          *)
(* writeCachedFile, sweepOrphanedChunks).                                  *)
Converges == <>[]Complete \/ <>[]Cramped

(* What the loads promise: WeightSource, in which there is no cache.       *)
PhaseOf(ld) ==
  CASE ld.pc = "idle"     -> "idle"
    [] ld.pc = "manifest" -> "asking"
    [] ld.pc = "done"     -> "done"
    [] ld.pc = "failed"   -> "failed"
    [] OTHER              -> "loading"

SourcePhase == [l \in Loader |-> PhaseOf(load[l])]
SourceAsked == [l \in Loader |-> load[l].want]
SourceGot   == [l \in Loader |-> IF load[l].pc = "done" THEN load[l].bufs ELSE NoBytes]

Source == INSTANCE WeightSource WITH
  origin <- deployed, phase <- SourcePhase, asked <- SourceAsked, got <- SourceGot

(* To its caller a cached load is a plain download: it resolves with the   *)
(* published files of its manifest, it fails only when the network does -- *)
(* no rejected, evicted, interrupted or half-swept store operation can     *)
(* fail it -- and it always ends (loadWeightsQ8FromUrl as a whole).        *)
ImplementsSource == Source!Spec

=============================================================================
