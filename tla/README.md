# web-xpu-ops in TLA+

A verification development for [web-xpu-ops](../src/README.md): a TypeScript/WGSL library of WebGPU
kernels, an LLM inference engine built from them, and pages that run image, video and audio models in
a browser. The kernels are numerical and are tested against reference implementations. What tests
hardly reach is everything *around* them: a weight cache shared by tabs that crash and are evicted, an
engine whose GPU work outlives the call that submitted it, a folder of weights that is filled, edited
and remembered over many visits, runtimes that hand out buffers before they know whether they are
valid, and forwards that record hundreds of dispatches over a pool of buffers before any of them runs.
Those are the parts modelled here.

Paths below are relative to `src/`.

## 1. Inventory

### Components and their state

| component | code | state it keeps | operations |
| --- | --- | --- | --- |
| **Weight cache** of the LLM loader | `llm/browser-weights.ts`, `weight-cache.ts`, `chunk-store.ts`, `idb-chunk-store.ts`, `storage-quota.ts` | IndexedDB: chunks under (namespace, manifest hash, file, index), one current-version record; per load: phase, buffers | load, chunked read, chunked write, publish record, sweep orphans, quota decision |
| **Resident LLM engine** | `llm/engine-q8-resident.ts` | `tokensSoFar`, `generationEpoch`, KV cache on the GPU, one staging buffer per `lm_head` chunk | `forward` (prefill, decode), `reset`, `debugPoisonKVCache` |
| **GPU runtimes** | resident: `harness/resident.ts`; its port `examples/llm-demo/src/browser-resident-runtime.ts`; another one for the image demos, `examples/web-common/src/browser-resident.ts`; one dispatch at a time: `harness/wgsl.ts` and its port `examples/web-common/src/browser-runner.ts` | modules and pipelines, unanswered error scopes, the first allocation failure, device loss, the count of live bytes | `pipelineFor`, `createStorageBuffer`, `bindGroup`, `batch`, `runnerFromResident`, `dispatch` |
| **Forwards** of the image, video and audio models | `examples/anima/src/dit-resident.ts`, `vae-gpu.ts`, `examples/zimage/src/dit-resident.ts`, `dit-gpu.ts`, `text-encoder-gpu.ts`, `examples/zimage-vae/src/decoder-gpu.ts`, `examples/h3-dit/src/model-gpu.ts`, `examples/h3-video/src/decoder-gpu.ts`, `pool.ts`, `examples/h3-encoder/src/encoder-gpu.ts`, `examples/h3-audio/src/decoder-gpu.ts`, `examples/h3-ref2v/src/conditioner-gpu.ts` | the recorded work of a batch; a buffer pool per call or per object (free, lent, quarantined); weights on the device | `take`, `recycle`, `flush`, `release`, `evict`, the forward itself |
| **Weight readers** of the image demos | `examples/anima-web/src/fetch-weights.ts`, `examples/zimage-web/src/fetch-weights.ts` and the hooks in the pages' `main.ts` | two bounded caches, of packed and of dense tensors; whether a layer needs preloading | `preload`, `preloadAll`, `packedQ8`, `get` |
| **Weights folder** of the image and video demos | `examples/web-common/src/gate.ts`, `provision.ts`, `bound-folder.ts`, `byte-source.ts` | files and `provisioned.json` in a picked directory, one directory handle in IndexedDB, permissions, the page's dialog | gate on load, bind, fill, verify, change folder |
| Reference engines | `llm/engine.ts`, `engine-q8.ts`, `kv-cache.ts` | position and KV cache in memory | `forward` |
| Sampler, constrained decoding | `llm/sampler.ts`, `llm/constraints/` | tokens so far, format state | `sampleNext`, `allowed` |
| Tokenizers | `llm/tokenizer.ts`, `tokenizer-bpe.ts` | vocabulary | `encode`, `decode` |
| Kernel harness | `harness/resolve.ts`, `binding-types.ts`, `api.ts`, `reclaim.ts` | -- | binding resolution, public API |
| Operators, reference forwards, demos, scripts | `examples/*`, `ops/*`, `models/`, `scripts/` | -- | arithmetic; user interface |

### How they interact

* A page calls `loadWeightsQ8FromUrl`, builds the engine over a resident runtime, and drives
  `forward` in a sampling loop, one awaited call at a time; `reset()` starts a new generation.
* Every tab of the origin loads from, writes to and sweeps the *same* chunk store; there is no lock.
* The engine writes the KV cache and reads logits through `batch()`: one submission, then
  `mapAsync` of each staging buffer in turn. The GPU work is done even if the caller never sees it.
* A forward of an image, video or audio model asks its weight reader for a layer (`preload`), uploads
  what is not on the device, takes buffers from its pool, records dispatches and submits them in
  batches through a runtime; between two batches it gives back every buffer it does not name as kept.
* Every dispatch, of an engine, a forward or a test, goes through one of the five runtimes. The device
  answers their error scopes, in order, long after the calls they are about have returned.
* The image pages share one remembered directory handle per origin, and may share the directory; each
  has its own plan (list of files) and its own weights base.

### What is hard

| behaviour | where | property |
| --- | --- | --- |
| two tabs write, sweep and read one store between each other's awaits | `weight-cache.ts` | `LoadExact`, `Converges` |
| a crash, rejection or eviction between any two store operations | `browser-weights.ts:298-337` | `RecordBacked`, `ReloadIsFree`, `ImplementsSource` |
| a call that fails after its submission, and is repeated | `engine-q8-resident.ts` | `LogitsExact`, `CacheHoldsGeneration`, `ImplementsGeneration` |
| `reset()` while a call is in flight; two calls on one staging buffer | `engine-q8-resident.ts`, `batch()` | `LogitsExact`, `CacheHoldsGeneration`, `Serves` |
| a download that stops anywhere; a folder edited between visits; another page's receipt or short write | `provision.ts` | `BoundWhole`, `BoundUndisturbed` |
| a failed change of folder; a remembered folder that is gone; an IndexedDB that fails without a word | `gate.ts`, `bound-folder.ts` | `HandleEarned`, `Binds` |
| leftovers of interrupted writes that count against the quota of the next one | `decideCacheStrategy` | `Converges` |
| a buffer reused or overwritten before the batch that reads it has run; a `keep` list that forgets one | the forwards' `flush`, `recycle`, `take` | `ReadsLive`, `OneTensorPerBatch`, `ReadsWhatWasMeant` |
| an operation split into chunks whose last one is shorter | `rowChunks`, `chunkedFlat`, head batches | `ReadsWhole` |
| a forward that fails half-way over a pool and weights that outlive it | `release`, `needWeights` | `PoolPartition`, `Settled`, `FailsOnlyWhenStruck` |
| a bounded weight source that drops what a layer still needs | `fetch-weights.ts` | `FailsOnlyWhenStruck`, `FailsOnlyAfterFault`, `PreloadHolds` |
| a buffer that is refused and known to be so only later, by one of several callers | `drainAllocationScopes`, `bindGroup` | `RefusalNamed`, `ResolvedIsComputed`, `Settles` |
| several calls that compile the same source between each other's awaits | `pipelineFor` | `CacheIsValid`, `CacheKeeps`, `Diagnosed` |

`PROJECT.json` lists these hazards line by line, with those no property covers yet and why.

## 2. Modules

```
WeightSource                       the abstract loader: no cache
   ^ refined by
WeightCache  <-- MCWeightCache     (Cache*.cfg)
   ^
WeightCacheProofs                  theorems about WeightCache

Generation                         the abstract engine: no queue, no staging, no pending call
   ^ refined by
ResidentEngine <-- MCResidentEngine  (Engine*.cfg)   engine + batch() + queue, composed in one module
   ^
ResidentEngineProofs               theorems about ResidentEngine

FolderGate     <-- MCFolderGate      (Gate*.cfg)     gate + provision + remembered handle
   ^
FolderGateProofs                   theorems about FolderGate

ResidentRuntime <-- MCResidentRuntime (ResidentRuntime.cfg)  five runtimes, one device
   ^
ResidentRuntimeProofs                theorems about ResidentRuntime
   ^
RuntimeDiagnosisProofs               theorems about what a call that fails is told

Recording                            the steps a forward is written in
   ^
   |-- AnimaForward  ZimageForward  ZimageOneShot  ZimageVaeDecode  WanVaeDecode  Qwen3Encode
   |   H3DitForward  H3VideoDecode  H3VideoEncode  H3AudioDecode  H3Conditioner
   |      ^  used by
   |   Forwards                      their shapes and policies
   |-- Discipline                    the rules a recorded forward follows
          ^
       ResidentForward               pool, recorded work, weights, faults
          ^
          |-- MCForwards             (Forwards.cfg, ForwardsPreload.cfg)  with Forwards
          |-- ForwardProofs          theorems about who owns which buffer
                 ^
                 |-- ReplayProofs    theorems about what the recorded work reads
                 |-- ReuseProofs     theorems about what a call finds of what earlier ones left
```

In all modules one step is what the code does between two awaits, and anything may happen in between.
Faults (crashes, evictions, rejections, refusals) are actions that spend a budget `MaxFaults`; the
counter is a bound of the model, not state of the code. Definitions named `X_Something` under a
"Mutant" comment are plausible bugs of `X`; no specification uses them.

### WeightCache, WeightSource

One `Loader` is a page that runs one load after another. `load[l].pc` is how far
`loadWeightsQ8FromUrl` is: `manifest`, `open` (the store), `current` (the record is read and its hash
compared), `read` (one `get` per step), `fetch` (one file per step), `quota`, `put` (one chunk per
step), `record`, `list` and `sweep` (one `delete` per step), `done` or `failed`. `chunks` and `current`
are the two object stores. A byte is `<<version, file, position>>`, so that a byte out of place or of
another checkpoint is visible; a file's length is in `FileLen`, which stands for
`expectedFileByteSizes`. A version *is* its manifest's hash, as it is for the code. Parsing the
weights and progress reports are left out.

The store has a limited room. `storage` is what the browser grants, and whether it tells (`estimate()`), and does
not change in a behaviour; what is used of it is what the chunks in the store occupy (`Stored`), those of older
versions and of interrupted writes included, as in the code. So whether a load may write follows from the
state: `UseCache` compares the room left with the manifest's bytes and a headroom of a tenth
(`DecideToCache`, `DecideNotToCache`), a page that is told nothing tries all the same, and a put without room
rejects (`PutExceeds`). Hits and finished writes sweep; a load that is refused does not. With too little room for a
second copy nothing is therefore ever swept again, which is `Cramped`, the exception in `Converges`.

`WeightSource` says what the caller is promised: ask for the manifest, get the files published with it;
only the network can make that fail. `ImplementsSource` is the refinement, with liveness.

### ResidentEngine, Generation

A `Call` is a promise that `forward()` returned. What a forward pass computes is its *context*, the
tokens it attended to: the KV cache at position `p` holds the tokens up to `p`, logits are the context
they were computed from, and attending to entries that do not belong together yields `Garbage`.
`StartPrefill` / `SubmitPrefill` are `runPrefillResident` before and after its bind groups,
`StartDecode` is `runDecodeStep` up to its first await, `ReadBack` is one `mapAsync`-copy-`unmap` turn
and, after the last chunk, `assertSameEpoch` and the new position. `mapping` holds WebGPU's rule: a
submission that uses a buffer whose map is pending is invalid and has no effect, and a second
`mapAsync` of it rejects. `stale` stands for the comparison of epochs: it becomes true when `reset()`
runs during the call. The bind groups of one prefill are one step; their validations are answered in
the order they were asked, so prefills are submitted in the order they began.

`Browser` selects the runtime: `harness/resident.ts` keeps the first allocation failure for ever
(`allocFailed`), the demo's `browser-resident-runtime.ts` does not. Their `batch()` is the same.
(`examples/web-common`'s runtime has an error scope around the submission; the engine is never run on
it.) `said` is a history variable: the tokens of the calls that were answered since the last reset.

`Generation` is what the reference engine does (`llm/engine.ts` over `llm/kv-cache.ts`): new tokens go at
the position, attend to everything cached before them and are answered, in one step. The resident engine
is meant to keep that contract although its work is queued, read back chunk by chunk, refused or lost.
`ImplementsGeneration` says so: `position` is `tokensSoFar`, `context` is `CachedContext`, the context of
the last entry below it, and `answers` the logits of the call that is `done` and not yet followed by
another. A submission that writes above the position, a binding that waits and a readback that fails
are stutters; only the last `ReadBack` of a call is a `Forward`.

Assumptions, each what the repository's callers do: a call is awaited before the next one unless
`reset()` ended its generation (`MayBegin`); `debugPoisonKVCache` is called between calls.

### FolderGate

`disk[d][f]` is a file: which repository it came from and how long it is; `receipt[d]` is
`provisioned.json`; `remembered` is the handle in IndexedDB; `granted` the origin's permissions.
`page[p].pc` follows `requireBoundFolder` on load (`load`, `query`, `receipt`, `check`), its dialog
(`gate`), `bindFolder` (`pick`, `request`, `receipt`, `check`, `verify`, `remember`), `provision`
(`sizes`, `examine`, `write`, `measure`, `seal`) and the handler of a failure (`forget`); `flow` says
who called. `base` is the repository the page was opened for ("?weights="), one of `Bases[p]`. Every failure
of IndexedDB is swallowed by the code (`transact` resolves with `null`), so the handle may not be found, stored or
deleted and the page goes on (`HandleUnread`, `HandleUnwritten`, `HandleKept`). The first two may happen
without bound; a deletion fails at most `MaxFaults` times, because a folder that cannot be filled would be
offered for ever. `disturbed` is a history variable (`Watch`): the pages one of whose files another page has
changed while they were at work on the folder. `readReceipt` is one step for the receipt and one per file compared. The download of a
file is one step, because its bytes become visible when the writable is closed: it succeeds
(`Download`), is aborted (`DownloadFails`) or is cut without a word (`ShortWrite`).

Assumptions: a length tells a whole file of one repository from anything else (`GateAssumption`: the
header of `provision.ts` names the wrong bytes of the right length this leaves out); nobody edits a
folder while a page works on it (`Untouched`); a visitor who is refused again and again reloads the
page (`SF(Reload)`), without which the finding below strands the page.

### ResidentRuntime

A call asks for a kernel (source and entry point) to be run. `call[c].pc` is where it awaits:
`compiling` (`getCompilationInfo`), `building` (the scope around the pipeline), `draining`
(`drainAllocationScopes`), `binding` (the scopes around its bind groups), `submitting` (the web
runtime's scope around a batch), `mapping` (`mapAsync`). `scopes` holds the error scopes popped and not
answered; each was decided when it was popped and is answered in that order, which is WebGPU's device
timeline. `Quiet` says that continuations of answered promises run before the device is heard again;
the calls may otherwise interleave in any way. `held` and `refused` are the buffers created and the invalid
ones among them. `runtime` picks one of the five implementations; what they do
differently is a condition in the action, named there: only `node` waits for allocations and keeps the
first failure, only `node` and `web` put scopes around buffers, only `web` looks at the answer of a
submission, `web` keeps no modules, `demo` and `page` do not compare types, only `node` and `web` notice a
grid that is too large, and the one-shot runners bind in the step that finds the module.
`caller = "round"` asks for two bind groups at once, as the engine's prefill does for nine.
The two scopes of one `createStorageBuffer` (validation and out-of-memory) are one scope here.

### Recording, the programs, ResidentForward

The control of a recorded forward depends on shapes alone, so a forward *is* a finite sequence of steps.
Each `*Forward`, `*Decode`, `*Encode` module builds that sequence with one operator per function of the
source, named for it; `Recording` has the steps: take a buffer, write it from the host, record a
dispatch, rename, recycle, announce a layer of weights, flush, read back. A tensor is a set of elements
and a dispatch writes a part of it, so a chunk that is missing shows; what the elements *are* is left out.
A variable of the source is a name, `tensor[x]` what it stands for.

`ResidentForward` runs such a program: `pool` is `BufferPool` (or the models' own copies of it),
`device` what the buffers contain, `ops` the work recorded and not submitted. A buffer carries
which tensor of which call it holds and in which version; `Before` replays the batch in order, so a
dispatch can be compared with what it was recorded to read. `Policy` says what differs between the
models: a pool per call or per object, how sizes are rounded, the budget of the free half, which of the two
weight readers is behind it with which limits, which tensors it keeps packed and which the page permutes, and who
keeps the weights on the device. `RecordFails`, `PreloadFails` and
`SubmitFails` reject a call where the code awaits the device or the reader. `Forwards` gives
the shapes. One-shot forwards (`ZimageOneShot`, the two VAEs, `Qwen3Encode`) submit after every dispatch
(`Await`) and are run by the same module, with no pool to share.

`Discipline` states the rules the eleven forwards are written by: a dispatch reads only what is written
whole and still held, writes a buffer of the pool and not one kept beside it, the host writes only a buffer no
dispatch has rewritten, and the result is read in the last step, and only there. The rules are about a program
alone: `Sketches` follows it step by step as if every request got a buffer of its own and every dispatch ran at
once. `sketch` in `ResidentForward` is a history variable with the same content for the call that runs, and
`Follows` says that the next step is allowed. `Disciplined` is what a reader of the code would check;
that pooling, batching, late uploads and failures cannot break a disciplined forward is what is proved.

A weight reader is two bounded caches (`source`), of packed tensors and of dense ones, each with its own limit;
`Kind` is what `convert_dit.py` makes of a tensor. A packed tensor is read in place (`packedQ8`) and that is no use of
it in either reader. They differ as the code does. In `zimage-web`'s a hit of a preload, and a dense read, move the tensor
to the end (`Touched`); its `preload` throws when a tensor of the layer is missing afterwards; and `preloadAll`
has been through all tensors before the first call (`Opened`). `anima-web`'s counts no hit at all, although its
comment calls it LRU, and is modelled as the FIFO it is; the page asks it for the projections and norms it permutes for
rope as dense tensors, which enter the other cache, and keeps the permuted ones itself (`permuted`).

`WellPreloaded` is what the first one needs of a model: each layer announced once, before any of it is read; all
calls reading their layers in one order; and room, in each cache, for what of its kind is preloaded or read beside
a layer (`Beside`), by the same call or by a later one after a failure in between. `MCForwards` assumes it of every
setting, so TLC evaluates it on the programs, as it does `Repeats`, which is what `SecondCallIsFree` needs, and
`TurnsOver`, which is what `FailuresNeedAFault` needs of the second reader: each cache has room for a layer together
with all that enters it until the layer is read (`Meanwhile`, `Entering`), and when the layer is announced again, in the same
call's program or the next one's, so much of its kind was announced in between (`Since`) that no tensor of it is left.

## 3. Runs

| run | instance | properties | distinct states |
| --- | --- | --- | --- |
| `CacheOneTab` | 1 page, 2 versions, 3 storages, chunk size 1, `MaxFaults` 4 | `TypeOK` `RecordBacked` `ReloadIsFree` `Converges` `ImplementsSource` | 205,000 |
| `CacheTwoTabs` | 2 pages, 2 versions, 3 storages, `MaxFaults` 1, network fails | `LoadExact` `Converges` | 294,000 |
| `CacheTwoTabsRecord` | 2 pages, 2 versions | `RecordBacked` | **violated** |
| `EngineNode` | Node runtime, 2 calls, 4 positions, prompts up to 3, 2 `lm_head` chunks, profiled or not, `MaxFaults` 3 | `TypeOK` `LogitsExact` `CacheHoldsGeneration` `ImplementsGeneration` | 337,000 |
| `EngineBrowser` | demo runtime, 3 positions, prompts up to 2, 1 chunk, unprofiled, `reset()` during calls, `MaxFaults` 3 | `LogitsExact` `CacheHoldsGeneration` `Serves` | 85,000 |
| `EngineNodeReset` | Node runtime, 2 chunks, `reset()` during calls | `CacheHoldsGeneration` | **violated** |
| `GateOnePage` | 1 page, 2 folders, 2 repositories, 2 files, `MaxFaults` 3 | `TypeOK` `BoundWhole` `HandleEarned` `Binds` | 1,728,000 |
| `GateTwoPages` | 2 pages with plans `<<x, y>>`, `<<y, z>>`, the first opened for either of 2 repositories, 1 folder, `MaxFaults` 1 | `BoundUndisturbed` `Binds` | 551,000 |
| `GateRefused` | 1 page, 2 folders | `ChooseOpensPicker` | **violated** |
| `ResidentRuntime` | 5 runtimes, 2 calls, 8 dispatches, `MaxRefusals` 2, `MaxLosses` 1 | `TypeOK` `ResolvedIsComputed` `CacheIsValid` `Diagnosed` `RefusalNamed` `LeaksOnlyUnbound` `FailsForCause` `CacheKeeps` `Settles` | 170,000 |
| `Forwards` | 11 forwards in 15 settings, 3 calls each, `MaxFaults` 1 | `TypeOK` `ReadsLive` `OneTensorPerBatch` `ReadsWhatWasMeant` `ReadsWhole` `PoolPartition` `Settled` `FailsOnlyWhenStruck` `FailsOnlyAfterFault` `SecondCallAllocatesNothing` | 269,000 |
| `ForwardsPreload` | the Anima forward, 2 calls, `MaxFaults` 1 | `PreloadHolds` | **violated** |

### What they show

* **Cache, one tab.** Whatever is evicted, rejected or interrupted, the record names only what was
  written; a reload that matches it downloads nothing; and to its caller the loader is a plain download.
  When the faults stop, the store ends up holding the deployed version and nothing else, unless it is cramped: it
  has no usable copy, and what it holds already leaves no room to write one. The code neither writes nor sweeps then,
  however often the page is visited.
* **Cache, two tabs.** Every load that resolves is exact although another tab writes and sweeps between
  its reads, and the store still converges, in the same sense.
* **Engine.** A call that fails is repeated without a token lost or counted twice; nothing of an earlier
  generation is read, poisoned or not. `reset()` during an unprofiled call is harmless while `lm_head`
  is one chunk. To whoever drives it, it is the reference engine.
* **Gate.** Alone, a page runs only from a folder that holds all of its files whole and from one repository. With
  others at work on the same folder, filling it from other repositories or writing files short, that holds for a
  page whose files there no other page changed while it was at work (`BoundUndisturbed`): nobody else's receipt
  makes it run. Nothing is promised of the others, because `bindFolder`'s last look asks only whether a file exists. What
  is remembered changes only to a folder found usable, or to nothing by a page that runs from none, and a visitor
  who goes on gets there, as long as two pages do not go on filling one folder from two repositories, each undoing the
  other's work (the exception in `Binds`).

* **Runtimes.** Whatever is refused or lost and however two calls interleave, a call that resolves was
  computed, with the exceptions `Unchecked` names: a dispatch past the device's grid limit resolves with zeros in
  the demo's runtime and both one-shot runners, which neither compare the grid nor look at the
  submission's answer, and wrong types pass in `demo` and `page`. A call that fails has a cause of its own, of its buffers or
  of the device; on Node also the failure of an earlier allocation, which the runtime never forgets. A
  kernel that does not compile is reported as that however often it is asked for. Taking the pending
  scopes away before awaiting them (`drainAllocationScopes`) leaves the other bind groups of a round to
  go ahead, but the call still names the refused allocation, and nobody waits for ever. What a runner
  leaks is exactly what it created before its `try`.
* **Forwards.** In all eleven forwards every dispatch finds in its inputs the tensor and the version it
  was recorded to read, whole, and the host reads back the tensor it asked for; no keep list forgets a buffer;
  each buffer of the pool is in one half of it after any failure (the video decoder's mask, which is not of the pool,
  gets into its free half all the same, see section 5); a second call of the same shape allocates
  nothing. A failed call spoils no later one, weights left half-way on the device included, with one exception
  (finding 4); and before anything has failed no forward is refused a weight, although the sources hold far less
  than a model.

### Findings (the violated runs)

1. `CacheTwoTabsRecord`: a second tab's sweep deletes chunks the first has put and not yet published,
   and the record then names them. `browser-weights.ts:309-317` says the order of writes prevents such
   a record. It heals itself: the next read is a miss.
2. `EngineNodeReset`: with two `lm_head` chunks (a vocabulary above 65,535, as Sarashina's), `reset()`
   between a prefill's two readbacks makes the next prefill's submission invalid, unnoticed: it resolves
   with the old prefill's logits, and its KV is never written. `assertSameEpoch`'s comment calls the
   situation "not a gap". The repository's test of it has one chunk; there the second `mapAsync`
   rejects and the caller gets an error. (The doc of `reset()` tells callers not to do this.)
3. `GateRefused`: after a refusal the button says "Choose a folder" and the comment promises the picker,
   but the handler goes on using the handle captured when the page loaded.
4. `ForwardsPreload`: `anima-web`'s weight reader leaves a hit at its old place, although the comment in
   `fetch-weights.ts:255-257` says that re-inserting it is what makes the cache least-recently-used. A forward
   that fails a few layers in may leave a part of an early layer in the cache; the one that is tried again
   announces that layer, fetches the rest, and drops the part it had. The preload resolves, and the dispatch
   after it throws "was read before it was preloaded". `zimage-web`'s reader had the same bug and says so
   (`fetch-weights.ts:200-215`).

### Bounds

* *Cache.* Two versions are enough for "old" and "new". `MCFileLen` makes one file of two chunks (a read
  or a write can be interrupted inside it), one of one and an empty one. All versions have the same
  lengths, so that the reader's length check cannot tell them apart. With four faults a tab can be evicted, crash in its repair, crash again and have its put
  rejected. `MCStorage` has room for a third copy, room for a second one as long as no orphan lies beside the first,
  and room for one and a half in a browser that gives no estimate. Two tabs have one fault; more take minutes. The theorem `LoadsAreExact` has no such bound.
* *Engine.* Two calls suffice: a third could only be stale as well. Four positions hold the longest
  prompt, a decode step and the refusal at the end of the cache. Two tokens tell generations apart.
* *Gate.* Two files allow a stop between files and a mixture of repositories; two folders a change of
  folder and one that is gone. The two-page run shares file `y`; its one fault is a short write, a stopped
  download, a crash or an edit of the folder, and the theorems have no such bound.
* *Runtimes.* Two calls meet in one source, one entry point or neither; a third would only repeat one of
  them. Two refusals strike one call twice or both once. The theorems have no such bound.
* *Forwards.* The shapes in `Forwards` are the smallest for which every loop runs at least twice and
  every split has a shorter last part: up to 5 rows, up to 4 channels, limits of a few elements instead of
  the device's. A third call meets what a failed first or second one left; the two-shape settings
  (`animaShards`, `zimageBoth`, `h3ditBoth`, `h3videoBoth`, the encoder's and the text encoder's) alternate. Faults
  strike every flush and preload, and of the dispatches those that read a weight for the first time, where the
  code awaits a pipeline and an upload. The readers hold 6 dense and 18 packed tensors (Anima; 16 packed for its shards) and 10 of each
  (Z-Image): just enough for what enters with a layer and beside it, so that they drop layers all the time, as the code's
  48 dense and 192 packed tensors do of 898. A
  forward is a fixed program: its states are positions in it, and the branching is in the faults. The theorems
  about forwards bound neither the shapes, the calls nor the faults.
* `CHECK_DEADLOCK` is on in all runs but `ResidentRuntime`, where calls end and no new ones come: a page can always be visited, left or reloaded.

### Fairness

* Cache: `WF(Proceed(l))` for every page. The browser runs continuations and answers store and network
  operations, and a user comes back (`Visit`). Faults are bounded, not fair.
* Engine: `WF(Advance(c))`, the device answers; `WF(Start)`, callers go on while they can; `WF(Reset)`,
  a generation ends when the cache is full.
* Gate: `WF(Proceed(p))`, a visitor wants pictures and clicks on; `SF(Reload(p))`, see above.

* Runtimes: `WF(Proceed)`: the device answers every scope and every map in the end, if only to say that it
  is gone, and the event loop runs what was answered. Nobody has to call (`Settles` is about calls that
  began), no buffer has to be refused, and the loss of the device is not fair.
* Forwards: none; no liveness is claimed of a straight-line program.

## 4. Proofs

`WeightCacheProofs` proves, for every set of pages and versions, every file length, chunk size and
number of faults:

* `TypeCorrect`: `Safety => []TypeOK`. `TypeOK` is not inductive: `PutChunk` writes the key of the
  version asked for, which must be one. `TypeInv` adds that from the manifest on a page has a version.
* `LoadsAreExact`: `Safety => []LoadExact`, assuming `OneChunkSize` and
  `~DeployDuringLoad` (the code cannot notice a redeployment between the manifest and the files). No caller in
  the repository sets `chunkSizeBytes`; it is not part of the chunk key, so that pages which did set different
  ones would overwrite each other's chunks, and the property would be false.
  The inductive invariant is `ExactInv`: a chunk in the store is the slice of the published file that
  its key names, *whoever* wrote it (`StoreExact`); the current record has the published lengths
  (`RecordExact`); and a load has read a prefix of the file it is at, and the files before it
  completely (`LoadInv`). Presence of chunks is not claimed, so evictions, sweeps and crashes of any
  number of tabs cannot disturb it; a hole is found by the reader. The core are two lemmas about
  slices: a prefix followed by the slice at its end is a longer prefix (`PrefixAndSlice`), and a prefix
  of the full length is the file (`FullPrefix`).
* `CacheImplementsSource`: `Safety => Source!Safety`, under the same assumptions. Every step of the
  cache maps to a step of `WeightSource` or changes nothing the caller sees.

Two more are about one page (`OneLoader`), which `CacheTwoTabsRecord` shows is needed, wherever its loads
crash, reject or are evicted:

* `RecordsAreBacked`: `Safety => []RecordBacked`. `BackedInv` adds what a load knows of its record
  (`RecInv`): the one it builds names only chunks it has written, the one it reads is the store's, and while it
  lists and sweeps the store's record names nothing beyond its own, so that what it deletes is named
  by none.
* `ReloadsAreFree`: `Safety => ReloadIsFree`, under the assumptions of `LoadsAreExact` as well. `FreeInv` adds
  that a record counts enough chunks for each file (`CountExact`) and that a load stays below the count
  (`CountInv`). Then a chunk that is present is accepted (`PresentIsReadable`) and a chunk that is not was
  evicted (`ReadsRecorded`).

`ResidentRuntimeProofs` proves, for any number of calls, any kernels and dispatches, any number of
refused buffers and each of the runtimes: `TypeCorrect` (`TypeOK`), `CacheStaysValid` (`CacheIsValid`),
`ResolvesToTheComputed` (`ResolvedIsComputed`), `FailuresHaveCauses` (`FailsForCause`), `LeaksAreBounded` (`LeaksOnlyUnbound`) and `CacheNeverShrinks` (`CacheKeeps`).

None of them is inductive, because what a call knows at an await is in the scopes that are still to be
answered. `IInv` says it: `CallInv` is what holds of one call at each of its awaits (which buffers
it holds, whether it was run); `ScopesInv` that an unanswered scope belongs to a call that waits for it and
carries the right answer (a pipeline's is bad exactly if the kernel is invalid; a bad bind scope has a
cause); and `Once` that a call has at most one unanswered scope around a pipeline or a submission, so that the answer
cannot be taken for another. The proof has one lemma per action, over lemmas about queues of scopes
(`TailScopes`, `ManyScopes`, `OneScope`), and one that says a step of one call leaves the others alone (`OneCallStep`). That `TypeOK` includes
`groups \in 0 .. 2` is a result as well: no call hears of more bind groups than it asked for.

`RuntimeDiagnosisProofs` continues from `IInv`, under the same generality:

* `FaultsAreDiagnosed`: `Spec => []Diagnosed`. `DInv` adds that a call whose kernel cannot be built gets
  no further than its pipeline or, in the runners that bind in the same step, than a bind scope (`Unbindable`), and
  that such a scope is answered with the flaw (`CaughtAtBind`).
* `RefusalsAreNamed`: `Spec => []RefusalNamed`, which is about the Node runtime. `NInv` adds what the order of the
  scopes gives: a refused buffer is known of or its scope is still to be answered (`Reported`), and the bind
  scope of a call that drains is behind those of the allocations it waits for (`InTime`). So a
  call never hears of its bind group before it has heard of its buffers, although another call of the
  same round may have taken the pending scopes away.

`ForwardProofs` and `ReplayProofs` prove, for any programs, any pool policy, any number of models, calls
and faults, assuming that the program follows the rules (`[]Follows`):

* `PoolKept` (`PoolPartition`), `EveryUseIsLive` (`ReadsLive`), `OneTensor` (`OneTensorPerBatch`). `FInv` relates
  `sketch` to the buffers: two variables share a buffer exactly if they share the step that took it, what a
  variable stands for is lent (`Sketched`), what recorded work touches is lent or quarantined (`Recorded`), and
  the parts of the pool are disjoint (`Owned`). The quarantine is what makes it inductive: a buffer
  that is recycled may still be read by the batch, so `take` must not find it.
* `PoolSettles` (`Settled`): after a call that resolves everything is back and what `evictionPlan` leaves fits the
  budget. It rests on lemmas about sums over finite sets (`SumStep`, `SumRemove`, `SumGrows`).
* `ReplayIsRight` (`ReadsWhatWasMeant`), `ReplayIsWhole` (`ReadsWhole`). `CInv` adds what is in the buffers: the
  device holds nothing of the future (`DeviceDated`), recorded versions grow in each buffer (`Ordered`), every
  input of recorded work will be there when it runs, whole and in the version meant (`Heard`), and so
  will what a variable stands for when all of it has run (`AllCurrent`). The core is a lemma that says what a buffer holds after
  the first `i` pieces of a batch, by induction on `i`.
* `RulesSuffice`: `[]Follows` follows from `Orderly`, that every program is `Disciplined`, which mentions no
  behaviour. So the hypothesis cannot be spoilt by a failure, by what an earlier call left or by another shape.

The hypothesis is true of the code's forwards: `TypeOK` of the `Forwards` run checks `Follows` in every state of
every setting but the video decoder's. That one keeps the mask it holds beside the pool (`fix`) across a submit,
as a kept buffer of the pool would be; `fix` puts it outside the rules (`KeepsFixed`), so its
instances are model-checked only.

`ReuseProofs` continues from the same invariants and the same hypothesis, and is about what a call finds of what
earlier ones left, for any number of calls and faults:

* `WellFormed`: `TypeOK`. Buffers exist that are named, and neither a preload nor a read leaves more in a cache of the source
  than its limit.
  It rests on lemmas about what `Chosen` and `LastOf` return (`ChosenFacts` and its like, by induction on a length).
* `FailuresAreFaults` (`FailsOnlyWhenStruck`), assuming `WellPreloaded`: a model that reads through the source
  which counts uses, or uploads its weights beforehand, rejects a call only if the device or the network failed
  during that call. What has to be shown is that a dispatch finds each of its weights on the device or in the
  source, wherever earlier calls stopped. `Loading` says that what is on the device is a front of the order in
  which the model reads (`AtFront`), whichever call put it there; that a layer is wholly in the source from its
  preload to its last read (`Ready`, `ReadSoFar`); and that whatever has been used since it was (`Young`) belongs
  to the layers beside it (`Beside`), for which each cache has room. So a cache drops something older. Only
  preloads and dense reads are uses: a packed read leaves its cache as it is, and a dense one of a tensor that is there
  moves it without making room (`OutlastsPreload`, `OutlastsRead`).
* `SecondCallIsFree` (`SecondCallAllocatesNothing`), assuming `WellPreloaded` and `Repeats`: once one call of a
  program has gone through, the next allocates nothing while nothing fails and nothing is evicted. `PoolInv`
  assigns each request whose buffer is in use a buffer of its class, one to one (`Assigned`), and says that
  the pool owns enough of them for every step the program has been through (`Room`); if all buffers of a class were
  taken when one more is requested, the assignment would be an injection of a set into a smaller one (`OneIsFree`).
* `FailuresNeedAFault` (`FailsOnlyAfterFault`), assuming `WellPreloaded` and `TurnsOver`: before the device or the
  network has failed, no call rejects, with the reader of `anima-web` either. A hit stays where it is in that
  cache and is the next to be dropped, so the proof cannot say that what is in use is young. `InOrder` says
  instead, of each cache, that whatever has entered it since a layer was announced stands behind what is left of the
  layer; as much as the limit, when the layer comes round again, so nothing is left (`AnnouncedAnew`), the layer
  arrives whole at the far end, and `Pending` keeps it there to its last read. What the page permutes enters the dense
  cache when it is read and not before; it is counted in that cache from its announcement on. A call that stops breaks
  the round, which is finding 4.

`ResidentEngineProofs` proves, for any cache size, vocabulary, number of `lm_head` chunks, of calls and
of faults, in either runtime:

* `TypeCorrect`: `Safety => []TypeOK`, `reset()` in flight included. Among its conjuncts the one that says
  something is that no write leaves the cache and no position exceeds it: it needs `TypeInv`, which adds
  that no two calls of one generation are in flight, that the position has not moved since the one
  that is began (`CallsInv`), and that a call which waits for its bind groups is in the queue (`QueueInv`).
* `LogitsAreExact`, `CacheIsTheGeneration`, `EngineImplementsGeneration`: `LogitsExact`,
  `CacheHoldsGeneration` and `ImplementsGeneration`, assuming `Separate`: callers await a forward before they
  reset, or they reset whenever they like and the logits are one chunk which is mapped in the step that submits it
  (no profiling in between). So the theorems cover the settings of `EngineNode` and of `EngineBrowser`;
  `EngineNodeReset`, which is neither, is finding 2. The inductive invariant `ExactInv` adds to `TypeInv` that the
  cache below the position holds the tokens said so far (`Caches`), that a call of this generation
  which has been submitted finds its own tokens after them and has read exact logits in the chunks behind it
  (`CallExact`), and that a staging buffer is mapped only by the call that is at that chunk (`MapsInv`).
  What keeps two generations apart is `SeparateInv`. When nothing is reset in flight the call in flight is
  alone (`ClearInv`). When something may be, a call left behind that has been submitted holds the only map
  there is: a submission of the new generation that meets it is refused by its own `mapAsync`, and never mistaken
  for answered; and one left behind in the queue is ahead of those of the new generation (`InTurn`), so
  that what it writes is overwritten. Each step of the engine then maps to a step of `Generation` or to a stutter.

`FolderGateProofs` proves, for any folders, files, plans, repositories and number of faults, assuming
`GateAssumption` and `NoneAssumption` (a missing file is not a file):

* `TypeCorrect`: `Safety => []TypeOK`, for any number of pages.
* `StartsUndisturbed`: `Safety => BoundUndisturbed`, for any number of pages, repositories and short writes. `WholeInv`
  says that a file is empty, cut or whole (`DiskInv`), so that its length tells it (`LengthTells`); that a receipt names
  published lengths (`ReceiptInv`); and that what an undisturbed page has been through, of a receipt or of its plan,
  is whole (`Seen`). Each step of another page either leaves that page's files alone or disturbs it.
* `StartsFromWholeFolder`: `Safety => BoundWhole`, for one page with every fault. `AloneInv` adds that nobody is there to
  disturb it.
* `HandleIsEarned`: `Safety => HandleEarned`, for any number of pages and whatever IndexedDB swallows. `EarnInv` joins
  `WholeInv` to `KeepInv`, which says which handler can get where: only the gate's own button leads to forgetting, and a
  page at its gate runs from nothing.

Only model-checked:

* all liveness (`Converges`, `Serves`, `Binds`, `Settles`, the liveness of `ImplementsSource`), which is out of the
  prover's reach;
* that the eleven forwards follow the rules, and satisfy `WellPreloaded`, `Repeats` and `TurnsOver`. Their programs are concatenations over layers, heads and
  chunks; what they are for *every* shape is an induction over the way they are built, which is not attempted.
  (Induction on a number is available as an induction over a set of numbers, from the library's well-founded
  sets: `SetInduction`. The theorems above use it for replays, sketches and sums.)

## 5. Not modelled

* Floating-point arithmetic, WGSL kernels, model code, tokenizers: numerical or string algorithms the
  repository tests against originals.
* Weight cache: the store's room does not change, the browser's estimate is exact, and nothing else of the origin is
  stored. A page without IndexedDB is a fault (`NoStore`): it has no cache, and nothing is claimed of it if it stays so.
* Gate: repositories whose files have equal lengths (`GateAssumption`), and edits of a folder while a page is at work on
  it (`Untouched`). Failures of IndexedDB are modelled.
* Runtimes: the count of live bytes of `harness/resident.ts` (201-210; it exists on Node only, each wrapped `destroy()`
  subtracts a buffer once, and a model of it that has no sizes and destroys nothing twice would hold whatever these
  lines do), uniform buffers (created without a scope), the scratch map of `wgsl.ts`, profiling and
  timestamps, `reclaim`, `createResidentDevice`'s adapter request, the loss of a device on Node (nothing
  there prepares for it), the unhandled rejections of the web runtime's `createStorageBuffer`.
* Forwards: uniform buffers, loading of weights on construction, `destroy()`, progress, and
  `encodeConditioning`'s loop over clips. The reference forwards, schedules, samplers and host loops of
  the generators are plain arithmetic and hold no state.
* Forwards, shapes past a limit of the device: the code throws when a grid or a row split does not fit
  (`h3-video/src/decoder-gpu.ts:308-321`, `539-547`; `anima/src/dit-resident.ts:380-388`, `655-660`;
  `zimage/src/dit-resident.ts:254-261`, `456`, `560`). Such shapes are not run here: `FailsOnlyAfterFault` and
  `FailsOnlyWhenStruck` are about the others.
* Forwards, the video decoder's mask: `block` keeps it across its split (`h3-video/src/decoder-gpu.ts:692`), which puts it on
  the list of lent buffers, and the next `flush` (807) pushes it onto the free list, once more for every block. No request
  gets it (its size is no multiple of 4 MB), but each entry counts towards `maxFreePoolBytes`: buffers are evicted earlier
  than the budget says, and after some thousands of blocks of a long clip the mask itself may be destroyed. The halves of the
  pool are sets here and hold it once; `PoolPartition` excepts it.
* Weight readers: ranges of files, the arithmetic of dequantization, the disk cache. The Anima page also builds its text
  adapter through the same reader (`anima-web/src/main.ts:428-467`), once, before the first forward. No forward reads
  those tensors and they are the first to be dropped; the model begins without them.
* Reference engines: the arithmetic; two `forward()` calls at once; `engine-q8.ts`, which has the control of
  `engine.ts` over quantized weights.
* Chunks inside one provisioning download (the read-ahead), parsing, progress, layout of the pages.
* `receipt.source` is written and never compared by the code; no property is stated about it.

## 6. Plan

In this order; the modules above came first because they hold state that outlives a call.

1. **ReadAhead**: `provision`'s eight reads in flight, written in order; completion and rejection in any
   order; no unhandled rejection, no write out of order; what `pendingReads` retains.
2. **Sampler and line format** as functions, checked against a reference definition over bounded inputs.
3. Proofs: rules that admit the video decoder's mask, and that a program built from `Recording`'s operators
   follows the rules.
