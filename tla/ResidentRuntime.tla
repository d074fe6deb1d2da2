--------------------------- MODULE ResidentRuntime ---------------------------
(***************************************************************************)
(* Calls that run a kernel on one WebGPU device, in any number at once, on *)
(* each of the five implementations the repository has of the way there:   *)
(*   node  harness/resident.ts                                             *)
(*   web   examples/web-common/src/browser-resident.ts                     *)
(*   demo  examples/llm-demo/src/browser-resident-runtime.ts               *)
(*   wgsl  harness/wgsl.ts, one dispatch at a time                         *)
(*   page  examples/web-common/src/browser-runner.ts, its port             *)
(* The first three are resident devices.  Their callers are runner, which  *)
(* is runnerFromResident, and round, which asks for two bind groups at     *)
(* once and waits for both, as the prefill of the LLM engine does for      *)
(* nine.                                                                   *)
(*                                                                         *)
(* A step is what the code does between two awaits.  An error scope is     *)
(* pushed and popped within a step; its answer comes later, and the        *)
(* answers come in the order the scopes were popped.  A buffer the device  *)
(* refuses is handed out like any other and is only known to be refused    *)
(* once the answer is in.                                                  *)
(***************************************************************************)
EXTENDS Naturals, Sequences, FiniteSets

CONSTANTS
  LastCall,     \* the calls are 1 .. LastCall, in the order they begin
  Runtime,      \* the implementations
  Code, Entry,  \* kernel sources and entry points
  Broken,       \* the sources that do not compile
  Missing,      \* the <<code, entry>> that name no entry point
  Dispatch,     \* what a call may ask for
  MaxRefusals,  \* how many buffers the device may refuse
  MaxLosses     \* whether the device may be lost: 0 or 1

(* What is wrong with a dispatch, apart from its kernel: a binding the     *)
(* entry point does not have, data of the wrong type, too large a grid.    *)
Flaw == {"none", "binding", "type", "grid"}

ASSUME RuntimeAssumption ==
  /\ LastCall \in Nat
  /\ Runtime \subseteq {"node", "web", "demo", "wgsl", "page"}
  /\ Broken \subseteq Code /\ Missing \subseteq Code \X Entry
  /\ Dispatch \subseteq [code : Code, entry : Entry, flaw : Flaw, caller : {"runner", "round"}]
  /\ Dispatch # {}
  /\ MaxRefusals \in Nat /\ MaxLosses \in 0 .. 1

VARIABLES
  runtime,    \* which implementation this is
  want,       \* want[c]: what call c asks for
  call,       \* call[c]: the state of call c
  modules,    \* the sources whose module is cached
  pipelines,  \* pipelines[s]: the entry points of s whose pipeline is cached
  held,       \* the buffers created and not destroyed
  refused,    \* the buffers that are invalid
  scopes,     \* the error scopes popped and not answered, oldest first
  pending,    \* pendingScopes: the allocations nobody has waited for
  failure,    \* allocationFailure: an allocation is known to have failed
  lost,       \* the device is gone
  loss        \* device.lost has said so

caches == <<modules, pipelines>>

buffers == <<held, refused>>

device == <<lost, loss>>

vars == <<runtime, want, call, caches, buffers, scopes, pending, failure, device>>

-----------------------------------------------------------------------------
Call == 1 .. LastCall

Resident == runtime \in {"node", "web", "demo"}

ChecksTypes == runtime \in {"node", "web", "wgsl"}

Waiting == {"compiling", "building", "draining", "binding", "submitting", "mapping"}

Settled == {"done", "failed"}

(* What a call rejects with: its own fault, named; the failure of a later  *)
(* step; or what the runtime makes of a lost device.                       *)
Why == {"shader", "pipeline", "type", "allocation", "bind group", "dispatch", "grid", "batch",
        "mapping", "instance dropped", "device gone", "device lost"}

Buffer == Call \X {"in", "out", "staging"}

(* A call: where it is, whether its source had cached pipelines when it    *)
(* looked (byEntry), the pipeline it got, the allocations and the number   *)
(* of bind groups it waits for, whether the device did its work, and why   *)
(* it failed.                                                              *)
CallState == [pc : {"idle", "built"} \cup Waiting \cup Settled, saw : BOOLEAN,
              kernel : Code \X Entry, waits : SUBSET Buffer, groups : 0 .. 2,
              ran : BOOLEAN, why : Why \cup {""}]

Kernel(c) == <<want[c].code, want[c].entry>>

(* The device makes no pipeline of this kernel.                            *)
Invalid(k) == k \in Missing \/ k[1] \in Broken

(* The buffers a call binds, and the one it reads its output back through. *)
Bound(c) == {<<c, "in">>, <<c, "out">>}

Staging(c) == {<<c, "staging">>}

Buffers(c) == Bound(c) \cup Staging(c)

Moved(c, to) == [call EXCEPT ![c].pc = to]

Failing(c, why) == [call EXCEPT ![c].pc = "failed", ![c].why = why]

(* An error scope: what was done in it, by which call, and whether it      *)
(* caught an error.                                                        *)
ScopeState == [what : {"in", "out", "staging", "pipeline", "bind", "submit"}, of : Call, bad : BOOLEAN]

Scope(what, c, bad) == [what |-> what, of |-> c, bad |-> bad]

Init ==
  /\ runtime \in Runtime
  /\ want \in {w \in [Call -> Dispatch] : \A c \in Call : w[c].caller = "round" => Resident}
  /\ call = [c \in Call |-> [pc |-> "idle", saw |-> FALSE, kernel |-> Kernel(c), waits |-> {},
                             groups |-> 0, ran |-> FALSE, why |-> ""]]
  /\ modules = {} /\ pipelines = [s \in Code |-> {}]
  /\ held = {} /\ refused = {}
  /\ scopes = <<>> /\ pending = {} /\ failure = FALSE
  /\ lost = FALSE /\ loss = FALSE

-----------------------------------------------------------------------------
(* Buffers *)

(* createBuffer: what the device may refuse of new buffers.                *)
Refusable(new) == {bad \in SUBSET new : Cardinality(refused \cup bad) <= MaxRefusals}

Create(new, bad) == held' = held \cup new /\ refused' = refused \cup bad

(* The scopes of new buffers, by name.  Only node and web put any around   *)
(* them.                                                                   *)
AllocationScopes(c, names, bad) ==
  IF runtime \in {"node", "web"}
    THEN [i \in 1 .. Len(names) |-> Scope(names[i], c, <<c, names[i]>> \in bad)]
    ELSE <<>>

(* A call destroys its buffers; an output is destroyed twice, which the    *)
(* device forgives.                                                        *)
Destroy(gone) == held' = held \ gone /\ UNCHANGED refused

-----------------------------------------------------------------------------
(* A call begins *)

(* Mutant: the key of a pipeline leaves the entry point out.               *)
Hit_AnyEntry(c) == pipelines[want[c].code]

(* The cached entry points a lookup finds: the one asked for, or none.     *)
Hit(c) == pipelines[want[c].code] \cap {want[c].entry}

Begins(c) == call[c].pc = "idle" /\ \A b \in 1 .. c - 1 : call[b].pc # "idle"

Looked(c, to) == [call EXCEPT ![c].pc = to, ![c].saw = pipelines[want[c].code] # {}]

(* The scope around createComputePipeline.                                 *)
PipelineScope(c) == Append(scopes, Scope("pipeline", c, Invalid(Kernel(c))))

FindPipeline(c) ==
  /\ Resident /\ Begins(c)
  /\ \E e \in Hit(c) :
       call' = [call EXCEPT ![c].pc = "built", ![c].kernel = <<want[c].code, e>>]
  /\ UNCHANGED <<runtime, want, caches, buffers, scopes, pending, failure, device>>

FindModule(c) ==
  /\ Resident /\ Begins(c)
  /\ Hit(c) = {} /\ want[c].code \in modules
  /\ call' = Looked(c, "building") /\ scopes' = PipelineScope(c)
  /\ UNCHANGED <<runtime, want, caches, buffers, pending, failure, device>>

(* createShaderModule, then getCompilationInfo.                            *)
Compile(c) ==
  /\ Begins(c)
  /\ (Resident => Hit(c) = {}) /\ want[c].code \notin modules
  /\ call' = Looked(c, "compiling")
  /\ UNCHANGED <<runtime, want, caches, buffers, scopes, pending, failure, device>>

(* The one-shot runners: the types are compared before a buffer exists,    *)
(* the buffers are created without a scope, and one scope is around both   *)
(* the pipeline and the bind group.                                        *)
BindAtOnce(c) ==
  IF ChecksTypes /\ want[c].flaw = "type"
    THEN call' = Failing(c, "type") /\ UNCHANGED <<buffers, scopes>>
    ELSE \E bad \in Refusable(Bound(c)) :
           /\ Create(Bound(c), bad)
           /\ call' = [call EXCEPT ![c].pc = "binding", ![c].groups = 1]
           /\ scopes' = Append(scopes, Scope("bind", c, \/ Invalid(Kernel(c)) \/ bad # {}
                                                        \/ want[c].flaw = "binding"))

FindModuleAndBind(c) ==
  /\ ~ Resident /\ Begins(c)
  /\ want[c].code \in modules
  /\ BindAtOnce(c)
  /\ UNCHANGED <<runtime, want, caches, pending, failure, device>>

-----------------------------------------------------------------------------
(* Answers *)

(* The allocations a call waits for have all been answered.                *)
Drained(c) ==
  \A i \in DOMAIN scopes : <<scopes[i].of, scopes[i].what>> \notin call[c].waits

(* Nothing is left to run before the device is heard again.                *)
Quiet == \A c \in Call : call[c].pc # "built" /\ (call[c].pc = "draining" => ~ Drained(c))

(* What a call rejects with when the device is gone.                       *)
Dropped ==
  IF runtime # "web" THEN "instance dropped" ELSE IF loss THEN "device lost" ELSE "device gone"

(* The oldest scope is answered.                                           *)
Answers(what) == Quiet /\ scopes # <<>> /\ Head(scopes).what \in what /\ scopes' = Tail(scopes)

(* Mutant: the module is remembered before it is known to compile.         *)
ModulesWith_Broken(s) == IF runtime = "web" THEN modules ELSE modules \cup {s}

(* The web runtime keeps no modules.                                       *)
ModulesWith(s) == IF runtime = "web" \/ s \in Broken THEN modules ELSE modules \cup {s}

Compiled(c) ==
  /\ Quiet /\ call[c].pc = "compiling"
  /\ modules' = IF lost THEN modules ELSE ModulesWith(want[c].code)
  /\ \/ /\ lost \/ want[c].code \in Broken
        /\ call' = Failing(c, IF lost THEN Dropped ELSE "shader")
        /\ UNCHANGED <<buffers, scopes>>
     \/ /\ ~ lost /\ want[c].code \notin Broken /\ Resident
        /\ call' = Moved(c, "building") /\ scopes' = PipelineScope(c)
        /\ UNCHANGED buffers
     \/ /\ ~ lost /\ want[c].code \notin Broken /\ ~ Resident
        /\ BindAtOnce(c)
  /\ UNCHANGED <<runtime, want, pipelines, pending, failure, device>>

(* Mutant: the map of a source's pipelines is the one found, or not found, *)
(* before the awaits.                                                      *)
PipelinesWith_Stale(c) ==
  [pipelines EXCEPT ![want[c].code] = (IF call[c].saw THEN @ ELSE {}) \cup {want[c].entry}]

(* The map of a source's pipelines is looked up again after the awaits.    *)
PipelinesWith(c) == [pipelines EXCEPT ![want[c].code] = @ \cup {want[c].entry}]

(* Mutant: a pipeline is cached whatever its scope says.                   *)
Remembers_Unchecked(s) == ~ lost

(* A pipeline is cached once its scope has caught nothing.                 *)
Remembers(s) == ~ lost /\ ~ s.bad

PipelineAnswered ==
  /\ Answers({"pipeline"})
  /\ LET s == Head(scopes)
     IN /\ pipelines' = IF Remembers(s) THEN PipelinesWith(s.of) ELSE pipelines
        /\ call' = IF lost THEN Failing(s.of, Dropped)
                   ELSE IF s.bad THEN Failing(s.of, "pipeline")
                   ELSE [call EXCEPT ![s.of].pc = "built", ![s.of].kernel = Kernel(s.of)]
  /\ UNCHANGED <<runtime, want, modules, buffers, pending, failure, device>>

(* Mutant: every answer is taken for a failure.                            *)
Noted_Always(s) == TRUE

(* note: the first failure is kept, for good.                              *)
Noted(s) == failure \/ s.bad

(* The web runtime throws into a promise nobody awaits.                    *)
AllocationAnswered ==
  /\ Answers({"in", "out", "staging"})
  /\ failure' = IF runtime = "node" THEN Noted(Head(scopes)) ELSE failure
  /\ UNCHANGED <<runtime, want, call, caches, buffers, pending, device>>

-----------------------------------------------------------------------------
(* Buffers and bind groups of a resident device *)

GroupCount(c) == IF want[c].caller = "round" THEN 2 ELSE 1

(* Mutant: of the scopes opened at once only one is popped.                *)
BindScopes_One(c, n, bad) ==
  [i \in 1 .. (IF n = 0 THEN 0 ELSE 1) |->
     Scope("bind", c, want[c].flaw = "binding" \/ bad \cap Bound(c) # {})]

(* What n bind groups of a call add to the scopes.                         *)
BindScopes(c, n, bad) ==
  [i \in 1 .. n |-> Scope("bind", c, want[c].flaw = "binding" \/ bad \cap Bound(c) # {})]

(* Mutant: whether an allocation has failed is looked up, not waited for.  *)
Awaited_Nothing(now) == {}

(* drainAllocationScopes: the answers a bind group waits for.              *)
Awaited(now) == now

(* What a bind group rejects with before it asks the device.               *)
Objection(c) ==
  IF runtime = "node" /\ failure THEN "allocation"
  ELSE IF ChecksTypes /\ want[c].flaw = "type" THEN "type" ELSE ""

(* The buffers are created and uploaded, and the bind groups asked for.    *)
(* In node the first bind group takes the pending answers away to wait for *)
(* them; another finds none left and goes ahead.                           *)
Allocate(c) ==
  /\ call[c].pc = "built"
  /\ \E bad \in Refusable(Bound(c)) :
       /\ Create(Bound(c), bad)
       /\ LET waits == IF runtime = "node" THEN Awaited(pending \cup Bound(c)) ELSE {}
              ahead == IF waits = {} THEN GroupCount(c) ELSE GroupCount(c) - 1
              stop  == ahead > 0 /\ Objection(c) # ""
              begun == [call[c] EXCEPT !.pc = IF waits = {} THEN "binding" ELSE "draining",
                                       !.waits = waits, !.groups = GroupCount(c)]
          IN /\ call' = [call EXCEPT ![c] = IF stop THEN [begun EXCEPT !.pc = "failed", !.why = Objection(c)]
                                              ELSE begun]
             /\ scopes' = scopes \o AllocationScopes(c, <<"in", "out">>, bad)
                                 \o (IF stop THEN <<>> ELSE BindScopes(c, ahead, refused'))
  /\ pending' = {}
  /\ UNCHANGED <<runtime, want, caches, failure, device>>

Drain(c) ==
  /\ call[c].pc = "draining" /\ Drained(c)
  /\ call' = IF Objection(c) # "" THEN Failing(c, Objection(c))
             ELSE [call EXCEPT ![c].pc = "binding", ![c].waits = {}]
  /\ scopes' = IF Objection(c) # "" THEN scopes ELSE scopes \o BindScopes(c, 1, refused)
  /\ UNCHANGED <<runtime, want, caches, buffers, pending, failure, device>>

-----------------------------------------------------------------------------
(* batch *)

(* Mutant: the buffers are destroyed after the batch, not in a finally.    *)
Gone_OnSuccess(c, resolved) ==
  held \cap (IF ~ resolved THEN {} ELSE IF want[c].caller = "round" THEN Bound(c) ELSE Buffers(c))

(* What a call destroys once its work has resolved or rejected: runner of  *)
(* a resident device everything in either case, the others only what they  *)
(* have read.  The staging buffer of a round is the engine's.              *)
Gone(c, resolved) ==
  held \cap (IF want[c].caller = "round" THEN IF resolved THEN Bound(c) ELSE {}
             ELSE IF resolved \/ Resident THEN Buffers(c) ELSE {})

(* Mutant: the batch is submitted without a scope.                         *)
SubmitScope_None(c, ran) == <<>>

(* Only the web runtime looks at the answer of a submission.               *)
SubmitScope(c, ran) == IF runtime = "web" THEN <<Scope("submit", c, ~ ran)>> ELSE <<>>

(* The staging buffer is created and the work submitted.  With anything    *)
(* invalid in it none of the work is done.  node refuses too large a grid  *)
(* before it submits.                                                      *)
Submit(c) ==
  IF runtime = "node" /\ want[c].flaw = "grid"
    THEN \E bad \in Refusable(Staging(c)) :
           LET gone == IF want[c].caller = "round" THEN {} ELSE Buffers(c)
           IN /\ held' = (held \cup Staging(c)) \ gone
              /\ refused' = refused \cup bad
              /\ scopes' = Tail(scopes) \o AllocationScopes(c, <<"staging">>, bad)
              /\ pending' = pending \cup Staging(c)
              /\ call' = [Failing(c, "grid") EXCEPT ![c].groups = 0]
    ELSE \E bad \in Refusable(Staging(c)) :
           LET ran == bad = {} /\ want[c].flaw # "grid"
               popped == SubmitScope(c, ran)
           IN /\ Create(Staging(c), bad)
              /\ scopes' = Tail(scopes) \o AllocationScopes(c, <<"staging">>, bad) \o popped
              /\ pending' = IF runtime = "node" THEN pending \cup Staging(c) ELSE pending
              /\ call' = [call EXCEPT ![c].pc = IF popped = <<>> THEN "mapping" ELSE "submitting",
                                      ![c].groups = 0, ![c].ran = ran]

(* The last bind group a call waits for lets it go on; the first that is   *)
(* refused fails it.  A call that no longer waits hears no more.           *)
BindAnswered ==
  /\ Quiet /\ scopes # <<>> /\ Head(scopes).what = "bind"
  /\ LET s == Head(scopes)
         c == s.of
         hears == call[c].pc \in {"binding", "draining"}
     IN IF hears /\ ~ lost /\ ~ s.bad /\ call[c].groups = 1
          THEN Submit(c)
          ELSE /\ call' = IF ~ hears THEN call
                          ELSE IF lost THEN Failing(c, Dropped)
                          ELSE IF s.bad THEN Failing(c, IF Resident THEN "bind group" ELSE "dispatch")
                          ELSE [call EXCEPT ![c].groups = @ - 1]
               /\ scopes' = Tail(scopes) /\ UNCHANGED <<buffers, pending>>
  /\ UNCHANGED <<runtime, want, caches, failure, device>>

SubmitAnswered ==
  /\ Answers({"submit"})
  /\ LET s == Head(scopes)
     IN IF lost \/ s.bad
          THEN /\ call' = Failing(s.of, IF lost THEN Dropped ELSE "batch")
               /\ Destroy(Gone(s.of, FALSE))
          ELSE call' = Moved(s.of, "mapping") /\ UNCHANGED buffers
  /\ UNCHANGED <<runtime, want, caches, pending, failure, device>>

(* mapAsync resolves, with zeros when the work was not done, or rejects.   *)
Mapped(c) ==
  /\ Quiet /\ call[c].pc = "mapping"
  /\ LET resolved == ~ lost /\ Staging(c) \cap refused = {}
     IN /\ call' = IF resolved THEN Moved(c, "done") ELSE Failing(c, "mapping")
        /\ Destroy(Gone(c, resolved))
  /\ UNCHANGED <<runtime, want, caches, scopes, pending, failure, device>>

-----------------------------------------------------------------------------
(* The device is lost; later, device.lost says why.  Neither is modelled   *)
(* in node, which nothing of the code prepares for it.                     *)
Lose ==
  /\ MaxLosses = 1 /\ runtime \in {"web", "demo", "page"} /\ ~ lost
  /\ lost' = TRUE
  /\ UNCHANGED <<runtime, want, call, caches, buffers, scopes, pending, failure, loss>>

LossKnown ==
  /\ Quiet /\ runtime = "web" /\ lost /\ ~ loss
  /\ loss' = TRUE
  /\ UNCHANGED <<runtime, want, call, caches, buffers, scopes, pending, failure, lost>>

Proceed ==
  \/ \E c \in Call : \/ Compiled(c) \/ Allocate(c) \/ Drain(c) \/ Mapped(c)
  \/ PipelineAnswered \/ AllocationAnswered \/ BindAnswered \/ SubmitAnswered

Next ==
  \/ \E c \in Call : \/ FindPipeline(c) \/ FindModule(c) \/ Compile(c) \/ FindModuleAndBind(c)
  \/ Proceed \/ Lose \/ LossKnown

(* The device answers in the end, if only to say that it is gone, and the  *)
(* event loop runs what it answered.  Nobody has to call, and the device   *)
(* need not be lost.                                                       *)
Spec == Init /\ [][Next]_vars /\ WF_vars(Proceed)

-----------------------------------------------------------------------------
TypeOK ==
  /\ runtime \in Runtime
  /\ want \in [Call -> Dispatch]
  /\ call \in [Call -> CallState]
  /\ modules \subseteq Code \ Broken /\ pipelines \in [Code -> SUBSET Entry]
  /\ held \subseteq Buffer /\ refused \subseteq Buffer
  /\ scopes \in Seq(ScopeState)
  /\ pending \subseteq Buffer
  /\ failure \in BOOLEAN /\ lost \in BOOLEAN /\ loss \in BOOLEAN

(* What each runtime lets through: nobody compares the types or the grid.  *)
Unchecked ==
  CASE runtime \in {"node", "web"}  -> {}
    [] runtime = "wgsl"            -> {"grid"}
    [] runtime \in {"demo", "page"} -> {"grid", "type"}

(* A call that resolves returns what the kernel it asked for computed:     *)
(* never zeros of work the device dropped, never another entry point's     *)
(* result.  The faults its runtime does not look for are the exception.    *)
ResolvedIsComputed ==
  \A c \in Call :
    call[c].pc = "done" =>
      want[c].flaw \in Unchecked \/ (call[c].ran /\ call[c].kernel = Kernel(c))

(* No invalid pipeline is in the cache, where a later call would take it   *)
(* without a scope: the answer comes before the entry.                     *)
CacheIsValid == \A s \in Code, e \in Entry : e \in pipelines[s] => ~ Invalid(<<s, e>>)

(* What a call with a fault of its own is told, whoever asked for the same *)
(* kernel before: the first of its faults in the order the runtime looks.  *)
Diagnosis(c) ==
  CASE want[c].code \in Broken -> "shader"
    [] want[c].code \notin Broken /\ Kernel(c) \in Missing ->
         IF Resident THEN "pipeline" ELSE IF ChecksTypes /\ want[c].flaw = "type" THEN "type" ELSE "dispatch"
    [] want[c].code \notin Broken /\ Kernel(c) \notin Missing /\ want[c].flaw = "none" -> ""
    [] OTHER -> "any"

(* A call whose kernel does not compile, or has no such entry point, fails *)
(* with the message that says so, unless the device is gone: no cached     *)
(* module or pipeline turns it into the failure of a later step.           *)
Diagnosed ==
  \A c \in Call :
    (call[c].pc \in Settled /\ ~ lost /\ Diagnosis(c) \notin {"", "any"})
      => call[c].pc = "failed" /\ call[c].why = Diagnosis(c)

(* In node a call that fails after the device refused a buffer it binds    *)
(* says so, and does not leave it at the bind group that is invalid for    *)
(* it: someone has waited for the answer, though only one of several bind  *)
(* groups at a time can.                                                   *)
RefusalNamed ==
  \A c \in Call :
    (runtime = "node" /\ call[c].pc = "failed" /\ Bound(c) \cap refused # {})
      => call[c].why = "allocation" \/ (call[c].why = "type" /\ want[c].flaw = "type")

(* runnerFromResident leaves no buffer behind unless it rejects while it   *)
(* still waits for its bind group, and the one-shot runners none unless    *)
(* the call rejects.                                                       *)
LeaksOnlyUnbound ==
  \A c \in Call :
    (call[c].pc \in Settled /\ want[c].caller = "runner" /\ held \cap Buffers(c) # {})
      => IF Resident THEN call[c].groups # 0 ELSE call[c].pc = "failed"

(* A call fails for a fault of its own, a buffer refused to it, a lost     *)
(* device, or, in node, a buffer refused to any call before.  The other    *)
(* calls of the device do not disturb it.                                  *)
FailsForCause ==
  \A c \in Call :
    call[c].pc = "failed" =>
      \/ Invalid(Kernel(c)) \/ want[c].flaw # "none"
      \/ Buffers(c) \cap refused # {}
      \/ lost \/ (runtime = "node" /\ refused # {})

(* Calls that compile the same source at the same time do not lose each    *)
(* other's pipelines.                                                      *)
CacheKeeps == [][\A s \in Code : pipelines[s] \subseteq pipelines'[s]]_vars

(* Every call that has begun resolves or rejects: no bind group waits for  *)
(* an answer another one has taken away.                                   *)
Settles == \A c \in Call : (call[c].pc # "idle") ~> (call[c].pc \in Settled)
=============================================================================
