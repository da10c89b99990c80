# TLA+ models of vLLM-MUSA

vLLM-MUSA is the MUSA GPU backend of vLLM: a plugin package, about 210 source
patches for a pinned vLLM, a tool that maintains these patches, and GPU kernels.
Much of its code is arithmetic or configuration.  This directory models the parts
whose difficulty lies elsewhere: ranks that share GPU memory and wait for each
other, graph captures that all ranks must accept together, threads of a kernel
that meet at barriers and in atomics, state of a request that one step leaves
to the next, kernels that must agree however a batch is composed, and tools that
edit a working tree and may be stopped anywhere.

Shorthands used below: **PY** is
`vllm_musa/distributed/device_communicators/musa_jit_custom_all_reduce.py`,
**MU** is `vllm_musa/jit_kernel/csrc/distributed/custom_all_reduce.mu`,
**BA** is `vllm_musa/patches/build_apply.py`, **SYNC** is `tools/musa_sync.py`,
**GDN** is `vllm_musa/model_executor/layers/mamba/gdn/qwen_gdn_linear_attn.py`,
**CC** is `vllm_musa/jit_kernel/tilelang/causal_conv1d.py`, **PRE** is
`deep_gemm_contig_preprocess.py` beside it, and **SMP** is
`vllm_musa/v1/sample/topk_topp_sampler.py`.  Numbers are lines.

## 1. Inventory of the system

| Component | State | Operations | What must hold |
|---|---|---|---|
| Signal barrier (MU 57-178) | `Signal`: `self_counter[block][thread]`, `peer_counter[2][block][rank]`, one per rank, mapped by all | `multi_rank_barrier` | nobody passes early; no flag is lost; no deadlock, also when the 32 bit flag wraps |
| Collective kernels (MU 180-1664, launchers 1743-2130) | staging buffer, scratch area behind the Signal, output | unregistered all-reduce, 1-stage, 2-stage, 2-shot, fused with RMSNorm; all-gather in three kernels | the result is made of this call's inputs; nobody overwrites what a peer still reads |
| Communicator construction (PY 383-617, 1762-1810) | own buffers, IPC mappings, `disabled`, collectives entered on the process group | plan consensus, `_make_shared_buffer` twice, compile, availability reduction | an enabled rank finds every peer mapped and enabled; a disabled one holds nothing; everybody gets a verdict |
| Graph capture with the staging arena (PY 619-1019, `policy.py` 114-197) | cursors, ledger, captured descriptors, the peers' broadcasts | `capture()`, `_graph_staging_launch_args`, `_validate_graph_staging_capture` | slots are disjoint, also from eager memory; ranks accept a graph together or not at all |
| Graph capture with registered inputs (PY 1021-1138) | pending inputs, rank-data rows, caches of IPC handles and peer mappings | `_graph_rank_data_for_input`, `_register_graph_buffers` | rows hold the live addresses of every peer's tensor |
| Shutdown (PY 1713-1759) | the above | `close()` | no peer kernel reads freed memory |
| Build-time patch series (BA, `setup.py` 388-523) | the clone's working tree | reset to the pin, `apply_patch`, `apply_patch_series` | a successful build leaves the tree the series describes |
| Patch authoring tool (SYNC, `patches/manifest.py`) | a scratch clone with the series as commits, `third_party/PINS`, the numbered files of `series/` and `series/upstream/` | rebase, regen, upgrade-plan, backport | regen writes a series that builds the clone's tree; an entry is dropped only when upstream has it |
| Samplers (SMP) | a generator per request or per slot, `SamplingStates` by slot, one private generator | the routes of `_sample`, `_sampler_forward`, `_worker_sample` | a token is drawn under its own request's parameters and from its own stream, whatever the batch |
| Gated delta net layer (GDN) and causal convolution (CC) | per cache line, the last inputs of the convolution and the recurrent state | prefill and decode steps, with fallbacks between kernels | states and outputs are those of the request's own tokens, however it was cut into steps |
| MoE grouped-GEMM preprocessing (PRE, `fused_moe.py` 840-930, `post_reorder.py`) | counts, the scan's shared array, cursors, permuted rows | count, prefix sum, row assignment, combine | rows are distinct, blocks belong to one expert, every token's result is made of its own row |
| Object patches (`patches/__init__.py`) | module attributes | ordered `apply()` | best effort, idempotent |
| JIT build cache (`jit_kernel/csrc/jit.py`) | build directories, file locks | `load_musa_jit` | one builder at a time; a loaded library is a complete one |
| Dedicated Mamba pools (patches 0078, 0108, 0112, 0119, 0120, 0204, 0206, 0211) | block pools per KV group | allocate, cache, free, admission | a block returns to its own pool; admission respects every pool |
| Stream hand-off (patches 0098, 0129, 0131, 0146) | streams, events, rotation index | fork/join, rotating copy streams, fence | a consumer waits for its producer |
| Optimization contract (`optimization_contract/`) | frozen per configuration | resolve, `prefers`, `supports` | same decision on every rank |
| MoE dispatch, attention backends, compiler passes, platform glue, numeric kernels | none that evolves, or tensors | pure functions, launches | numeric agreement; left to the test-suite |

How they interact.  The process group (CPU, Gloo) is used only while the
communicator is constructed and when a capture context closes; both times ranks
match collectives by order alone.  Afterwards ranks interact through mapped
device memory: each collective copies its input to the staging buffer, meets the
peers at the signal barrier, reads their staging buffers, and meets them again.
A captured graph replays such collectives without any code of the host in
between, so slots are separated once and for all at capture time.  The
communicator takes its sizes from the optimization contract's plan, and the
sampler its preference for the Qwen routes.  vLLM's scheduler hands cache lines
to the gated delta net layer and slots to the worker's sampling states, and never
clears either.  The authoring tool writes the series, and the build applies it
to the vLLM that calls all of this.

The hard behaviours are: kernels of two ranks any number of steps apart, blocks
of one kernel at different places; a slot of a two-entry mailbox reused under a
wrapping flag; a rank that raises while its peers are inside a collective; state
that survives a failed capture into the next; a kernel that raises after another
one has changed state in place; a line or slot with its last owner's state; short
cuts taken for a whole batch; a working tree of which nobody knows which part of
which patch it holds.  `hazards` in `PROJECT.json` lists them by line, with the
properties that cover each.

## 2. Modules

| Module | Role |
|---|---|
| `RankBarrier` | abstract barrier: no rank leaves barrier k before all have reached it |
| `SignalBarrier`, `SignalBarrierProofs` | `multi_rank_barrier` for one block row, thread by thread; implements `RankBarrier` |
| `CarCollective`, `CarCollectiveProofs` | data movement of consecutive collectives, one `RankBarrier` per block row |
| `CaptureArena`, `CaptureArenaProofs` | graph capture with the staging arena |
| `CarInit`, `CarInitProofs` | construction of the communicator on all ranks |
| `PatchSeries` | the build-time applier |
| `PatchStack` | commits, patches and entries, and what git does with them (operators) |
| `UpgradePlan` | upstream's history and the verdict on each entry (operators over `PatchStack`) |
| `MusaSync` | the authoring loop, composed with both |
| `PatchProofs` | theorems about the applier and the authoring loop |
| `CausalConv1d` | the five convolution kernels and the choice among them (operators) |
| `GdnLayer` | the gated delta net layer's steps over cache lines, composed with `CausalConv1d` |
| `MoePreprocess`, `MoePreprocessProofs` | the preprocessing kernels thread by thread, and the combine |
| `Sampler` | sampling routes and random streams of both model runners |
| `RunnerProofs` | theorems about sampling and the gated delta net layer |
| `SumLemmas` | lemmas on the sums of the models and on recursive functions over 0 .. n |
| `MC*` | values of the constants for TLC |

Definitions whose comment calls them a *faulty variant* are never part of a
specification.  Each is a plausible bug in the code next to it; with it in place
of the real definition, the property it is listed with (`mutants` in
`PROJECT.json`) fails.

### SignalBarrier

One row of the Signal structure is the whole protocol, because blocks never
touch each other's rows.  `Bump` is the increment of the thread's own counter
(MU 159, or 166-167 in the non-atomic build), `Publish` the store into the peer's
slot of the flag's parity (162 / 170), `Pass` the end of the spin loop (163 /
171), `Join` the `__syncthreads_lm` after the loop, or the end of the kernel and
the start of the next one on the stream.  The flag wraps at `FlagModulus`
(2^32 in the code), which the assumption requires to be even and at least 4.
Memory order is not modelled beyond this: a store is seen once it is made, as the
atomics and system fences of the code provide.

### CarCollective

A rank's stream runs `Copy`, the kernel's blocks and `Retire`, one collective
after the other; all ranks issue the same program, which the code requires.
Buffers hold *contributions* `<<rank, operation>>` instead of numbers: a sum is
the set of what was added, so a stale or overtaken input is visible in it.
The kinds are `one` (1-stage and the fused RMSNorm kernels that end with a
barrier), `two` (2-stage, 2-shot, fused 2-shot: reduced chunks are left in the
scratch area and collected after the second barrier) and `gather` (start barrier,
copy, end barrier: three kernels, the barriers on row 0 alone, MU 445-451).
A grid may be smaller than the one before it, so consecutive kernels meet on
different rows.  The barrier is `RankBarrier`, which `SignalBarrier` is proved to
implement.

The element-to-block assignment of the code's strided loops appears as
`Handled`.  Arithmetic, packing, vector loads and the tile shapes of the fused
kernels are abstracted.  Kernels no launcher uses (`*_local_tmp`,
`reduce_scatter_store`) and kernels with registered inputs are left out.

### CaptureArena

`Enter`, `Launch`, `BodyRaises`, `LeaveBody`, `Broadcast` and `Conclude` are the
parts of `capture()` between its suspensions: entering, one collective recorded,
an exception anywhere in the body, the `finally` block, one
`broadcast_object_list`, and the verdict.  A descriptor is named by its number
of tokens (the code's pair with the number of requests is determined by it in the
plan).  Ranks choose kinds, sizes and numbers of operations independently, so
captures that differ between ranks are part of every run.  The byte totals
`_graph_staging_manifest_error` compares are sums over entries that are compared
one by one before, and `ManifestOK` says why they cannot disagree on their own.
A context that fails leaves its operations in the ledger, and the manifest counts them:
a descriptor of which two contexts recorded a part each is accepted, by the code and by
the model, and `CapturedComplete` does not exclude it.
`ArenaFits` is the condition under which `_configure_graph_staging_arena` keeps
the arena; otherwise captures take the standard collective and there is nothing
to model.

### CarInit

`entered[r]` is the list of collectives rank r has entered on the group.  A
collective completes when every rank has entered one of the same kind at the
same position, which is all a process group knows.  `Fail` is an exception in a
local step, those before the plan consensus included: it frees and closes everything (`_make_shared_buffer`'s handler, the
handler of `__init__`, or `__del__` of the dropped object) and the rank goes on to
the availability reduction.  `TimeOut` is the process group giving up a
collective that can no longer match.

### PatchSeries

A location is a hunk with its context.  A series is given by the trees its
author saw, so every well-formed series is an initial state.  `StartBuild` is
`run()` with or without SKIP_THIRD_PARTY, `SkipApplied`, `ApplyPatch` and `Conflict`
are the three results of `apply_patch`, and `Stop` is a build killed at any
point, inside `git apply` with any part of the patch written.  `git apply` itself
is external: it applies when every hunk finds its context, and offsets between
hunks are not modelled.

### PatchStack, UpgradePlan, MusaSync

A spot is a hunk with its context in some file, and its content is named by the
change that wrote it.  The clone is a stack of commits above a base, each with the
upstream change its `(cherry picked from commit ...)` line names.  `Formatted` is
regen's split at the first cherry-pick into the two directories (SYNC 2449),
`AmFrom` is `git am -3`, entry by entry, stopping at a conflict.  Upstream's branch
is a sequence of events (a change landing as itself, as a squash merge, as a
pick or as a bare copy; reverts told or silent; rewrites), a pin is a position in
it, and `Verdict` is `_plan_verdict` over the question the code asks the history
and the content.  The clone of `rebase --drop-upstreamed` may be shallow, which
`CloneHistory` and `FullHistory` tell apart.  `DropsOnlyTheUpstreamed` leaves out two
cases, in which the code does drop an entry of a change that upstream undid: the change
was taken away without a commit that says so (`TakenSilently`) and the entry no longer
applies, so neither history nor content tells; and an earlier entry of the series, as a
killed regen can leave it, carries the same change already.

`CommitMusa`, `SetPins`, `Resolve` and `Abort` are the user; `Regen` and
`RegenStops` are regen complete and killed between its copies and its unlinks;
`RebaseAll`, `RebaseWithoutUpstreamed` and `Backport` are the commands, each with
the conflict that leaves git in the middle of an operation.  Building the result
uses `ApplyOrder` and `ApplyStatus` of the real build (BA).

### CausalConv1d, GdnLayer

The output of a token is represented by its window, the inputs that were added,
and a recurrent state by its history, the windows consumed in order, so that a
value that was lost, repeated or taken from another request shows.  Five kernels
compute the convolution; each keeps its own way of moving up the cache line
(`StateAfter`, `HeadStateAfter`, `Decode`) and of cutting rows into chunks.  `Fwd`
and `BlockM` are the choice of `_causal_conv1d_fwd_impl`, including the lengths the
host believes (`MaxSeqLen`).

In `GdnLayer` the scheduler admits requests to free lines and takes lines back
without clearing them.  `Prefill` and `DecodeStep` are the two branches of
`_forward_core`, with a mate kernel that may raise after the convolution has moved
on; the fused decode path is opt-in (`VLLM_MUSA_ENABLE_MATE_GDN_DECODE`, GDN 130-132 and
287), and without it a decode step is one of a layer without `tilelang` in which nothing
raises; `Allocated` is `_allocate_gdn_output`, which zeroes only the tail a captured size
may expose.  A step takes any of the running requests in any order with any number
of tokens.

### MoePreprocess

Slots are counted by blocks in shared memory and flushed with atomics, or by one
block in the fused kernel (`OneCountBlock`).  The prefix sum runs thread by thread:
each round reads the left neighbour and then adds, and only `PastBarrier` keeps the
two apart.  From 512 tokens a library scan takes the rounds' place, a choice in the
model (`LibraryScan`).  Rows are taken by atomic adds in any order, and a token's row is
copied once all its slots have theirs.  The buffers start with `Junk`.

### Sampler

Logits are represented by the filters applied to them and noise by the kernel that
makes it, its seed and its position.  `LegacySample` and `WorkerSample` are the decision
trees of `_sampler_forward` / `_sample` and of `_worker_sample`: each gate
(`LegacyUnfiltered`, `LegacyGumbel`, `WorkerUnfiltered`, `V2Gumbel`) is the conjunction of
the code's early returns over the represented data, and each route returns the rows
it sampled from, their noise, and which generators move.  `Add` is a request that comes
or comes back, in the worker through `_sampling_states_add_request` into any free
slot.  `Step` samples for any batch in any order; the tokens of a subset are kept, since
vLLM throws away what it samples for a prompt that is not complete.  In the legacy runner
it then sets the generator back, which `Advanced` contains.  The two shared generators are
numbered by row, and a kernel that does not read a row's number leaves a gap.

Both shared generators start from the process's seed, `ProcessSeed`: any seed a request
may bring too, and 0 unless `--seed` says otherwise.  The private one feeds the Gumbel
kernel that seeded rows use (SMP 666-670, 709-728, 892-906), so a request that brings the
process's seed draws, at equal positions, the noise that requests without a seed drew; the
same holds of its exponential noise and the process's own.  The code does nothing against
it and nothing in the repository promises otherwise, so `StreamsAreOwn` and `MayShare` name
it as an exception; the instance reaches it.  Everything else the properties say holds of
such requests as well.  Random seeds of slots are idealised: they differ from each other
and from all seeds requests bring, which for 64 bit draws is only likely.

## 3. Runs

| Run | Instance | What it shows |
|---|---|---|
| `signal_barrier` | 2 ranks, 7 barriers, flag modulo 4 | `NoEarlyPass`, `FlagNotOverwritten`, the inductive invariant with the types, refinement of `RankBarrier`, no deadlock, every barrier is passed |
| `car_collective` | 2 ranks, grids of 1 and 2 blocks, all programs of 2 collectives | `ResultCorrect`, `StagingNotOverwritten`, `ScratchNotOverwritten`, no deadlock, every collective completes |
| `capture_arena` | 2 ranks, 2 descriptors of 2 operations, 2 contexts | slots apart, apart from eager memory, capacity suffices, `CapturedComplete` over failed and repeated captures, `OutcomesAgree`, `CapturedSlotsMatch`, everybody leaves every context |
| `car_init` | 4 ranks, 2 contracts, any local step may raise | `EnabledMapped`, `NothingLeft`; every constructor returns unless a rank fails before the last exchange of handles; no deadlock |
| `car_init_failure` | 2 ranks, any local step may raise | **violated**, see section 5 |
| `patch_series` | 3 patches, 2 locations, 3 contents, 3 builds | `DoneIsPatched`, `FreshBuildClean`, `ConflictOnlyWhereShared` |
| `patch_series_again` | 2 patches that overlap | **violated**, see section 5 |
| `musa_sync` | 3 spots in 2 files, 2 upstream changes, 1 MUSA commit of 2 shapes, 2 histories of 2 events, 3 commits | `RegenBuildsTheClone` (also after a killed regen), `RoundTrip`, `OnlyOurEntries`, `BackportAppends`, `DropsOnlyTheUpstreamed` |
| `moe_preprocess` | 1-2 tokens, 2 choices each, 3 experts, blocks of 2 rows and 2 slots | `RowsApart`, `BlocksUniform`, `TokensReachTheirExperts` in every order of the threads; no deadlock at a barrier |
| `gdn_layer` | 2 requests of up to 5 tokens, 2 lines, 3 admissions, 4 layers | `StatesAreTheRequests`, `OutputsAreTheRequests` |
| `gdn_fallback` | the same, 4 tokens, 2 admissions, both kernels of the fused decode path may raise | **violated**, see section 5 |
| `sampler` | 2 requests, 2 slots, 8 sets of parameters, 3 additions, 2 steps | `HonoursParams`, `StreamsAreOwn`, `NoiseUsedOnce` in both runners, with and without the Qwen routes, and with the process's seed among those requests bring |

Bounds.  With a flag modulo 4, seven barriers wrap it and reuse both parity slots
three times.  The modulus can be small because ranks are never more than one barrier
apart, which `InStep` proves for every modulus.  Two collectives put every kind and
grid before and after every other; for longer programs `Near` of `CarCollectiveProofs`
is proved: no rank starts collective n + 2 before every peer has finished n.  Two capture contexts put a failed one before
an accepted one, or the same descriptor into both.  Two ranks suffice in the runs of the
barrier, the collectives and the capture because the theorems of section 4 hold for any number.
`car_init` uses four, because there the code asks for a supported size (2, 4, 6 or 8).
Three builds are one to leave a tree behind, one to fail on it and one to recover.
In `musa_sync` the two histories are a landing and its revert, told or silent; the three
spots are one for each of two upstream changes, in different files, and one of MUSA's own
in the second's file, and the MUSA commit edits its own alone or with the first change's;
three commits put it below, between and above two picks.  `MaxKilled` lets one regen be
killed before one comes to its end.  A bound of the run's length, not of what matters: a
complete regen unlinks whatever names it does not write, so its result is the same over
the remains of one killed run or of several, and the theorems hold for every bound.
In `moe_preprocess` three experts need two rounds of the scan with one thread that
has no expert, and two tokens of two choices need both ways of counting.  In
`gdn_layer` the kernels' thresholds are scaled down so that sequences of one to five
tokens take every kernel, in one chunk and in two; three admissions hand a used line to
another request while the other line is in use.  In `sampler` the row thresholds are 2, so
batches of one and of two rows fall on both sides; the private stream has room for
three draws, so that it runs out; three additions are two requests and one that comes
back, to a slot the other one had.  The process's seed is 0, and the parameters contain
requests without a seed, with that one and with another.
`MaxRounds`, `MaxOps`, `MaxContexts`, `MaxOpsPerContext`, `MaxRuns`, `MaxStack`, `MaxKilled`,
`MaxTokens`, `MaxAdmissions`, `MaxAdds` and `MaxSteps` occur only in guards that end a run or
in the sets an initial state is chosen from.  Sizes in the capture run are in units of
half the alignment, with a signal that is not a multiple of it; input sizes are
multiples, as `policy.py` 164-166 says of the real ones.

Deadlock is checked wherever the code must go on: `signal_barrier`, `car_collective`,
`capture_arena`, `car_init`, `moe_preprocess`.  It is not checked where the bounds end a
run: after the last build, regeneration, admission, addition or step nothing has to
follow.

Symmetry over requests is used in the runs of `GdnLayer` and `Sampler`, which have no
temporal property and treat requests as a plain set.

Fairness.  Barrier threads, blocks and streams are weakly fair: a kernel's grid
is at most `kMaxBlocks` blocks of one block per processor and stays resident, a
spinning thread re-reads its slot for ever, and the device runs each rank's
stream.  Capture and construction are weakly fair per rank: Python code outside
a collective returns, a blocked broadcast returns once its root has posted, and
a collective that cannot match ends in the group's timeout.  No strong fairness
is used, and nothing is assumed about which rank is faster.  The other modules
state no fairness: what they promise is about the states a step leaves.

## 4. Theorems

All hold for every value of the constants that meets the named assumptions
(`FlagAssumption`, `BoundAssumption`, `CollectiveAssumption`, `ArenaAssumption`,
`SeriesAssumption`, `ChangesAssumption`, `MusaSyncAssumption`, `MoeAssumption`,
`SamplerAssumption`, `InitAssumption`).  TLC evaluates the same assumptions on
every run.  `PlannedOpsFitHolds` has a hypothesis of its own, `SizesAligned`: the
alignment divides every planned size, which `policy.py` states and the instances meet.
Of `ArenaFits` it is the only one to use anything (that a slot has room for the
metadata, without which the code gives the arena up).

* **`SignalBarrierProofs`**.  `TypeCorrect`, then `Invariance` of `BarrierInv`.
  The safety properties are not inductive, as they say nothing about the counters
  from which the next flag comes.  `BarrierInv` adds that a counter equals the number
  of flags taken modulo the width (`CountersMatch`), that the two slots hold the
  last two flags the writer stored (`SlotsMatch`), and that no rank is more than
  one barrier ahead (`InStep`).  The step that needs the argument is `Pass`: equality
  of wrapped flags means equality of barrier numbers because the two sides differ by
  less than the modulus.  `NoEarlyPassHolds` and `FlagNotOverwrittenHolds`
  follow, and `Refinement` maps every step to a step of `RankBarrier` or a stutter.
* **`CarCollectiveProofs`**.  `CollectiveInvariance`.  What a block does is safe only
  because of where its peers are, so the invariant counts barriers: `Passed` is how many
  of its operation's two barriers a row has left, and `Level` says that the barriers two
  ranks have left in a row differ by exactly what `Passed` and, one operation apart, a
  whole operation account for, also where the grids of consecutive kernels differ.  With
  `NoneAhead`, which is what `RankBarrier` promises, a block that reads finds every rank
  in its own operation with the input staged (`Reader`), and a block that collects finds
  its row reduced or the peer before the first barrier of the next operation
  (`Collector`).  `Staged`, `Added`, `Chunks` and `Outputs` say what the buffers then
  hold.  `ResultCorrectHolds`, `StagingNotOverwrittenHolds` and `ScratchNotOverwrittenHolds`
  follow for every number of ranks and every sequence of kernels and grids.
* **`CaptureArenaProofs`**.  `ArenaInvariance`: entries lie between the start of
  the arena and the cursor, each one behind all earlier ones, and cursors only
  grow, so failed captures cannot give a slot back.  `SlotsApartHolds` and
  `EagerApartHolds` follow for every plan, alignment and number of ranks.
  `PlannedOpsFitHolds` needs a count: `RoomInv` says that, as long as a ledger
  holds only planned operations, the cursors are no further than the sum, over the
  descriptors of the plan, of what the operations of each take; a descriptor has at most
  its planned number of operations, so what is still to come fits (`RoomLeft`).
  `TypeCorrect` follows from the same invariant.

  The exchange: `AgreeInvariance`, a rank posts one payload per
  context, before it takes part in any broadcast; what a rank has received from a root
  is what the root posted; so a verdict is the same function of the same payloads
  on every rank.  A descriptor marked as captured has exactly its planned operations, and
  no later launch adds to it, as the descriptor is refused.  `OutcomesAgreeHolds`,
  `CapturedCompleteHolds` and `CapturedSlotsMatchHolds` follow for any number of ranks.
  The last holds also when two ranks accepted the descriptor in different contexts: the
  later acceptance compared both ledgers, and neither has taken an operation since.
* **`CarInitProofs`**.  `InitInvariance`: the availability reduction is every rank's
  last collective on the group, so a reduction that completes for one has been entered
  by all and completes for all; an available rank has both buffers and every mapping,
  and frees them only after a verdict that says some rank is not available.
  `EnabledMappedHolds` and `NothingLeftHolds` follow, for every set of ranks and every
  combination of failures.  The types of `CarInit` are part of it (`InitTypes`).
* **`PatchProofs`**, the build (`PatchSeries`, whose specification is `BuildSpec`, as
  the module is used together with `MusaSync`).  `SeriesInvariance`: at patch n every
  location the patches before n edit is as stage n - 1 has it, and locations no patch
  edits are as in the pin.  `SkipApplied` keeps it because the reverse check looks at
  every edit of the patch; `Stop` may write anything, but only at edited locations, and
  the next build starts its account over.  `DoneIsPatchedHolds` follows.  `BuildTypeOK`
  is a conjunct.  `FreshInvariance` adds that a build from the pin holds the author's
  tree before each patch, and `RepeatInvariance` that in a build over a patched clone a
  location only one patch edits is as that patch leaves it; `FreshBuildCleanHolds` and
  `ConflictOnlyWhereSharedHolds` follow, both action properties.
* **`PatchProofs`**, the authoring loop (`MusaSync`).  `SyncInvariance`: the commits of
  the clone are *sound* (each changes every spot it edits, from the text of the last
  commit before it that edits the spot, or of the base), and both directories hold
  such commits under names of their own, mixed or not.  Neither `RoundTrip` nor
  `RegenBuildsTheClone` is inductive: both speak of a series that is computed, replayed
  and applied in another order than the clone's.  The argument goes through the text of a
  spot (`TextAt`), which says without a run what a stack makes of it.  `RunText`: every
  run of patches yields these texts, so two stacks with the same texts make the same tree.
  `SplitReorders`: regen's order moves a commit before another only if no chain of
  shared files links them, so two commits that share a spot keep their order and every
  text stays (`ReorderedSound`).  `RegenSettles`: in the order of the series, regen finds
  the same parts again, so writing is a fixed point.  `WrittenSeries` and `WrittenOrder`:
  the numbers of the files are their positions, so reading a complete directory in the
  order of its names gives back what was written, and a directory mixed of two runs
  still has one file of a name.  `AmReplay`: git am of a sound series commits all of
  it unchanged; `AmSound`: where it stops at a conflict, what it has committed is sound.
  `RoundTripHolds`, `RegenBuildsTheCloneHolds`, `BackportAppendsHolds`,
  `OnlyOurEntriesHolds` and `SyncTypeCorrect` follow for every upstream branch, every
  set of changes and spots and every length of the stack.

  `DropsOnlyTheUpstreamedHolds` is about the upgrade plan.  It needs of the invariant only
  that an entry writes its own text, on spots of the change it names; the rest is about
  upstream's branch.  `EntersOnTop`: a change's text, or one that stands on it
  (`OnTopOf`), comes to a spot only when the change itself lands, on a text that is not
  among these.  So after the last revert it is nowhere (`UndoneIsGone`), and an entry
  whose content the target is found to have, of a change undone last, got that content
  from an earlier entry of the series with the same change (`AppliedText`).
  `NotRevertedTaken`: if no text of a change is ever taken away without a word, each
  landing before the last is followed by a revert that undoes it, so `_UpstreamHistory`
  finds the change reverted whichever landing it starts from, also in a shallow clone.
* **`MoePreprocessProofs`**.  `MoeInvariance` has a part per kernel.  The block
  histograms hold the counts of the slots that are done.  The scan, whose threads run
  between barriers in any order, holds at each distance the sum over a window of experts,
  so it ends with the prefix sum (`Start(ids, e)`, the rows of all experts before e).
  The fill is padded up to the next expert.  A cursor stands at its expert's start
  plus the number of its slots that have a row.  `RowsApartHolds` then needs only that
  windows of two experts do not meet, `BlocksUniformHolds` that a start is a multiple of
  the block, and `TokensReachTheirExpertsHolds` that a slot's row lies in the window of
  its expert.  `TypeCorrect` bounds the rows by the size of the output.
* **`SumLemmas`**, lemmas the other modules cite.  `SumAdd`: the folds of the models are sums, whatever order they
  take the elements in.  The provers have no induction over data that takes a predicate
  as a parameter, so the lemmas here do it over a set (`SetInduction`, by the least
  number outside the set), and `RunsExist` gives the run of a recursive function.
* **`RunnerProofs`**, sampling (`Sampler`).  `SamplerInvariance`: a slot of the worker
  holds its owner's parameters, seed and generator, no two requests share one, and in the legacy runner a
  generator stands where its request's output ends.  Given that, each route is shown
  to treat each row as its own request asks (`Routes`): what it leaves out is off for
  every row (`ActiveCovers`), its scalars are everybody's value, and its noise comes from
  the row's own holder.  `HonoursParamsHolds` and `StreamsAreOwnHolds` follow for any
  numbers of requests, slots and rows, and any thresholds.
  `NoiseInvariance` adds where each kept token's noise came
  from: the next numbers of the process's or the private generator, the stream of a slot
  or of a legacy generator at the token's index, or the next draw of a slot's
  generator.  Every route takes its noise from these (`FreshRoutes`), the step moves each
  past what it gave out, and they meet only where `MayShare` says (`OldMeetsNew`,
  `NewMeetsNew`): the two shared generators, which serve requests without a seed alone,
  differ in their kernels; a stream of its own that has their seed belongs to a request
  that brought the process's (`ProcessSeedIsBrought`); and random seeds of slots come with
  the number of the addition, which no two requests share (`SlotsMeet`).
  `NoiseUsedOnceHolds` follows, for any seed of the process.

* **`RunnerProofs`**, the gated delta net layer (`GdnLayer`, whose specification is
  `LayerSpec`, as the module is used together with `Sampler`).  `GdnInvariance`: running
  requests have lines of their own; a line keeps its columns; the line of a request that
  has begun holds the request's last inputs and the history of all its tokens, while that
  of a request admitted and not yet begun may hold anything; and what a request has
  emitted are the outputs of its tokens.  Most of the argument is about the kernels.
  `FlattenIs`: in a packed batch the rows between two starts are one request's tokens.
  `WindowIs`: the window of a token is the one of its definition, in whichever chunk
  it is computed, as a chunk after the first is at least `width - 1` long.  `StateAfterIs`,
  `HeadStateAfterIs` and `ShiftedIs`: each way of moving a line up leaves the last
  `width - 1` inputs, also for a row shorter than that.  So the general kernels, the split
  ones and the two for decoding all do the same to lines and windows, and `FwdIs` and
  `UpdateIs` need not ask which one the thresholds chose; the length the host believes
  only has to be no less than the longest row (`LongestIs`).  `StoredIs`, `RecurredIs`,
  `AllocatedIs` and `AdvanceIs` carry this through the rest of a step, and `StepKeeps`
  through whichever recurrent kernel ran.  `GdnTypes`, `GdnStatesHold` and
  `GdnOutputsHold` follow for every finite set of requests, any number of lines and
  tokens, layers of width 2 to 5 in every form, any thresholds, chunks of at least
  `width - 1` and any captured sizes.  They assume `FallbackMayRaise = FALSE`: where both
  kernels of a decode step raise, the code does not keep the states (section 5).

Every invariant and every action property of a passing run is a theorem.  Only the
liveness properties (`EveryRoundCompletes`, `AllComplete`, `EveryContextEnds`,
`EveryRankDecides`) are model-checked only, as the proof system handles neither fairness
nor ENABLED.  `GeneralPathTakesOver` without its assumption is a finding and false; with
it, it is a conjunct of `StatesAreTheRequests`.

## 5. What the runs found

* **A failure before the handle exchange is not announced to the peers**
  (`car_init_failure`).  PY 1798 speaks of a communicator that is disabled "because
  a peer rank failed initialization".  When a rank's malloc, memset or IPC handle
  raises, it enters the availability `all_reduce` (PY 1793) while its peers are in
  `all_gather_object` (PY 396) of the same group.  The peers' collective cannot match;
  after the timeout their next one is one position behind, and the `all_reduce`
  is outside the `try`, so the timeout leaves the constructor.  When the failure comes
  after the last exchange, the agreement works (`EveryRankDecides`).
* **The series is idempotent only patch by patch** (`patch_series_again`).  BA 6
  and `docs/mdm-developer-guide.md` 39 call the application idempotent.  A patch
  whose lines a later patch edits again neither reverses nor applies on the
  patched tree, so a second run over the same clone is a conflict.
  `ConflictOnlyWhereShared` bounds the damage: every patch that shares no location
  with another is found applied.  The series
  has such pairs (0078 and 0108).  A normal build resets the clone first and is
  not affected (`FreshBuildClean`), a build with SKIP_THIRD_PARTY=1 is.
* **The general decode path starts on a state that has moved on** (`gdn_fallback`).
  The fused decode path is opt-in (`VLLM_MUSA_ENABLE_MATE_GDN_DECODE=1`, GDN 130-132; 287
  returns before the convolution otherwise) and off by default.  Where it is enabled and
  the fused recurrent update raises as well as the mate kernel, `_try_mate_decode`
  returns False "using the general decode path" (GDN 464), but the convolution
  (GDN 321-470) has already advanced `conv_state` in place.  The upstream path advances
  it again, and the request's later outputs are made of the wrong inputs without any
  error.  The prefill path does not have the problem: its fallback keeps the convolved
  rows (`StatesAreTheRequests`).

Met while reading, without a run of their own: a request that brings the process's seed
shares noise with requests that bring none (section 2, Sampler).  After a conflict a second `rebase` does not
start over, as its message (SYNC 2184) and `docs/mdm-developer-guide.md` 308 say.  The
forced checkout (SYNC 2135) leaves git's unfinished `am` behind, and the first `git am` of
the new run stops at once; `Rebase` of `MusaSync` does the same.  In `sampler`, a seeded row is drawn by Gumbel or by exponential noise depending
on its companions, so its tokens are reproducible only for the same batches; the properties
state what holds, the seed and the position.  In the same way the order in which top-k,
top-p and min_p are applied depends on the route (SMP 142-156), which the model does not
tell apart.

## 6. Plan

Order of further work:

1. `GraphInputs`: capture with registered inputs (PY 1021-1138, 1388-1402):
   rows reserved during capture and filled at its end, the exchange a failed
   rank skips (PY 685), the caches of handles and mappings across captures.
2. `CarShutdown`, composed with the mappings of `CarInit`: `close()` on one rank
   while peers run.
3. `MambaPools`: ownership and admission in the patched KV cache manager, with an
   abstract pool as specification.
4. `JitBuild`: processes, the file lock, a death inside the build, loading.
5. `OutputStreams`: rotating copy streams and fork/join of auxiliary streams.
6. Operators for the pure decision tables (contract resolution, MoE dispatch), and the
   sharded logits of the sampler over `CarCollective`'s all-gather.

Nothing the runs check is left to prove but liveness; a new module brings its own
theorems.
