------------------------------ MODULE Sampler ------------------------------
(* The choice of a sampling route for a batch, and the random streams the  *)
(* routes draw from (topk_topp_sampler.py).                                *)
(*                                                                         *)
(* vLLM has two model runners.  In the legacy one a seeded request owns a  *)
(* generator for as long as it lives; in the worker (V2) one the sampling  *)
(* state is kept in slots, which requests take and give back.  For every   *)
(* step the hooks look at the whole batch and take one of several routes,  *)
(* each with its own kernels, source of noise and short cuts.  A request   *)
(* must not notice its companions: its token is drawn under its own        *)
(* parameters and from its own stream.                                     *)
(*                                                                         *)
(* Logits are represented by what was applied to them, and noise by the    *)
(* kernel that makes it, its seed and its position.  Tensors live on the   *)
(* device, and logprobs are raw.  Not represented: logits sharded over     *)
(* ranks, speculative tokens, penalties and other logits processors.       *)
EXTENDS Naturals, Sequences, FiniteSets

CONSTANTS
  Requests,
  Slots,                \* of the worker's SamplingStates
  ParamChoices,         \* the sampling parameters explored
  GumbelMinRows,        \* 4 in the code, for Gumbel and for scalar top_k with top_p
  UnfilteredMinRows,    \* _QWEN_LEGACY_UNFILTERED_GUMBEL_MIN_ROWS
  UnfilteredMinOffset,  \* _QWEN_LEGACY_UNFILTERED_GUMBEL_MIN_OFFSET, in draws
  PrivateLimit,         \* draws the private generator's offset has room for
  ProcessSeed,          \* torch.musa.initial_seed(), vLLM's --seed: requests may bring it too
  MaxAdds, MaxSteps     \* bounds on additions and sampling steps

Filters == {"top_k", "top_p", "min_p"}
Fields == Filters \cup {"temperature"}
Neutral == [f \in Fields |-> IF f = "temperature" THEN "1" ELSE "off"]
Wanted(p) == [f \in Fields |-> p[f]]

\* The seeds requests may bring, 0 among them; none; and those drawn at random for
\* requests without one, taken to differ from each other and from all the rest.
UserSeeds == 0 .. 99
NoSeed == 100
FirstRandomSeed == 101

\* SamplingParams turns the filters of a greedy request off.
SamplerAssumption ==
  /\ \A p \in ParamChoices : /\ DOMAIN p = Fields \cup {"seed"}
                             /\ p.seed \in UserSeeds \cup {NoSeed}
                             /\ p.temperature = "0" => \A f \in Filters : p[f] = "off"
  /\ ProcessSeed \in UserSeeds
  /\ Slots \subseteq Nat \ {0} /\ Requests \cap Slots = {}
  /\ {GumbelMinRows, UnfilteredMinRows} \subseteq Nat \ {0}
  /\ {UnfilteredMinOffset, PrivateLimit, MaxAdds, MaxSteps} \subseteq Nat
ASSUME SamplerAssumption

VARIABLES
  runner,      \* "legacy" or "worker"
  qwen,        \* the contract prefers the Qwen routes, and the vocabulary is one of theirs
  params,      \* of each request
  slot,        \* the slot of a request that is in the batch, or 0
  added,       \* additions so far
  stay,        \* the addition a request came in with
  tokens,      \* tokens each request has kept
  states,      \* SamplingStates: parameters by slot
  seeds,       \* SamplingStates.seeds, by slot
  generators,  \* by request (legacy) and by slot (musa_generators)
  private,     \* draws of _musa_qwen_unfiltered_generator
  process,     \* draws of the process's generator
  steps,
  drawn        \* every token kept, with the filters and the noise it was drawn with

vars == << runner, qwen, params, slot, added, stay, tokens, states, seeds, generators,
           private, process, steps, drawn >>

SeededGenerator(seed) == [seed |-> seed, draws |-> 0]
NoGenerator == SeededGenerator(NoSeed)
InBatch == {r \in Requests : slot[r] # 0}

Init ==
  /\ runner \in {"legacy", "worker"} /\ qwen \in BOOLEAN
  /\ params \in [Requests -> ParamChoices]
  /\ slot = [r \in Requests |-> 0]
  /\ added = 0 /\ stay = [r \in Requests |-> 0]
  /\ tokens = [r \in Requests |-> 0]
  /\ states = [s \in Slots |-> Neutral]
  /\ seeds = [s \in Slots |-> 0]
  /\ generators = [x \in Requests \cup Slots |-> NoGenerator]
  /\ private = 0 /\ process = 0 /\ steps = 0
  /\ drawn = {}

-----------------------------------------------------------------------------
(* Requests come, leave, and come back after a preemption.                 *)

\* A faulty variant: a request without a seed leaves the slot's generator alone.
SlotGeneratorNoPop(r, s) ==
  IF params[r].seed = NoSeed THEN generators[s] ELSE SeededGenerator(params[r].seed)

SlotGenerator(r, s) == SeededGenerator(params[r].seed)

\* SamplingStates.add_request: a slot takes the parameters of its new owner.
AddToStates(r, s) ==
  /\ states' = [states EXCEPT ![s] = Wanted(params[r])]
  /\ seeds' = [seeds EXCEPT ![s] = IF params[r].seed = NoSeed THEN FirstRandomSeed + added
                                                            ELSE params[r].seed]
  /\ generators' = [generators EXCEPT ![s] = SlotGenerator(r, s)]

\* The legacy runner makes the generator with the request and keeps it there.
AddToRunner(r) ==
  /\ generators' = IF stay[r] = 0 /\ params[r].temperature # "0"
                     THEN [generators EXCEPT ![r] = SeededGenerator(params[r].seed)]
                     ELSE generators
  /\ UNCHANGED << states, seeds >>

Add(r) ==
  /\ slot[r] = 0 /\ added < MaxAdds
  /\ \E s \in Slots \ {slot[q] : q \in Requests} :
       /\ slot' = [slot EXCEPT ![r] = s]
       /\ IF runner = "worker" THEN AddToStates(r, s) ELSE AddToRunner(r)
  /\ added' = added + 1 /\ stay' = [stay EXCEPT ![r] = added + 1]
  /\ UNCHANGED << runner, qwen, params, tokens, private, process, steps, drawn >>

Leave(r) ==
  /\ slot[r] # 0
  /\ slot' = [slot EXCEPT ![r] = 0]
  /\ UNCHANGED << runner, qwen, params, added, stay, tokens, states, seeds, generators,
                  private, process, steps, drawn >>

-----------------------------------------------------------------------------
(* What the hooks know of a batch, a sequence of requests.                 *)
Batches ==
  UNION { {b \in [1 .. n -> InBatch] : \A i, j \in 1 .. n : b[i] = b[j] => i = j}
          : n \in 1 .. Cardinality(InBatch) }
Holder(r) == IF runner = "worker" THEN slot[r] ELSE r
Generator(r) == generators[Holder(r)]
Seeded(b) == {i \in DOMAIN b : Generator(b[i]).seed # NoSeed}
HasUserSeed(r) == IF runner = "worker" THEN seeds[slot[r]] \in UserSeeds
                                       ELSE Generator(r).seed # NoSeed
UserSeeded(b) == {i \in DOMAIN b : HasUserSeed(b[i])}
Param(r) == IF runner = "worker" THEN states[slot[r]] ELSE Wanted(params[r])
AllRows(b, f, v) == \A i \in DOMAIN b : Param(b[i])[f] = v
Greedy(b) == {i \in DOMAIN b : Param(b[i]).temperature = "0"}

\* A filter none of the rows uses is passed as None.
Active(b) == {f \in Filters : ~ AllRows(b, f, "off")}

\* A faulty variant: the first row decides.
UniformTopKOfFirst(b) == Param(b[1]).top_k = "50"

UniformTopK(b) == AllRows(b, "top_k", "50")

-----------------------------------------------------------------------------
(* Rows of logits, and noise for them.                                     *)
Filtered(b, applied, scalar) ==
  [i \in DOMAIN b |->
     [f \in Fields |-> IF f \notin applied THEN Neutral[f]
                       ELSE IF f = "top_k" /\ scalar THEN "50"
                       ELSE Param(b[i])[f]]]
Raw(b) == Filtered(b, {}, FALSE)

Noise(kernel, seed, position) == [kernel |-> kernel, seed |-> seed, position |-> position]

\* Rows with a generator draw from it, the others from the process's, whose
\* draws are numbered by row: a row that leaves its number unused is a gap.
OwnNoise(b, kernel) ==
  [i \in DOMAIN b |->
     IF i \in Seeded(b) THEN Noise(kernel, Generator(b[i]).seed, Generator(b[i]).draws)
                        ELSE Noise("exponential", ProcessSeed, process + i - 1)]
ProcessNoise(b, kernel) == [i \in DOMAIN b |-> Noise(kernel, ProcessSeed, process + i - 1)]
SlotNoise(b) == [i \in DOMAIN b |-> Noise("gumbel", seeds[slot[b[i]]], tokens[b[i]])]

\* The private generator starts from the process's seed, and its rows go through the
\* kernel that seeded rows use.
PrivateNoise(b) == [i \in DOMAIN b |-> Noise("gumbel", ProcessSeed, private + i - 1)]

\* What a route leaves: the rows it sampled from, their noise, the rows whose
\* generators moved, and the draws taken from the two shared generators.
Result(rows, noise, moved, fromPrivate, fromProcess) ==
  [rows |-> rows, noise |-> noise, moved |-> moved,
   private |-> fromPrivate, process |-> fromProcess]

\* torch.where puts the greedy tokens over the sampled ones.
WithGreedy(b, result) ==
  [result EXCEPT !.noise = [i \in DOMAIN b |-> IF i \in Greedy(b) THEN Noise("greedy", 0, 0)
                                                                 ELSE result.noise[i]]]
GreedyResult(b) == WithGreedy(b, Result(Raw(b), ProcessNoise(b, "native"), {}, 0, 0))

Multinomial(b, rows) == Result(rows, OwnNoise(b, "exponential"), Seeded(b), 0, Len(b))
Native(b, rows) == Result(rows, ProcessNoise(b, "native"), {}, 0, Len(b))

-----------------------------------------------------------------------------
(* The legacy runner.                                                      *)
LegacyUnfiltered(b, logprobs) ==
  /\ qwen /\ ~ logprobs
  /\ AllRows(b, "temperature", "1") /\ Active(b) = {} /\ Seeded(b) = {}
  /\ private + Len(b) <= PrivateLimit

\* A faulty variant: the offset advances as for one row.
PrivateDrawsOne(b) == 1

PrivateDraws(b) == Len(b)

PrivateGumbel(b) == Result(Raw(b), PrivateNoise(b), {}, PrivateDraws(b), 0)

\* Seeded rows are drawn in one Gumbel call, the others as before.
LegacyGumbel(b, logprobs) ==
  /\ qwen /\ ~ logprobs /\ Len(b) >= GumbelMinRows
  /\ Greedy(b) = {} /\ "top_p" \notin Active(b) /\ Seeded(b) # {}
  /\ \/ "top_k" \in Active(b)
     \/ /\ Len(b) >= UnfilteredMinRows /\ Seeded(b) = DOMAIN b
        /\ \A i \in DOMAIN b : Generator(b[i]).draws >= UnfilteredMinOffset

\* When a generator cannot be advanced, those advanced before are set back and the
\* step raises: nothing is drawn.
Partitioned(b, rows) ==
  Result(rows, OwnNoise(b, "gumbel"), Seeded(b), 0, Len(b))

\* Dividing by a temperature that is one for all rows is skipped.
LegacyTemperature(b) ==
  IF qwen /\ AllRows(b, "temperature", "1") THEN {} ELSE {"temperature"}

\* The native sampler takes min_p itself; other routes find it applied.
LegacyRows(b, logprobs) ==
  Filtered(b, LegacyTemperature(b) \cup Active(b),
           qwen /\ UniformTopK(b) /\ (Seeded(b) = {} \/ LegacyGumbel(b, logprobs)))

LegacySample(b, logprobs) ==
  IF LegacyUnfiltered(b, logprobs) THEN PrivateGumbel(b)
  ELSE IF Greedy(b) = DOMAIN b THEN GreedyResult(b)
  ELSE WithGreedy(b,
         IF LegacyGumbel(b, logprobs) THEN Partitioned(b, LegacyRows(b, logprobs))
         ELSE IF Seeded(b) # {} THEN Multinomial(b, LegacyRows(b, logprobs))
         ELSE Native(b, LegacyRows(b, logprobs)))

-----------------------------------------------------------------------------
(* The worker runner.                                                      *)
\* needs_logits_processing, which the pinned vLLM sets when a request is added.
NeedsProcessing(b) == \E i \in DOMAIN b \ Greedy(b) : Param(b[i]) # Neutral

WorkerUnfiltered(b, logprobs) ==
  /\ qwen /\ ~ logprobs /\ UserSeeded(b) = {}
  /\ AllRows(b, "temperature", "1") /\ Active(b) = {} /\ ~ NeedsProcessing(b)

V2Gumbel(b, logprobs) ==
  /\ qwen /\ ~ logprobs /\ UserSeeded(b) = DOMAIN b
  /\ AllRows(b, "temperature", "1") /\ AllRows(b, "top_k", "50")
  /\ AllRows(b, "top_p", "off") /\ AllRows(b, "min_p", "5%")

\* The pinned vLLM's own processing, without top_k and top_p, then k = 50.
V2Rows(b) == Filtered(b, {"temperature", "min_p", "top_k"}, TRUE)

\* Processing up to the temperature, which the pinned vLLM skips like the
\* code when no row needs any; then the filters some row uses.
WorkerRows(b) ==
  Filtered(b, (IF NeedsProcessing(b) THEN {"temperature"} ELSE {}) \cup Active(b),
           /\ qwen /\ UniformTopK(b)
           /\ ("top_p" \notin Active(b) \/ Len(b) >= GumbelMinRows))

UpstreamRows(b) == Filtered(b, Fields, FALSE)
Upstream(b) == WithGreedy(b, Result(UpstreamRows(b), SlotNoise(b), {}, 0, 0))

WorkerSample(b, logprobs) ==
  IF WorkerUnfiltered(b, logprobs) THEN Result(Raw(b), SlotNoise(b), {}, 0, 0)
  ELSE IF V2Gumbel(b, logprobs) THEN Result(V2Rows(b), SlotNoise(b), {}, 0, 0)
  ELSE IF Greedy(b) # {} THEN Upstream(b)
  ELSE IF UserSeeded(b) # {} THEN Multinomial(b, WorkerRows(b))
  ELSE Native(b, WorkerRows(b))

-----------------------------------------------------------------------------
(* A step of the engine.  The sampled tokens of requests whose prompt is   *)
(* not yet computed are thrown away; the legacy runner then sets their     *)
(* generators back.                                                        *)
Sample(b, logprobs) ==
  IF runner = "worker" THEN WorkerSample(b, logprobs) ELSE LegacySample(b, logprobs)

Advanced(b, result, kept) ==
  LET moved == {Holder(b[i]) : i \in {i \in result.moved : runner = "worker" \/ b[i] \in kept}}
  IN [x \in DOMAIN generators |->
        IF x \in moved THEN [generators[x] EXCEPT !.draws = @ + 1] ELSE generators[x]]

Step ==
  /\ steps < MaxSteps
  /\ \E b \in Batches, kept \in SUBSET InBatch, logprobs \in BOOLEAN :
       LET result == Sample(b, logprobs) IN
       /\ kept \subseteq {b[i] : i \in DOMAIN b}
       /\ generators' = Advanced(b, result, kept)
       /\ private' = private + result.private
       /\ process' = process + result.process
       /\ tokens' = [r \in Requests |-> IF r \in kept THEN tokens[r] + 1 ELSE tokens[r]]
       /\ drawn' = drawn \cup
            { [request |-> b[i], stay |-> stay[b[i]], index |-> tokens[b[i]],
               filters |-> result.rows[i], noise |-> result.noise[i]]
              : i \in {i \in DOMAIN b : b[i] \in kept} }
  /\ steps' = steps + 1
  /\ UNCHANGED << runner, qwen, params, slot, added, stay, states, seeds >>

Next == \/ \E r \in Requests : Add(r) \/ Leave(r)
        \/ Step

Spec == Init /\ [][Next]_vars

-----------------------------------------------------------------------------
(* Properties.                                                             *)

\* A token is the greedy one for greedy requests, and every other one is drawn
\* under exactly the temperature, top_k, top_p and min_p its own request asked
\* for, whatever the rest of its batch asks for: the short cuts for uniform
\* batches and the filters passed as None are never taken at a row's expense.
HonoursParams ==
  \A d \in drawn :
    IF params[d.request].temperature = "0" THEN d.noise.kernel = "greedy"
    ELSE d.noise.kernel # "greedy" /\ d.filters = Wanted(params[d.request])

\* A request with a seed draws from that seed's stream alone, on the legacy
\* runner at the position of the token in its output, through preemptions and
\* steps whose token is thrown away; a request without one draws under the
\* process's seed or one drawn at random for it, and never under a seed that came
\* with a request, such as the previous owner of its slot, unless the process has
\* that seed as well.
StreamsAreOwn ==
  \A d \in drawn :
    LET seed == params[d.request].seed IN
    d.noise.kernel # "greedy" =>
      IF seed = NoSeed THEN d.noise.seed = ProcessSeed \/ d.noise.seed >= FirstRandomSeed
      ELSE /\ d.noise.seed = seed
           /\ runner = "legacy" => d.noise.position = d.index

\* Two tokens may share their noise when their requests brought one seed, in the
\* worker also when one request came with it twice, and when one request brought
\* the seed the process was given and the other brought none: the process's streams
\* are not kept apart from the streams of its seed.
MayShare(d, e) ==
  \/ /\ params[d.request].seed # NoSeed /\ params[d.request].seed = params[e.request].seed
     /\ \/ d.request # e.request
        \/ runner = "worker" /\ d.stay # e.stay
  \/ {params[d.request].seed, params[e.request].seed} = {NoSeed, ProcessSeed}

\* No two tokens share their noise, apart from those that MayShare names: the
\* private stream, the process's and each request's own move past everything they
\* gave out, on every route and whatever steps are thrown away, so requests without
\* a seed never share noise with each other.
NoiseUsedOnce ==
  \A d, e \in drawn :
    d # e /\ d.noise = e.noise /\ d.noise.kernel # "greedy" => MayShare(d, e)
=============================================================================
