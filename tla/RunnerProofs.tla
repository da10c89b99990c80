--------------------------- MODULE RunnerProofs ---------------------------
(* What the model runner keeps for its requests, in sampling and in the    *)
(* gated delta net layers, for any number of requests, slots, lines and    *)
(* rows, any thresholds and any sampling parameters.                       *)
(*                                                                         *)
(* Every token is drawn under its own request's parameters and from its    *)
(* own stream.  The invariant ties what a route looks up to the request it *)
(* looks it up for: the worker's slots hold their owner's parameters and   *)
(* seed, and a legacy generator stands where its request's output ends.    *)
(*                                                                         *)
(* No noise is used twice.  Every route takes a row's noise from one of    *)
(* five places: the next numbers of one of the two shared generators, for  *)
(* rows without a seed, the stream of a slot or of a legacy generator at   *)
(* the row's own token, or the next draw of a slot's generator.  Each of   *)
(* them is behind what it gives out by the time the step ends.  Two places *)
(* differ in kernel or seed, except that a request may bring the seed of   *)
(* the shared generators: it and the requests without one MayShare.        *)
(*                                                                         *)
(* The line of a request in a gated delta net layer holds the request's    *)
(* last inputs and the history of all its tokens.  The convolution first:  *)
(* a packed batch gives back each row's tokens, a window is the right one  *)
(* in whichever chunk of whichever kernel it is computed, and each way of  *)
(* moving a line up leaves the row's last inputs on it, so both choices of *)
(* a kernel (FwdIs, UpdateIs) compute the same.  Then the steps: whatever  *)
(* kernels run and raise, a step takes the lines of its rows from the old  *)
(* histories to the new ones and leaves all others alone.                  *)
EXTENDS Sampler, GdnLayer, SumLemmas, SequenceTheorems

Generators == [seed : Nat, draws : Nat]

Types ==
  /\ runner \in {"legacy", "worker"}
  /\ params \in [Requests -> ParamChoices]
  /\ slot \in [Requests -> Slots \cup {0}]
  /\ added \in Nat
  /\ stay \in [Requests -> Nat]
  /\ tokens \in [Requests -> Nat]
  /\ states \in [Slots -> {Wanted(p) : p \in ParamChoices} \cup {Neutral}]
  /\ seeds \in [Slots -> Nat]
  /\ generators \in [Requests \cup Slots -> Generators]

SlotsApart == \A r, q \in Requests : slot[r] # 0 /\ slot[r] = slot[q] => r = q

\* In the worker, a slot is its owner's.
SlotsAreOwners ==
  runner = "worker" =>
    \A r \in Requests :
      slot[r] # 0 =>
        /\ states[slot[r]] = Wanted(params[r])
        /\ generators[slot[r]].seed = params[r].seed
        /\ IF params[r].seed = NoSeed THEN seeds[slot[r]] >= FirstRandomSeed
                                      ELSE seeds[slot[r]] = params[r].seed

\* In the legacy runner, a request's generator is made with it and stands at
\* the end of its output.
RequestSeed(r) == IF params[r].temperature = "0" THEN NoSeed ELSE params[r].seed
GeneratorsAreOwners ==
  /\ \A r \in Requests : stay[r] = 0 => slot[r] = 0 /\ tokens[r] = 0
  /\ runner = "legacy" =>
       \A r \in Requests :
         /\ generators[r].seed = IF stay[r] = 0 THEN NoSeed ELSE RequestSeed(r)
         /\ generators[r].seed # NoSeed => generators[r].draws = tokens[r]

StateInv == Types /\ SlotsApart /\ SlotsAreOwners /\ GeneratorsAreOwners
SamplerInv == StateInv /\ HonoursParams /\ StreamsAreOwn

\* What a route has to do for each row of a batch.
RowIsOwn(r, row, noise) ==
  /\ params[r].temperature = "0" => noise.kernel = "greedy"
  /\ params[r].temperature # "0" =>
       /\ noise.kernel # "greedy"
       /\ row = Wanted(params[r])
       /\ IF params[r].seed = NoSeed THEN noise.seed = ProcessSeed \/ noise.seed >= FirstRandomSeed
          ELSE /\ noise.seed = params[r].seed
               /\ runner = "legacy" => noise.position = tokens[r]
RouteIsOwn(b, result) ==
  \A i \in DOMAIN b :
    /\ RowIsOwn(b[i], result.rows[i], result.noise[i])
    /\ runner = "legacy" /\ generators[b[i]].seed # NoSeed => i \in result.moved

-----------------------------------------------------------------------------
(* Parameters.                                                             *)

LEMMA NeutralIs ==
  /\ Neutral["temperature"] = "1" /\ Neutral["top_k"] = "off"
  /\ Neutral["top_p"] = "off" /\ Neutral["min_p"] = "off"
BY DEF Neutral, Fields, Filters

LEMMA WantedIs ==
  ASSUME NEW p
  PROVE  /\ Wanted(p)["temperature"] = p["temperature"] /\ Wanted(p)["top_k"] = p["top_k"]
         /\ Wanted(p)["top_p"] = p["top_p"] /\ Wanted(p)["min_p"] = p["min_p"]
BY DEF Wanted, Fields, Filters

\* A batch looks its parameters up where the request put them.
LEMMA Lookup ==
  ASSUME StateInv, NEW b \in Batches, NEW i \in DOMAIN b
  PROVE  /\ b[i] \in Requests /\ slot[b[i]] # 0 /\ stay[b[i]] # 0
         /\ Param(b[i]) = Wanted(params[b[i]])
         /\ params[b[i]] \in ParamChoices /\ params[b[i]].seed \in UserSeeds \cup {NoSeed}
         /\ runner = "worker" => Generator(b[i]).seed = params[b[i]].seed
         /\ runner = "legacy" => /\ Generator(b[i]) = generators[b[i]]
                                 /\ Generator(b[i]).seed = RequestSeed(b[i])
<1>1. b[i] \in InBatch
  BY DEF Batches
<1>2. b[i] \in Requests /\ slot[b[i]] # 0 /\ stay[b[i]] # 0
  BY <1>1 DEF InBatch, StateInv, GeneratorsAreOwners
<1>3. Param(b[i]) = Wanted(params[b[i]])
  BY <1>2 DEF Param, StateInv, SlotsAreOwners, Types
<1>4. params[b[i]] \in ParamChoices /\ params[b[i]].seed \in UserSeeds \cup {NoSeed}
  BY <1>2, SamplerAssumption DEF StateInv, Types, SamplerAssumption
<1>5. runner = "worker" => Generator(b[i]).seed = params[b[i]].seed
  BY <1>2 DEF StateInv, SlotsAreOwners, Generator, Holder
<1>6. runner = "legacy" => /\ Generator(b[i]) = generators[b[i]]
                           /\ Generator(b[i]).seed = RequestSeed(b[i])
  BY <1>2 DEF StateInv, GeneratorsAreOwners, Generator, Holder
<1> QED
  BY <1>2, <1>3, <1>4, <1>5, <1>6

\* Rows come out as wanted if what is not applied was not asked for, and the
\* scalar top_k stands for everybody's.
LEMMA FilteredAsWanted ==
  ASSUME NEW b, NEW i \in DOMAIN b, NEW applied, NEW scalar \in BOOLEAN, NEW p,
         Param(b[i]) = Wanted(p),
         \A f \in Fields \ applied : p[f] = Neutral[f],
         scalar /\ "top_k" \in applied => p["top_k"] = "50"
  PROVE  Filtered(b, applied, scalar)[i] = Wanted(p)
<1>1. \A f \in Fields : Param(b[i])[f] = p[f]
  BY DEF Wanted
<1>2. Filtered(b, applied, scalar)[i] =
        [f \in Fields |-> IF f \notin applied THEN Neutral[f]
                          ELSE IF f = "top_k" /\ scalar THEN "50" ELSE Param(b[i])[f]]
  BY DEF Filtered
<1>3. \A f \in Fields : (IF f \notin applied THEN Neutral[f]
                         ELSE IF f = "top_k" /\ scalar THEN "50" ELSE Param(b[i])[f]) = p[f]
  BY <1>1
<1> QED
  BY <1>2, <1>3 DEF Wanted

\* Of the filters, those a route leaves out are off for every row.
LEMMA ActiveCovers ==
  ASSUME StateInv, NEW b \in Batches, NEW i \in DOMAIN b, NEW f \in Filters \ Active(b)
  PROVE  params[b[i]][f] = Neutral[f]
<1>1. AllRows(b, f, "off")
  BY DEF Active
<1>2. Param(b[i])[f] = "off" /\ Param(b[i]) = Wanted(params[b[i]])
  BY <1>1, Lookup DEF AllRows
<1> QED
  BY <1>2 DEF Wanted, Neutral, Fields, Filters

-----------------------------------------------------------------------------
(* Noise.                                                                  *)

LEMMA NoiseParts ==
  ASSUME NEW k, NEW s, NEW p
  PROVE  Noise(k, s, p).kernel = k /\ Noise(k, s, p).seed = s /\ Noise(k, s, p).position = p
BY DEF Noise

LEMMA ResultParts ==
  ASSUME NEW rows, NEW noise, NEW moved, NEW m, NEW n
  PROVE  /\ Result(rows, noise, moved, m, n).rows = rows
         /\ Result(rows, noise, moved, m, n).noise = noise
         /\ Result(rows, noise, moved, m, n).moved = moved
BY DEF Result

NoiseIsOwn(r, noise) ==
  params[r].temperature # "0" =>
    /\ noise.kernel # "greedy"
    /\ IF params[r].seed = NoSeed THEN noise.seed = ProcessSeed \/ noise.seed >= FirstRandomSeed
       ELSE /\ noise.seed = params[r].seed
            /\ runner = "legacy" => noise.position = tokens[r]

LEMMA OwnNoiseIsOwn ==
  ASSUME StateInv, NEW b \in Batches, NEW i \in DOMAIN b, NEW k \in {"exponential", "gumbel"}
  PROVE  NoiseIsOwn(b[i], OwnNoise(b, k)[i])
<1> DEFINE r == b[i]
<1>1. CASE i \in Seeded(b)
  <2>1. OwnNoise(b, k)[i] = Noise(k, Generator(r).seed, Generator(r).draws)
    BY <1>1 DEF OwnNoise
  <2>2. params[r].temperature # "0" => Generator(r).seed = params[r].seed
    BY Lookup DEF RequestSeed, StateInv, Types
  <2>3. Generator(r).seed # NoSeed
    BY <1>1 DEF Seeded
  <2>4. runner = "legacy" => Generator(r).draws = tokens[r]
    BY <2>3, Lookup DEF StateInv, GeneratorsAreOwners
  <2> QED
    BY <2>1, <2>2, <2>3, <2>4, NoiseParts DEF NoiseIsOwn
<1>2. CASE i \notin Seeded(b)
  <2>1. OwnNoise(b, k)[i] = Noise("exponential", ProcessSeed, process + i - 1)
    BY <1>2 DEF OwnNoise
  <2>2. Generator(r).seed = NoSeed
    BY <1>2 DEF Seeded
  <2>3. params[r].temperature # "0" => params[r].seed = NoSeed
    BY <2>2, Lookup DEF RequestSeed, StateInv, Types
  <2> QED
    BY <2>1, <2>3, NoiseParts DEF NoiseIsOwn
<1> QED
  BY <1>1, <1>2

\* The two shared generators, for rows without a seed.
LEMMA SharedNoiseIsOwn ==
  ASSUME StateInv, NEW b \in Batches, NEW i \in DOMAIN b,
         params[b[i]].temperature # "0" => params[b[i]].seed = NoSeed
  PROVE  NoiseIsOwn(b[i], ProcessNoise(b, "native")[i]) /\ NoiseIsOwn(b[i], PrivateNoise(b)[i])
<1>1. /\ ProcessNoise(b, "native")[i] = Noise("native", ProcessSeed, process + i - 1)
      /\ PrivateNoise(b)[i] = Noise("gumbel", ProcessSeed, private + i - 1)
  BY DEF ProcessNoise, PrivateNoise
<1> QED
  BY <1>1, NoiseParts DEF NoiseIsOwn

LEMMA SlotNoiseIsOwn ==
  ASSUME StateInv, NEW b \in Batches, NEW i \in DOMAIN b, runner = "worker"
  PROVE  NoiseIsOwn(b[i], SlotNoise(b)[i])
<1>1. SlotNoise(b)[i] = Noise("gumbel", seeds[slot[b[i]]], tokens[b[i]])
  BY DEF SlotNoise
<1>2. /\ b[i] \in Requests /\ slot[b[i]] # 0
  BY Lookup
<1>3. IF params[b[i]].seed = NoSeed THEN seeds[slot[b[i]]] >= FirstRandomSeed
                                    ELSE seeds[slot[b[i]]] = params[b[i]].seed
  BY <1>2 DEF StateInv, SlotsAreOwners
<1>4. seeds[slot[b[i]]] \in Nat
  BY <1>2 DEF StateInv, Types
<1> QED
  BY <1>1, <1>3, <1>4, NoiseParts DEF NoiseIsOwn, FirstRandomSeed

-----------------------------------------------------------------------------
(* The routes of the legacy runner.                                        *)

LEMMA GreedyRow ==
  ASSUME StateInv, NEW b \in Batches, NEW i \in DOMAIN b
  PROVE  i \in Greedy(b) <=> params[b[i]].temperature = "0"
BY Lookup, WantedIs DEF Greedy

\* A route's result is right if its rows and its noise are.
LEMMA RouteFromParts ==
  ASSUME StateInv, NEW b \in Batches, NEW rows, NEW noise, NEW moved, NEW m, NEW n,
         Greedy(b) = {},
         \A i \in DOMAIN b : rows[i] = Wanted(params[b[i]]) /\ NoiseIsOwn(b[i], noise[i]),
         runner = "legacy" => Seeded(b) \subseteq moved
  PROVE  RouteIsOwn(b, Result(rows, noise, moved, m, n))
<1> SUFFICES ASSUME NEW i \in DOMAIN b
             PROVE  /\ RowIsOwn(b[i], rows[i], noise[i])
                    /\ runner = "legacy" /\ generators[b[i]].seed # NoSeed => i \in moved
  BY ResultParts DEF RouteIsOwn
<1>1. params[b[i]].temperature # "0"
  BY GreedyRow
<1>2. RowIsOwn(b[i], rows[i], noise[i])
  BY <1>1 DEF RowIsOwn, NoiseIsOwn
<1>3. runner = "legacy" /\ generators[b[i]].seed # NoSeed => i \in Seeded(b)
  BY Lookup DEF Seeded
<1> QED
  BY <1>2, <1>3

\* The same with greedy tokens put over the others.
LEMMA RouteWithGreedy ==
  ASSUME StateInv, NEW b \in Batches, NEW rows, NEW noise, NEW moved, NEW m, NEW n,
         \A i \in DOMAIN b \ Greedy(b) :
           rows[i] = Wanted(params[b[i]]) /\ NoiseIsOwn(b[i], noise[i]),
         runner = "legacy" => Seeded(b) \subseteq moved
  PROVE  RouteIsOwn(b, WithGreedy(b, Result(rows, noise, moved, m, n)))
<1> DEFINE result == WithGreedy(b, Result(rows, noise, moved, m, n))
           own == [i \in DOMAIN b |-> IF i \in Greedy(b) THEN Noise("greedy", 0, 0) ELSE noise[i]]
<1>1. result = [Result(rows, noise, moved, m, n) EXCEPT !.noise = own]
  BY ResultParts DEF WithGreedy
<1>2. result.rows = rows /\ result.moved = moved /\ result.noise = own
  BY <1>1 DEF Result
<1> HIDE DEF result
<1> SUFFICES ASSUME NEW i \in DOMAIN b
             PROVE  /\ RowIsOwn(b[i], rows[i], own[i])
                    /\ runner = "legacy" /\ generators[b[i]].seed # NoSeed => i \in moved
  BY <1>2 DEF RouteIsOwn, result
<1>3. runner = "legacy" /\ generators[b[i]].seed # NoSeed => i \in Seeded(b)
  BY Lookup DEF Seeded
<1>4. CASE i \in Greedy(b)
  <2>1. params[b[i]].temperature = "0" /\ own[i] = Noise("greedy", 0, 0)
    BY <1>4, GreedyRow
  <2> QED
    BY <2>1, <1>3, NoiseParts DEF RowIsOwn
<1>5. CASE i \notin Greedy(b)
  <2>1. params[b[i]].temperature # "0" /\ own[i] = noise[i]
    BY <1>5, GreedyRow
  <2> QED
    BY <2>1, <1>3, <1>5 DEF RowIsOwn, NoiseIsOwn
<1> QED
  BY <1>4, <1>5

LEMMA LegacyRowsAsWanted ==
  ASSUME StateInv, NEW b \in Batches, NEW i \in DOMAIN b, NEW logprobs \in BOOLEAN
  PROVE  LegacyRows(b, logprobs)[i] = Wanted(params[b[i]])
<1> DEFINE p == params[b[i]]
           applied == LegacyTemperature(b) \cup Active(b)
           scalar == qwen /\ UniformTopK(b) /\ (Seeded(b) = {} \/ LegacyGumbel(b, logprobs))
<1>1. Param(b[i]) = Wanted(p)
  BY Lookup
<1>2. ASSUME NEW f \in Fields \ applied
      PROVE  p[f] = Neutral[f]
  <2>1. CASE f \in Filters
    BY <1>2, <2>1, ActiveCovers
  <2>2. CASE f = "temperature"
    <3>1. AllRows(b, "temperature", "1")
      BY <1>2, <2>2 DEF LegacyTemperature
    <3> QED
      BY <3>1, <1>1, <2>2, WantedIs, NeutralIs DEF AllRows
  <2> QED
    BY <2>1, <2>2 DEF Fields
<1>3. scalar => p["top_k"] = "50"
  BY <1>1, WantedIs DEF UniformTopK, AllRows
<1>4. scalar \in BOOLEAN
  BY Zenon DEF LegacyGumbel, UniformTopK, AllRows
<1> HIDE DEF applied, scalar, p
<1>5. Filtered(b, applied, scalar)[i] = Wanted(p)
  BY <1>1, <1>2, <1>3, <1>4, FilteredAsWanted
<1> QED
  BY <1>5 DEF LegacyRows, applied, scalar, p

LEMMA RawAsWanted ==
  ASSUME StateInv, NEW b \in Batches, NEW i \in DOMAIN b,
         AllRows(b, "temperature", "1"), Active(b) = {}
  PROVE  Raw(b)[i] = Wanted(params[b[i]])
<1>1. Param(b[i]) = Wanted(params[b[i]])
  BY Lookup
<1>2. \A f \in Filters : params[b[i]][f] = Neutral[f]
  BY ActiveCovers
<1>3. params[b[i]]["temperature"] = Neutral["temperature"]
  BY <1>1, WantedIs, NeutralIs DEF AllRows
<1>4. \A f \in Fields \ {} : params[b[i]][f] = Neutral[f]
  BY <1>2, <1>3 DEF Fields
<1> DEFINE none == {}
           no == FALSE
           p == params[b[i]]
<1>5. no \in BOOLEAN /\ ~ no /\ \A f \in Fields \ none : p[f] = Neutral[f]
  BY <1>4
<1>6. Raw(b) = Filtered(b, none, no)
  BY Zenon DEF Raw
<1> HIDE DEF none, no, p
<1>7. Param(b[i]) = Wanted(p)
  BY <1>1 DEF p
<1>8. Filtered(b, none, no)[i] = Wanted(p)
  BY <1>5, <1>7, FilteredAsWanted
<1> QED
  BY <1>6, <1>8 DEF p

LEMMA UnseededRow ==
  ASSUME StateInv, NEW b \in Batches, NEW i \in DOMAIN b, Seeded(b) = {}
  PROVE  params[b[i]].temperature # "0" => params[b[i]].seed = NoSeed
<1>1. Generator(b[i]).seed = NoSeed
  BY DEF Seeded
<1> QED
  BY <1>1, Lookup DEF RequestSeed, StateInv, Types

LEMMA LegacyRoutes ==
  ASSUME StateInv, runner = "legacy", NEW b \in Batches, NEW logprobs \in BOOLEAN
  PROVE  RouteIsOwn(b, LegacySample(b, logprobs))
<1> DEFINE rows == LegacyRows(b, logprobs)
<1>1. CASE LegacyUnfiltered(b, logprobs)
  <2>1. AllRows(b, "temperature", "1") /\ Active(b) = {} /\ Seeded(b) = {}
    BY <1>1 DEF LegacyUnfiltered
  <2>2. Greedy(b) = {}
    BY <2>1 DEF AllRows, Greedy
  <2>3. \A i \in DOMAIN b : Raw(b)[i] = Wanted(params[b[i]]) /\ NoiseIsOwn(b[i], PrivateNoise(b)[i])
    BY <2>1, RawAsWanted, UnseededRow, SharedNoiseIsOwn
  <2>4. RouteIsOwn(b, Result(Raw(b), PrivateNoise(b), {}, PrivateDraws(b), 0))
    BY <2>1, <2>2, <2>3, RouteFromParts
  <2> QED
    BY <1>1, <2>4 DEF LegacySample, PrivateGumbel
<1>2. CASE ~ LegacyUnfiltered(b, logprobs) /\ Greedy(b) = DOMAIN b
  <2>1. Seeded(b) = {}
    BY <1>2, GreedyRow, Lookup DEF Seeded, RequestSeed
  <2>2. RouteIsOwn(b, GreedyResult(b))
    BY <1>2, <2>1, RouteWithGreedy DEF GreedyResult
  <2> QED
    BY <1>2, <2>2 DEF LegacySample
<1>3. CASE /\ ~ LegacyUnfiltered(b, logprobs) /\ Greedy(b) # DOMAIN b
           /\ LegacyGumbel(b, logprobs)
  <2>1. \A i \in DOMAIN b : rows[i] = Wanted(params[b[i]]) /\ NoiseIsOwn(b[i], OwnNoise(b, "gumbel")[i])
    BY LegacyRowsAsWanted, OwnNoiseIsOwn
  <2>2. RouteIsOwn(b, WithGreedy(b, Partitioned(b, rows)))
    BY <2>1, RouteWithGreedy DEF Partitioned
  <2> QED
    BY <1>3, <2>2 DEF LegacySample
<1>4. CASE /\ ~ LegacyUnfiltered(b, logprobs) /\ Greedy(b) # DOMAIN b
           /\ ~ LegacyGumbel(b, logprobs) /\ Seeded(b) # {}
  <2>1. \A i \in DOMAIN b : rows[i] = Wanted(params[b[i]]) /\ NoiseIsOwn(b[i], OwnNoise(b, "exponential")[i])
    BY LegacyRowsAsWanted, OwnNoiseIsOwn
  <2>2. RouteIsOwn(b, WithGreedy(b, Multinomial(b, rows)))
    BY <2>1, RouteWithGreedy DEF Multinomial
  <2> QED
    BY <1>4, <2>2 DEF LegacySample
<1>5. CASE /\ ~ LegacyUnfiltered(b, logprobs) /\ Greedy(b) # DOMAIN b
           /\ ~ LegacyGumbel(b, logprobs) /\ Seeded(b) = {}
  <2>1. \A i \in DOMAIN b : rows[i] = Wanted(params[b[i]]) /\ NoiseIsOwn(b[i], ProcessNoise(b, "native")[i])
    BY <1>5, LegacyRowsAsWanted, UnseededRow, SharedNoiseIsOwn
  <2>2. RouteIsOwn(b, WithGreedy(b, Native(b, rows)))
    BY <1>5, <2>1, RouteWithGreedy DEF Native
  <2> QED
    BY <1>5, <2>2 DEF LegacySample
<1> QED
  BY <1>1, <1>2, <1>3, <1>4, <1>5

-----------------------------------------------------------------------------
(* The routes of the worker.                                               *)

LEMMA UserSeededRow ==
  ASSUME StateInv, runner = "worker", NEW b \in Batches, NEW i \in DOMAIN b
  PROVE  i \in UserSeeded(b) <=> params[b[i]].seed # NoSeed
<1>1. b[i] \in Requests /\ slot[b[i]] # 0 /\ params[b[i]].seed \in UserSeeds \cup {NoSeed}
  BY Lookup
<1>2. IF params[b[i]].seed = NoSeed THEN seeds[slot[b[i]]] >= FirstRandomSeed
                                    ELSE seeds[slot[b[i]]] = params[b[i]].seed
  BY <1>1 DEF StateInv, SlotsAreOwners
<1>3. seeds[slot[b[i]]] \in Nat
  BY <1>1 DEF StateInv, Types
<1>4. HasUserSeed(b[i]) <=> params[b[i]].seed # NoSeed
  BY <1>1, <1>2, <1>3 DEF HasUserSeed, UserSeeds, FirstRandomSeed, NoSeed
<1> QED
  BY <1>4 DEF UserSeeded

LEMMA V2RowsAsWanted ==
  ASSUME StateInv, NEW b \in Batches, NEW i \in DOMAIN b, NEW logprobs, V2Gumbel(b, logprobs)
  PROVE  V2Rows(b)[i] = Wanted(params[b[i]])
<1>1. Param(b[i]) = Wanted(params[b[i]])
  BY Lookup
<1>2. params[b[i]]["top_k"] = "50" /\ params[b[i]]["top_p"] = "off"
  BY <1>1, WantedIs DEF V2Gumbel, AllRows
<1>3. \A f \in Fields \ {"temperature", "min_p", "top_k"} : params[b[i]][f] = Neutral[f]
  BY <1>2, NeutralIs DEF Fields, Filters
<1> DEFINE applied == {"temperature", "min_p", "top_k"}
           yes == TRUE
           p == params[b[i]]
<1>4. yes \in BOOLEAN /\ p["top_k"] = "50" /\ \A f \in Fields \ applied : p[f] = Neutral[f]
  BY <1>2, <1>3
<1>5. V2Rows(b) = Filtered(b, applied, yes)
  BY Zenon DEF V2Rows
<1> HIDE DEF applied, yes, p
<1>6. Param(b[i]) = Wanted(p)
  BY <1>1 DEF p
<1>7. Filtered(b, applied, yes)[i] = Wanted(p)
  BY <1>4, <1>6, FilteredAsWanted
<1> QED
  BY <1>5, <1>7 DEF p

LEMMA UpstreamRowsAsWanted ==
  ASSUME StateInv, NEW b \in Batches, NEW i \in DOMAIN b
  PROVE  UpstreamRows(b)[i] = Wanted(params[b[i]])
<1>1. Param(b[i]) = Wanted(params[b[i]])
  BY Lookup
<1> DEFINE no == FALSE
           p == params[b[i]]
<1>2. no \in BOOLEAN /\ ~ no /\ \A f \in Fields \ Fields : p[f] = Neutral[f]
  OBVIOUS
<1>3. UpstreamRows(b) = Filtered(b, Fields, no)
  BY Zenon DEF UpstreamRows
<1> HIDE DEF no, p
<1>4. Param(b[i]) = Wanted(p)
  BY <1>1 DEF p
<1>5. Filtered(b, Fields, no)[i] = Wanted(p)
  BY <1>2, <1>4, FilteredAsWanted
<1> QED
  BY <1>3, <1>5 DEF p

LEMMA WorkerRowsAsWanted ==
  ASSUME StateInv, NEW b \in Batches, NEW i \in DOMAIN b \ Greedy(b)
  PROVE  WorkerRows(b)[i] = Wanted(params[b[i]])
<1> DEFINE p == params[b[i]]
           heated == IF NeedsProcessing(b) THEN {"temperature"} ELSE {}
           applied == heated \cup Active(b)
           scalar == /\ qwen /\ UniformTopK(b)
                     /\ ("top_p" \notin Active(b) \/ Len(b) >= GumbelMinRows)
<1>1. Param(b[i]) = Wanted(p)
  BY Lookup
<1>2. ASSUME NEW f \in Fields \ applied
      PROVE  p[f] = Neutral[f]
  <2>1. CASE f \in Filters
    BY <1>2, <2>1, ActiveCovers
  <2>2. CASE f = "temperature"
    <3>1. ~ NeedsProcessing(b)
      BY <1>2, <2>2
    <3>2. Param(b[i]) = Neutral
      BY <3>1 DEF NeedsProcessing
    <3> QED
      BY <3>2, <1>1, <2>2, WantedIs
  <2> QED
    BY <2>1, <2>2 DEF Fields
<1>3. scalar => p["top_k"] = "50"
  BY <1>1, WantedIs DEF UniformTopK, AllRows
<1>4. scalar \in BOOLEAN
  BY Zenon DEF UniformTopK, AllRows
<1> HIDE DEF applied, scalar, p
<1>5. Filtered(b, applied, scalar)[i] = Wanted(p)
  BY <1>1, <1>2, <1>3, <1>4, FilteredAsWanted
<1> QED
  BY <1>5 DEF WorkerRows, applied, scalar, p

LEMMA WorkerRoutes ==
  ASSUME StateInv, runner = "worker", NEW b \in Batches, NEW logprobs \in BOOLEAN
  PROVE  RouteIsOwn(b, WorkerSample(b, logprobs))
<1> DEFINE rows == WorkerRows(b)
<1>1. CASE WorkerUnfiltered(b, logprobs)
  <2>1. AllRows(b, "temperature", "1") /\ Active(b) = {}
    BY <1>1 DEF WorkerUnfiltered
  <2>2. Greedy(b) = {}
    BY <2>1 DEF AllRows, Greedy
  <2>3. \A i \in DOMAIN b : Raw(b)[i] = Wanted(params[b[i]]) /\ NoiseIsOwn(b[i], SlotNoise(b)[i])
    BY <2>1, RawAsWanted, SlotNoiseIsOwn
  <2>4. RouteIsOwn(b, Result(Raw(b), SlotNoise(b), {}, 0, 0))
    BY <2>2, <2>3, RouteFromParts
  <2> QED
    BY <1>1, <2>4 DEF WorkerSample
<1>2. CASE ~ WorkerUnfiltered(b, logprobs) /\ V2Gumbel(b, logprobs)
  <2>1. Greedy(b) = {}
    BY <1>2 DEF V2Gumbel, AllRows, Greedy
  <2>2. \A i \in DOMAIN b : V2Rows(b)[i] = Wanted(params[b[i]]) /\ NoiseIsOwn(b[i], SlotNoise(b)[i])
    BY <1>2, V2RowsAsWanted, SlotNoiseIsOwn
  <2>3. RouteIsOwn(b, Result(V2Rows(b), SlotNoise(b), {}, 0, 0))
    BY <2>1, <2>2, RouteFromParts
  <2> QED
    BY <1>2, <2>3 DEF WorkerSample
<1>3. CASE ~ WorkerUnfiltered(b, logprobs) /\ ~ V2Gumbel(b, logprobs) /\ Greedy(b) # {}
  <2>1. \A i \in DOMAIN b : UpstreamRows(b)[i] = Wanted(params[b[i]]) /\ NoiseIsOwn(b[i], SlotNoise(b)[i])
    BY UpstreamRowsAsWanted, SlotNoiseIsOwn
  <2>2. RouteIsOwn(b, Upstream(b))
    BY <2>1, RouteWithGreedy DEF Upstream
  <2> QED
    BY <1>3, <2>2 DEF WorkerSample
<1>4. CASE /\ ~ WorkerUnfiltered(b, logprobs) /\ ~ V2Gumbel(b, logprobs)
           /\ Greedy(b) = {} /\ UserSeeded(b) # {}
  <2>1. \A i \in DOMAIN b : rows[i] = Wanted(params[b[i]]) /\ NoiseIsOwn(b[i], OwnNoise(b, "exponential")[i])
    BY <1>4, WorkerRowsAsWanted, OwnNoiseIsOwn
  <2>2. RouteIsOwn(b, Multinomial(b, rows))
    BY <1>4, <2>1, RouteFromParts DEF Multinomial
  <2> QED
    BY <1>4, <2>2 DEF WorkerSample
<1>5. CASE /\ ~ WorkerUnfiltered(b, logprobs) /\ ~ V2Gumbel(b, logprobs)
           /\ Greedy(b) = {} /\ UserSeeded(b) = {}
  <2>1. \A i \in DOMAIN b : params[b[i]].seed = NoSeed
    BY <1>5, UserSeededRow
  <2>2. \A i \in DOMAIN b : rows[i] = Wanted(params[b[i]]) /\ NoiseIsOwn(b[i], ProcessNoise(b, "native")[i])
    BY <1>5, <2>1, WorkerRowsAsWanted, SharedNoiseIsOwn
  <2>3. RouteIsOwn(b, Native(b, rows))
    BY <1>5, <2>2, RouteFromParts DEF Native
  <2> QED
    BY <1>5, <2>3 DEF WorkerSample
<1> QED
  BY <1>1, <1>2, <1>3, <1>4, <1>5

LEMMA Routes ==
  ASSUME StateInv, NEW b \in Batches, NEW logprobs \in BOOLEAN
  PROVE  RouteIsOwn(b, Sample(b, logprobs))
<1>1. runner = "worker" \/ runner = "legacy"
  BY DEF StateInv, Types
<1>2. CASE runner = "worker"
  BY <1>2, WorkerRoutes DEF Sample
<1>3. CASE runner = "legacy"
  BY <1>3, LegacyRoutes DEF Sample
<1> QED
  BY <1>1, <1>2, <1>3

-----------------------------------------------------------------------------
(* The invariant.                                                          *)

LEMMA AdvancedType ==
  ASSUME StateInv, NEW b, NEW result, NEW kept
  PROVE  Advanced(b, result, kept) \in [Requests \cup Slots -> Generators]
<1> DEFINE moved == {Holder(b[i]) : i \in {i \in result.moved : runner = "worker" \/ b[i] \in kept}}
           next(y) == IF y \in moved THEN [generators[y] EXCEPT !.draws = @ + 1] ELSE generators[y]
<1>1. generators \in [Requests \cup Slots -> Generators]
  BY DEF StateInv, Types
<1>2. Advanced(b, result, kept) = [y \in Requests \cup Slots |-> next(y)]
  BY <1>1 DEF Advanced
<1> HIDE DEF moved
<1>3. \A y \in Requests \cup Slots : next(y) \in Generators
  BY <1>1 DEF Generators
<1> QED
  BY <1>2, <1>3

LEMMA GeneratorsAdvance ==
  ASSUME StateInv, NEW b, NEW result, NEW kept, NEW x \in Requests \cup Slots
  PROVE  /\ Advanced(b, result, kept)[x].seed = generators[x].seed
         /\ Advanced(b, result, kept)[x].draws =
              IF \E i \in result.moved : (runner = "worker" \/ b[i] \in kept) /\ x = Holder(b[i])
                THEN generators[x].draws + 1 ELSE generators[x].draws
<1> DEFINE moved == {Holder(b[i]) : i \in {i \in result.moved : runner = "worker" \/ b[i] \in kept}}
<1>1. generators \in [Requests \cup Slots -> Generators]
  BY DEF StateInv, Types
<1>2. Advanced(b, result, kept) =
        [y \in Requests \cup Slots |->
           IF y \in moved THEN [generators[y] EXCEPT !.draws = @ + 1] ELSE generators[y]]
  BY <1>1 DEF Advanced
<1>3. x \in moved <=>
        \E i \in result.moved : (runner = "worker" \/ b[i] \in kept) /\ x = Holder(b[i])
  OBVIOUS
<1> HIDE DEF moved
<1> QED
  BY <1>1, <1>2, <1>3 DEF Generators

LEMMA InitHolds ==
  ASSUME Init
  PROVE  SamplerInv
<1>1. Types
  BY SamplerAssumption DEF Init, Types, Generators, NoGenerator, SeededGenerator, NoSeed, SamplerAssumption
<1>2. SlotsApart /\ SlotsAreOwners /\ GeneratorsAreOwners
  BY SamplerAssumption DEF Init, SlotsApart, SlotsAreOwners, GeneratorsAreOwners, NoGenerator,
     SeededGenerator, SamplerAssumption
<1> QED
  BY <1>1, <1>2 DEF Init, SamplerInv, StateInv, HonoursParams, StreamsAreOwn

LEMMA AddHolds ==
  ASSUME StateInv, NEW r \in Requests, Add(r)
  PROVE  StateInv'
<1> USE DEF StateInv
<1>1. PICK s \in Slots \ {slot[q] : q \in Requests} :
        /\ slot' = [slot EXCEPT ![r] = s]
        /\ IF runner = "worker" THEN AddToStates(r, s) ELSE AddToRunner(r)
  BY DEF Add
<1>2. s \in Nat \ {0} /\ s \notin Requests /\ slot[r] = 0 /\ \A q \in Requests : slot[q] # s
  BY SamplerAssumption DEF SamplerAssumption, Add
<1>3. /\ added' = added + 1 /\ stay' = [stay EXCEPT ![r] = added + 1]
      /\ UNCHANGED << runner, params, tokens >>
  BY DEF Add
<1>4. params[r] \in ParamChoices /\ params[r].seed \in UserSeeds \cup {NoSeed}
  BY SamplerAssumption DEF SamplerAssumption, Types
<1>5. SeededGenerator(params[r].seed) \in Generators
  BY <1>4 DEF SeededGenerator, Generators, UserSeeds, NoSeed
<1>6. Types'
  <2>1. CASE runner = "worker"
    BY <1>1, <1>2, <1>3, <1>4, <1>5, <2>1 DEF Types, AddToStates, SlotGenerator, FirstRandomSeed,
       UserSeeds, NoSeed
  <2>2. CASE runner # "worker"
    BY <1>1, <1>2, <1>3, <1>4, <1>5, <2>2 DEF Types, AddToRunner
  <2> QED
    BY <2>1, <2>2
<1>7. SlotsApart'
  BY <1>1, <1>2 DEF SlotsApart, Types
<1>8. SlotsAreOwners'
  <2> SUFFICES ASSUME runner = "worker", NEW q \in Requests, slot'[q] # 0
               PROVE  /\ states'[slot'[q]] = Wanted(params[q])
                      /\ generators'[slot'[q]].seed = params[q].seed
                      /\ IF params[q].seed = NoSeed THEN seeds'[slot'[q]] >= FirstRandomSeed
                                                    ELSE seeds'[slot'[q]] = params[q].seed
    BY <1>3 DEF SlotsAreOwners
  <2>1. CASE q = r
    BY <1>1, <1>2, <2>1 DEF Types, AddToStates, SlotGenerator, SeededGenerator, FirstRandomSeed
  <2>2. CASE q # r
    BY <1>1, <1>2, <2>2 DEF Types, AddToStates, SlotsAreOwners
  <2> QED
    BY <2>1, <2>2
<1>9. GeneratorsAreOwners'
  <2>1. \A q \in Requests : stay'[q] = 0 => slot'[q] = 0 /\ tokens'[q] = 0
    BY <1>1, <1>3 DEF GeneratorsAreOwners, Types
  <2>2. ASSUME runner' = "legacy", NEW q \in Requests
        PROVE  /\ generators'[q].seed = IF stay'[q] = 0 THEN NoSeed ELSE RequestSeed(q)'
               /\ generators'[q].seed # NoSeed => generators'[q].draws = tokens'[q]
    <3>1. RequestSeed(q)' = RequestSeed(q) /\ tokens'[q] = tokens[q] /\ AddToRunner(r)
      BY <1>1, <1>3, <2>2 DEF RequestSeed
    <3>2. CASE q # r
      BY <1>3, <2>2, <3>1, <3>2 DEF AddToRunner, GeneratorsAreOwners, Types
    <3>3. CASE q = r /\ stay[r] = 0 /\ params[r].temperature # "0"
      BY <1>3, <2>2, <3>1, <3>3 DEF AddToRunner, GeneratorsAreOwners, Types, RequestSeed, SeededGenerator
    <3>4. CASE q = r /\ ~ (stay[r] = 0 /\ params[r].temperature # "0")
      BY <1>3, <2>2, <3>1, <3>4 DEF AddToRunner, GeneratorsAreOwners, Types, RequestSeed
    <3> QED
      BY <3>2, <3>3, <3>4
  <2> QED
    BY <2>1, <2>2 DEF GeneratorsAreOwners
<1> QED
  BY <1>6, <1>7, <1>8, <1>9

LEMMA LeaveHolds ==
  ASSUME StateInv, NEW r \in Requests, Leave(r)
  PROVE  StateInv'
<1> USE DEF StateInv
<1>1. /\ slot' = [slot EXCEPT ![r] = 0]
      /\ UNCHANGED << runner, params, added, stay, tokens, states, seeds, generators >>
  BY DEF Leave
<1>2. Types' /\ SlotsApart'
  BY <1>1 DEF Types, SlotsApart
<1>3. SlotsAreOwners'
  BY <1>1 DEF SlotsAreOwners, Types
<1>4. GeneratorsAreOwners'
  BY <1>1 DEF GeneratorsAreOwners, Types, RequestSeed
<1> QED
  BY <1>2, <1>3, <1>4

LEMMA StepHolds ==
  ASSUME SamplerInv, Step
  PROVE  SamplerInv'
<1>1. PICK b \in Batches, kept \in SUBSET InBatch, logprobs \in BOOLEAN :
        LET result == Sample(b, logprobs) IN
        /\ kept \subseteq {b[i] : i \in DOMAIN b}
        /\ generators' = Advanced(b, result, kept)
        /\ tokens' = [q \in Requests |-> IF q \in kept THEN tokens[q] + 1 ELSE tokens[q]]
        /\ drawn' = drawn \cup
             { [request |-> b[i], stay |-> stay[b[i]], index |-> tokens[b[i]],
                filters |-> result.rows[i], noise |-> result.noise[i]]
               : i \in {i \in DOMAIN b : b[i] \in kept} }
  BY DEF Step
<1> DEFINE result == Sample(b, logprobs)
<1>2. UNCHANGED << runner, params, slot, added, stay, states, seeds >>
  BY DEF Step
<1>3. StateInv /\ RouteIsOwn(b, result)
  BY Routes DEF SamplerInv
<1> HIDE DEF result
<1>4. /\ generators' = Advanced(b, result, kept)
      /\ drawn' = drawn \cup
           { [request |-> b[i], stay |-> stay[b[i]], index |-> tokens[b[i]],
              filters |-> result.rows[i], noise |-> result.noise[i]]
             : i \in {i \in DOMAIN b : b[i] \in kept} }
      /\ tokens' = [q \in Requests |-> IF q \in kept THEN tokens[q] + 1 ELSE tokens[q]]
      /\ kept \subseteq {b[i] : i \in DOMAIN b}
  BY <1>1 DEF result
<1>5. Types'
  <2>1. generators' \in [Requests \cup Slots -> Generators]
    BY <1>3, <1>4, AdvancedType
  <2>2. tokens' \in [Requests -> Nat]
    BY <1>3, <1>4 DEF StateInv, Types
  <2> QED
    BY <1>2, <1>3, <2>1, <2>2 DEF StateInv, Types
<1>6. SlotsApart'
  BY <1>2, <1>3 DEF StateInv, SlotsApart
<1>7. SlotsAreOwners'
  <2> SUFFICES ASSUME runner = "worker", NEW q \in Requests, slot[q] # 0
               PROVE  /\ states[slot[q]] = Wanted(params[q])
                      /\ generators'[slot[q]].seed = params[q].seed
                      /\ IF params[q].seed = NoSeed THEN seeds[slot[q]] >= FirstRandomSeed
                                                    ELSE seeds[slot[q]] = params[q].seed
    BY <1>2 DEF SlotsAreOwners
  <2>1. slot[q] \in Requests \cup Slots
    BY <1>3 DEF StateInv, Types
  <2>2. generators'[slot[q]].seed = generators[slot[q]].seed
    BY <1>3, <1>4, <2>1, GeneratorsAdvance
  <2> QED
    BY <1>3, <2>2 DEF StateInv, SlotsAreOwners
<1>8. GeneratorsAreOwners'
  <2>1. \A q \in Requests : stay[q] = 0 => slot[q] = 0 /\ tokens'[q] = 0
    BY <1>3, <1>4 DEF StateInv, GeneratorsAreOwners, InBatch
  <2>2. ASSUME runner = "legacy", NEW q \in Requests
        PROVE  /\ generators'[q].seed = IF stay[q] = 0 THEN NoSeed ELSE RequestSeed(q)
               /\ generators'[q].seed # NoSeed => generators'[q].draws = tokens'[q]
    <3>1. /\ generators'[q].seed = generators[q].seed
          /\ generators'[q].draws =
               IF \E i \in result.moved : b[i] \in kept /\ q = b[i]
                 THEN generators[q].draws + 1 ELSE generators[q].draws
      BY <1>3, <1>4, <2>2, GeneratorsAdvance DEF Holder
    <3>2. /\ generators[q].seed = IF stay[q] = 0 THEN NoSeed ELSE RequestSeed(q)
          /\ generators[q].seed # NoSeed => generators[q].draws = tokens[q]
      BY <1>3, <2>2 DEF StateInv, GeneratorsAreOwners
    <3>3. generators[q].seed # NoSeed =>
            (q \in kept <=> \E i \in result.moved : b[i] \in kept /\ q = b[i])
      BY <1>3, <1>4, <2>2 DEF RouteIsOwn
    <3> QED
      BY <1>4, <3>1, <3>2, <3>3
  <2> QED
    BY <1>2, <2>1, <2>2 DEF GeneratorsAreOwners, RequestSeed
<1>9. HonoursParams' /\ StreamsAreOwn'
  <2> SUFFICES ASSUME NEW d \in drawn'
               PROVE  /\ IF params[d.request].temperature = "0" THEN d.noise.kernel = "greedy"
                         ELSE d.noise.kernel # "greedy" /\ d.filters = Wanted(params[d.request])
                      /\ d.noise.kernel # "greedy" =>
                           IF params[d.request].seed = NoSeed
                             THEN d.noise.seed = ProcessSeed \/ d.noise.seed >= FirstRandomSeed
                             ELSE /\ d.noise.seed = params[d.request].seed
                                  /\ runner = "legacy" => d.noise.position = d.index
    BY <1>2 DEF HonoursParams, StreamsAreOwn
  <2>1. CASE d \in drawn
    BY <2>1 DEF SamplerInv, HonoursParams, StreamsAreOwn
  <2>2. CASE d \notin drawn
    <3>1. PICK i \in DOMAIN b :
            d = [request |-> b[i], stay |-> stay[b[i]], index |-> tokens[b[i]],
                 filters |-> result.rows[i], noise |-> result.noise[i]]
      BY <1>4, <2>2
    <3>2. /\ d.request = b[i] /\ d.index = tokens[b[i]]
          /\ d.filters = result.rows[i] /\ d.noise = result.noise[i]
      BY <3>1
    <3>3. RowIsOwn(b[i], result.rows[i], result.noise[i])
      BY <1>3 DEF RouteIsOwn
    <3> QED
      BY <3>2, <3>3 DEF RowIsOwn
  <2> QED
    BY <2>1, <2>2
<1> QED
  BY <1>5, <1>6, <1>7, <1>8, <1>9 DEF SamplerInv, StateInv

\* The invariant holds in every state of every batch history (Sampler.tla).
THEOREM SamplerInvariance == Spec => []SamplerInv
<1>1. Init => SamplerInv
  BY InitHolds
<1>2. ASSUME SamplerInv, [Next]_vars
      PROVE  SamplerInv'
  <2>1. ASSUME NEW r \in Requests, Add(r) \/ Leave(r)
        PROVE  SamplerInv'
    <3>1. StateInv'
      BY <1>2, <2>1, AddHolds, LeaveHolds DEF SamplerInv
    <3>2. UNCHANGED << runner, params, drawn >>
      BY <2>1 DEF Add, Leave
    <3> QED
      BY <1>2, <3>1, <3>2 DEF SamplerInv, HonoursParams, StreamsAreOwn
  <2>2. CASE Step
    BY <1>2, <2>2, StepHolds
  <2>3. CASE UNCHANGED vars
    BY <1>2, <2>3 DEF vars, SamplerInv, StateInv, Types, SlotsApart, SlotsAreOwners,
       GeneratorsAreOwners, RequestSeed, HonoursParams, StreamsAreOwn
  <2> QED
    BY <1>2, <2>1, <2>2, <2>3 DEF Next
<1> QED
  BY <1>1, <1>2, PTL DEF Spec

\* No row is drawn under another row's parameters, on any route (topk_topp_sampler.py
\* 975-1096 and 1488-1608).
THEOREM HonoursParamsHolds == Spec => []HonoursParams
BY SamplerInvariance, PTL DEF SamplerInv

\* A seed is used by the requests that brought it, and only at the places of their
\* own tokens, apart from the process's own, which requests without a seed draw
\* from (topk_topp_sampler.py 774-972 and 1393-1411).
THEOREM StreamsAreOwnHolds == Spec => []StreamsAreOwn
BY SamplerInvariance, PTL DEF SamplerInv

----------------------------------------------------------------------------
(* The noise.                                                              *)

\* The seed of the stream a request has by its slot.
StreamSeed(r, at) ==
  IF params[r].seed = NoSeed THEN FirstRandomSeed + at - 1 ELSE params[r].seed

\* Additions are numbered, and a random seed comes with its number.
Stays ==
  /\ private \in Nat /\ process \in Nat
  /\ \A r \in Requests : stay[r] \in 0 .. added
  /\ \A r, q \in Requests : stay[r] = stay[q] /\ stay[r] # 0 => r = q
  /\ runner = "worker" =>
       \A r \in Requests :
         slot[r] # 0 /\ params[r].seed = NoSeed =>
           seeds[slot[r]] = FirstRandomSeed + stay[r] - 1

\* The five places noise comes from.
FromProcess(n, r, position) ==
  /\ n.kernel \in {"native", "exponential"} /\ params[r].seed = NoSeed
  /\ n.seed = ProcessSeed /\ n.position = position
FromPrivate(n, r, position) ==
  /\ n.kernel = "gumbel" /\ params[r].seed = NoSeed
  /\ n.seed = ProcessSeed /\ n.position = position
FromSlot(n, r, at, position) ==
  /\ runner = "worker" /\ n.kernel = "gumbel"
  /\ n.seed = StreamSeed(r, at) /\ n.position = position
FromLegacy(n, r, position) ==
  /\ runner = "legacy" /\ n.kernel \in {"gumbel", "exponential"}
  /\ params[r].seed # NoSeed /\ n.seed = params[r].seed /\ n.position = position
FromWorker(n, r, position) ==
  /\ runner = "worker" /\ n.kernel = "exponential"
  /\ params[r].seed # NoSeed /\ n.seed = params[r].seed /\ n.position = position

\* What is known of a token that was drawn.
Past(d) ==
  /\ d.request \in Requests
  /\ d.stay \in 1 .. added
  /\ d.index \in Nat /\ d.index < tokens[d.request]
  /\ \A r \in Requests : stay[r] = d.stay => r = d.request
  /\ d.noise.kernel # "greedy" =>
       \/ \E p \in Nat : p < process /\ FromProcess(d.noise, d.request, p)
       \/ \E p \in Nat : p < private /\ FromPrivate(d.noise, d.request, p)
       \/ FromSlot(d.noise, d.request, d.stay, d.index)
       \/ FromLegacy(d.noise, d.request, d.index)
       \/ \E p \in Nat :
            /\ FromWorker(d.noise, d.request, p)
            /\ slot[d.request] # 0 /\ stay[d.request] = d.stay =>
                 p < generators[slot[d.request]].draws

NoiseInv ==
  /\ SamplerInv /\ Stays
  /\ \A d \in drawn : Past(d)
  /\ NoiseUsedOnce

\* What a route has to do for the noise of row i, unless it is a greedy row.
Fresh(b, i, n, moved, m, k) ==
  n.kernel # "greedy" /\ params[b[i]].temperature # "0" =>
    \/ FromProcess(n, b[i], process + i - 1) /\ k = Len(b)
    \/ FromPrivate(n, b[i], private + i - 1) /\ m = Len(b)
    \/ FromSlot(n, b[i], stay[b[i]], tokens[b[i]])
    \/ FromLegacy(n, b[i], tokens[b[i]])
    \/ FromWorker(n, b[i], generators[slot[b[i]]].draws) /\ i \in moved
RouteIsFresh(b, result) ==
  /\ result.private \in Nat /\ result.process \in Nat
  /\ \A i \in DOMAIN b :
       Fresh(b, i, result.noise[i], result.moved, result.private, result.process)

-----------------------------------------------------------------------------
(* Routes.                                                                 *)

LEMMA BatchIs ==
  ASSUME NEW b \in Batches
  PROVE  /\ Len(b) \in Nat /\ DOMAIN b = 1 .. Len(b)
         /\ \A i, j \in DOMAIN b : b[i] = b[j] => i = j
<1>1. PICK n \in 1 .. Cardinality(InBatch) :
        b \in [1 .. n -> InBatch] /\ \A i, j \in 1 .. n : b[i] = b[j] => i = j
  BY DEF Batches
<1>2. n \in Nat
  BY <1>1
<1>3. b \in Seq(InBatch)
  BY <1>1, <1>2
<1>4. Len(b) \in Nat /\ DOMAIN b = 1 .. Len(b)
  BY <1>3, LenProperties
<1> QED
  BY <1>1, <1>4

LEMMA AllResultParts ==
  ASSUME NEW rows, NEW noise, NEW moved, NEW m, NEW k
  PROVE  /\ Result(rows, noise, moved, m, k).noise = noise
         /\ Result(rows, noise, moved, m, k).moved = moved
         /\ Result(rows, noise, moved, m, k).private = m
         /\ Result(rows, noise, moved, m, k).process = k
BY DEF Result

LEMMA FreshFromParts ==
  ASSUME NEW b, NEW rows, NEW noise, NEW moved, NEW m \in Nat, NEW k \in Nat,
         \A i \in DOMAIN b : Fresh(b, i, noise[i], moved, m, k)
  PROVE  RouteIsFresh(b, Result(rows, noise, moved, m, k))
BY AllResultParts DEF RouteIsFresh

LEMMA FreshWithGreedy ==
  ASSUME NEW b, NEW rows, NEW noise, NEW moved, NEW m \in Nat, NEW k \in Nat,
         \A i \in DOMAIN b \ Greedy(b) : Fresh(b, i, noise[i], moved, m, k)
  PROVE  RouteIsFresh(b, WithGreedy(b, Result(rows, noise, moved, m, k)))
<1> DEFINE result == WithGreedy(b, Result(rows, noise, moved, m, k))
           own == [i \in DOMAIN b |-> IF i \in Greedy(b) THEN Noise("greedy", 0, 0) ELSE noise[i]]
<1>1. result = [Result(rows, noise, moved, m, k) EXCEPT !.noise = own]
  BY AllResultParts DEF WithGreedy
<1>2. result.moved = moved /\ result.private = m /\ result.process = k /\ result.noise = own
  BY <1>1 DEF Result
<1> HIDE DEF result
<1>3. ASSUME NEW i \in DOMAIN b
      PROVE  Fresh(b, i, own[i], moved, m, k)
  <2>1. CASE i \in Greedy(b)
    BY <2>1, NoiseParts DEF Fresh
  <2>2. CASE i \notin Greedy(b)
    BY <2>2
  <2> QED
    BY <2>1, <2>2
<1>4. RouteIsFresh(b, result)
  BY <1>2, <1>3 DEF RouteIsFresh
<1> QED
  BY <1>4 DEF result

LEMMA OwnNoiseIsFresh ==
  ASSUME StateInv, NEW b \in Batches, NEW i \in DOMAIN b, NEW m
  PROVE  /\ Fresh(b, i, OwnNoise(b, "exponential")[i], Seeded(b), m, Len(b))
         /\ runner = "legacy" => Fresh(b, i, OwnNoise(b, "gumbel")[i], Seeded(b), m, Len(b))
<1> DEFINE r == b[i]
<1>1. CASE i \in Seeded(b)
  <2>1. \A kernel : OwnNoise(b, kernel)[i] = Noise(kernel, Generator(r).seed, Generator(r).draws)
    BY <1>1 DEF OwnNoise
  <2>2. Generator(r).seed # NoSeed
    BY <1>1 DEF Seeded
  <2>3. Generator(r).seed = params[r].seed
    BY <2>2, Lookup DEF RequestSeed, StateInv, Types
  <2>4. runner = "legacy" => Generator(r).draws = tokens[r]
    BY <2>2, Lookup DEF StateInv, GeneratorsAreOwners
  <2>5. runner = "worker" => Generator(r).draws = generators[slot[r]].draws
    BY DEF Generator, Holder
  <2>6. runner = "worker" \/ runner = "legacy"
    BY DEF StateInv, Types
  <2> QED
    BY <1>1, <2>1, <2>2, <2>3, <2>4, <2>5, <2>6, NoiseParts DEF Fresh, FromLegacy, FromWorker
<1>2. CASE i \notin Seeded(b)
  <2>1. \A kernel : OwnNoise(b, kernel)[i] = Noise("exponential", ProcessSeed, process + i - 1)
    BY <1>2 DEF OwnNoise
  <2>2. Generator(r).seed = NoSeed
    BY <1>2 DEF Seeded
  <2>3. params[r].temperature # "0" => params[r].seed = NoSeed
    BY <2>2, Lookup DEF RequestSeed, StateInv, Types
  <2> QED
    BY <2>1, <2>3, NoiseParts DEF Fresh, FromProcess
<1> QED
  BY <1>1, <1>2

LEMMA SharedNoiseIsFresh ==
  ASSUME NEW b \in Batches, NEW i \in DOMAIN b, NEW m, NEW k, NEW moved,
         params[b[i]].temperature # "0" => params[b[i]].seed = NoSeed
  PROVE  /\ Fresh(b, i, ProcessNoise(b, "native")[i], moved, m, Len(b))
         /\ Fresh(b, i, PrivateNoise(b)[i], moved, Len(b), k)
<1>1. /\ ProcessNoise(b, "native")[i] = Noise("native", ProcessSeed, process + i - 1)
      /\ PrivateNoise(b)[i] = Noise("gumbel", ProcessSeed, private + i - 1)
  BY DEF ProcessNoise, PrivateNoise
<1> QED
  BY <1>1, NoiseParts DEF Fresh, FromProcess, FromPrivate

LEMMA SlotNoiseIsFresh ==
  ASSUME StateInv, Stays, NEW b \in Batches, NEW i \in DOMAIN b, runner = "worker",
         NEW moved, NEW m, NEW k
  PROVE  Fresh(b, i, SlotNoise(b)[i], moved, m, k)
<1>1. SlotNoise(b)[i] = Noise("gumbel", seeds[slot[b[i]]], tokens[b[i]])
  BY DEF SlotNoise
<1>2. /\ b[i] \in Requests /\ slot[b[i]] # 0
  BY Lookup
<1>3. seeds[slot[b[i]]] = StreamSeed(b[i], stay[b[i]])
  BY <1>2 DEF StateInv, SlotsAreOwners, Stays, StreamSeed
<1> QED
  BY <1>1, <1>3, NoiseParts DEF Fresh, FromSlot

LEMMA FreshRoutes ==
  ASSUME StateInv, Stays, NEW b \in Batches, NEW logprobs \in BOOLEAN
  PROVE  RouteIsFresh(b, Sample(b, logprobs))
<1> USE BatchIs
<1>1. 0 \in Nat /\ Len(b) \in Nat
  OBVIOUS
<1>2. ASSUME \A i \in DOMAIN b : params[b[i]].temperature # "0" => params[b[i]].seed = NoSeed
      PROVE  \A rows : /\ RouteIsFresh(b, Native(b, rows))
                       /\ RouteIsFresh(b, WithGreedy(b, Native(b, rows)))
  <2> TAKE rows
  <2>1. \A i \in DOMAIN b : Fresh(b, i, ProcessNoise(b, "native")[i], {}, 0, Len(b))
    BY <1>2, SharedNoiseIsFresh
  <2> QED
    BY <1>1, <2>1, FreshFromParts, FreshWithGreedy DEF Native
<1>3. \A rows : RouteIsFresh(b, Multinomial(b, rows)) /\ RouteIsFresh(b, WithGreedy(b, Multinomial(b, rows)))
  <2> TAKE rows
  <2>1. \A i \in DOMAIN b : Fresh(b, i, OwnNoise(b, "exponential")[i], Seeded(b), 0, Len(b))
    BY OwnNoiseIsFresh
  <2> QED
    BY <1>1, <2>1, FreshFromParts, FreshWithGreedy DEF Multinomial
<1>4. CASE runner = "legacy"
  <2>0. Seeded(b) = {} =>
          \A i \in DOMAIN b : params[b[i]].temperature # "0" => params[b[i]].seed = NoSeed
    BY UnseededRow
  <2>1. LegacyUnfiltered(b, logprobs) => RouteIsFresh(b, PrivateGumbel(b))
    <3> SUFFICES ASSUME LegacyUnfiltered(b, logprobs)
                 PROVE  RouteIsFresh(b, PrivateGumbel(b))
      OBVIOUS
    <3>1. \A i \in DOMAIN b : Fresh(b, i, PrivateNoise(b)[i], {}, Len(b), 0)
      BY <2>0, SharedNoiseIsFresh DEF LegacyUnfiltered
    <3> QED
      BY <1>1, <3>1, FreshFromParts DEF PrivateGumbel, PrivateDraws
  <2>2. Greedy(b) = DOMAIN b => RouteIsFresh(b, GreedyResult(b))
    BY <1>1, FreshWithGreedy DEF GreedyResult
  <2>3. \A rows : RouteIsFresh(b, WithGreedy(b, Partitioned(b, rows)))
    <3> TAKE rows
    <3>1. \A i \in DOMAIN b : Fresh(b, i, OwnNoise(b, "gumbel")[i], Seeded(b), 0, Len(b))
      BY <1>4, OwnNoiseIsFresh
    <3> QED
      BY <1>1, <3>1, FreshWithGreedy DEF Partitioned
  <2> QED
    BY <1>2, <1>3, <1>4, <2>0, <2>1, <2>2, <2>3 DEF Sample, LegacySample
<1>5. CASE runner = "worker"
  <2>1. \A rows : RouteIsFresh(b, Result(rows, SlotNoise(b), {}, 0, 0))
    <3> TAKE rows
    <3>1. \A i \in DOMAIN b : Fresh(b, i, SlotNoise(b)[i], {}, 0, 0)
      BY <1>5, SlotNoiseIsFresh
    <3> QED
      BY <1>1, <3>1, FreshFromParts
  <2>2. RouteIsFresh(b, Upstream(b))
    <3>1. \A i \in DOMAIN b : Fresh(b, i, SlotNoise(b)[i], {}, 0, 0)
      BY <1>5, SlotNoiseIsFresh
    <3> QED
      BY <1>1, <3>1, FreshWithGreedy DEF Upstream
  <2>3. UserSeeded(b) = {} => \A i \in DOMAIN b : params[b[i]].seed = NoSeed
    BY <1>5, UserSeededRow
  <2> QED
    BY <1>2, <1>3, <1>5, <2>1, <2>2, <2>3 DEF Sample, WorkerSample
<1> QED
  BY <1>4, <1>5 DEF StateInv, Types

-----------------------------------------------------------------------------
(* Noise that is the same.                                                 *)

LEMMA SeedIs ==
  ASSUME StateInv, NEW r \in Requests
  PROVE  /\ params[r].seed \in UserSeeds \cup {NoSeed} /\ ProcessSeed \in UserSeeds
         /\ UserSeeds \subseteq Nat /\ NoSeed \notin UserSeeds /\ FirstRandomSeed \in Nat
         /\ \A s \in UserSeeds : s < FirstRandomSeed
         /\ \A at \in Nat \ {0} :
              /\ StreamSeed(r, at) \in Nat
              /\ params[r].seed = NoSeed <=> StreamSeed(r, at) >= FirstRandomSeed
<1>1. params[r].seed \in UserSeeds \cup {NoSeed} /\ ProcessSeed \in UserSeeds
  BY SamplerAssumption DEF StateInv, Types, SamplerAssumption
<1> QED
  BY <1>1 DEF StreamSeed, UserSeeds, FirstRandomSeed, NoSeed

\* A stream of its own has the process's seed if its request brought that seed.
LEMMA ProcessSeedIsBrought ==
  ASSUME StateInv, NEW r \in Requests, NEW at \in Nat \ {0}, NEW n, NEW position,
         n.seed = ProcessSeed,
         \/ FromSlot(n, r, at, position)
         \/ FromLegacy(n, r, position)
         \/ FromWorker(n, r, position)
  PROVE  params[r].seed = ProcessSeed
<1>1. CASE FromSlot(n, r, at, position)
  <2>1. StreamSeed(r, at) = ProcessSeed
    BY <1>1 DEF FromSlot
  <2>2. ~ (ProcessSeed >= FirstRandomSeed)
    BY SeedIs
  <2>3. params[r].seed # NoSeed
    BY <2>1, <2>2, SeedIs
  <2> QED
    BY <2>1, <2>3 DEF StreamSeed
<1>2. CASE FromLegacy(n, r, position) \/ FromWorker(n, r, position)
  BY <1>2 DEF FromLegacy, FromWorker
<1> QED
  BY <1>1, <1>2

\* Two streams of slots meet if their requests brought one seed.
LEMMA SlotsMeet ==
  ASSUME StateInv, NEW r \in Requests, NEW q \in Requests, r # q,
         NEW at \in Nat \ {0}, NEW since \in Nat \ {0}, at # since,
         StreamSeed(r, at) = StreamSeed(q, since)
  PROVE  params[r].seed # NoSeed /\ params[q].seed = params[r].seed
<1>1. params[r].seed = NoSeed <=> params[q].seed = NoSeed
  BY SeedIs
<1>2. params[r].seed # NoSeed
  BY <1>1 DEF StreamSeed, FirstRandomSeed
<1> QED
  BY <1>1, <1>2 DEF StreamSeed

\* An earlier token and a new one meet only where they may.
LEMMA OldMeetsNew ==
  ASSUME StateInv, Stays, NEW b \in Batches, NEW i \in DOMAIN b,
         NEW moved, NEW m, NEW k, NEW d, NEW e,
         Past(d), e.request = b[i], e.stay = stay[b[i]],
         Fresh(b, i, e.noise, moved, m, k), params[b[i]].temperature # "0",
         d.noise = e.noise, d.noise.kernel # "greedy"
  PROVE  MayShare(d, e)
<1> DEFINE r == b[i]
           q == d.request
           n == e.noise
<1>1. /\ r \in Requests /\ slot[r] # 0 /\ stay[r] # 0
      /\ q \in Requests /\ tokens[q] \in Nat /\ tokens[r] \in Nat
      /\ d.stay \in Nat \ {0} /\ stay[r] \in Nat \ {0}
      /\ d.index \in Nat /\ d.index < tokens[q]
      /\ stay[r] = d.stay => r = q
      /\ private \in Nat /\ process \in Nat
      /\ i \in Nat \ {0}
  <2>1. r \in Requests /\ slot[r] # 0 /\ i \in Nat \ {0} /\ stay[r] # 0
    BY Lookup, BatchIs
  <2>2. added \in Nat /\ private \in Nat /\ process \in Nat
    BY DEF StateInv, Types, Stays
  <2>3. \A t \in Requests : tokens[t] \in Nat /\ stay[t] \in Nat
    BY DEF StateInv, Types
  <2>4. /\ q \in Requests /\ d.stay \in 1 .. added /\ d.index \in Nat
        /\ d.index < tokens[q]
        /\ stay[r] = d.stay => r = q
    BY <2>1 DEF Past
  <2> HIDE DEF r, q
  <2> QED
    BY <2>1, <2>2, <2>3, <2>4
<1> DEFINE OldShared == \/ \E p \in Nat : p < process /\ FromProcess(n, q, p)
                        \/ \E p \in Nat : p < private /\ FromPrivate(n, q, p)
           NewShared == \/ FromProcess(n, r, process + i - 1)
                        \/ FromPrivate(n, r, private + i - 1)
           OldOwn == \/ FromSlot(n, q, d.stay, d.index)
                     \/ FromLegacy(n, q, d.index)
                     \/ \E p \in Nat :
                          /\ FromWorker(n, q, p)
                          /\ slot[q] # 0 /\ stay[q] = d.stay => p < generators[slot[q]].draws
           NewOwn == \/ FromSlot(n, r, stay[r], tokens[r])
                     \/ FromLegacy(n, r, tokens[r])
                     \/ FromWorker(n, r, generators[slot[r]].draws)
<1>2. (OldShared \/ OldOwn) /\ (NewShared \/ NewOwn)
  BY DEF Past, Fresh
<1>3. ~ (OldShared /\ NewShared)
  <2>1. \A p \in Nat : p < process => p # process + i - 1
    BY <1>1
  <2>2. \A p \in Nat : p < private => p # private + i - 1
    BY <1>1
  <2> QED
    BY <2>1, <2>2 DEF FromProcess, FromPrivate
<1>4. CASE OldOwn /\ NewShared
  <2>1. n.seed = ProcessSeed /\ params[r].seed = NoSeed
    BY <1>4 DEF FromProcess, FromPrivate
  <2>2. params[q].seed = ProcessSeed
    BY <1>1, <1>4, <2>1, ProcessSeedIsBrought
  <2> QED
    BY <2>1, <2>2 DEF MayShare
<1>5. CASE OldShared /\ NewOwn
  <2>1. n.seed = ProcessSeed /\ params[q].seed = NoSeed
    BY <1>5 DEF FromProcess, FromPrivate
  <2>2. params[r].seed = ProcessSeed
    BY <1>1, <1>5, <2>1, ProcessSeedIsBrought
  <2> QED
    BY <2>1, <2>2 DEF MayShare
<1>6. CASE OldOwn /\ FromSlot(n, r, stay[r], tokens[r])
  <2>1. /\ runner = "worker" /\ n.kernel = "gumbel"
        /\ n.seed = StreamSeed(r, stay[r]) /\ n.position = tokens[r]
    BY <1>6 DEF FromSlot
  <2>2. FromSlot(n, q, d.stay, d.index)
    BY <1>6, <2>1 DEF FromLegacy, FromWorker
  <2>3. StreamSeed(q, d.stay) = StreamSeed(r, stay[r]) /\ d.index = tokens[r]
    BY <2>1, <2>2 DEF FromSlot
  <2>4. q # r
    BY <1>1, <2>3
  <2>5. params[q].seed # NoSeed /\ params[r].seed = params[q].seed
    BY <1>1, <2>3, <2>4, SlotsMeet
  <2> QED
    BY <2>4, <2>5 DEF MayShare
<1>7. CASE OldOwn /\ FromLegacy(n, r, tokens[r])
  <2>1. /\ runner = "legacy"
        /\ params[r].seed # NoSeed /\ n.seed = params[r].seed /\ n.position = tokens[r]
    BY <1>7 DEF FromLegacy
  <2>2. FromLegacy(n, q, d.index)
    BY <1>7, <2>1 DEF FromSlot, FromWorker
  <2>3. params[q].seed = params[r].seed /\ d.index = tokens[r]
    BY <2>1, <2>2 DEF FromLegacy
  <2>4. q # r
    BY <1>1, <2>3
  <2> QED
    BY <2>1, <2>3, <2>4 DEF MayShare
<1>8. CASE OldOwn /\ FromWorker(n, r, generators[slot[r]].draws)
  <2>1. /\ runner = "worker" /\ n.kernel = "exponential"
        /\ params[r].seed # NoSeed /\ n.seed = params[r].seed
        /\ n.position = generators[slot[r]].draws
    BY <1>8 DEF FromWorker
  <2>2. PICK p \in Nat :
          /\ FromWorker(n, q, p)
          /\ slot[q] # 0 /\ stay[q] = d.stay => p < generators[slot[q]].draws
    BY <1>8, <2>1 DEF FromSlot, FromLegacy
  <2>3. params[q].seed = params[r].seed /\ p = generators[slot[r]].draws
    BY <2>1, <2>2 DEF FromWorker
  <2>4. CASE q # r
    BY <2>1, <2>3, <2>4 DEF MayShare
  <2>5. CASE q = r
    <3>1. generators[slot[r]].draws \in Nat
      BY <2>2, <2>3
    <3>2. d.stay # stay[r]
      BY <1>1, <2>2, <2>3, <2>5, <3>1
    <3> QED
      BY <2>1, <2>3, <3>2 DEF MayShare
  <2> QED
    BY <2>4, <2>5
<1> QED
  BY <1>2, <1>3, <1>4, <1>5, <1>6, <1>7, <1>8

\* So do two new ones.
LEMMA NewMeetsNew ==
  ASSUME StateInv, Stays, NEW b \in Batches, NEW i \in DOMAIN b, NEW j \in DOMAIN b, i # j,
         NEW moved, NEW m, NEW k, NEW d, NEW e,
         d.request = b[i], d.stay = stay[b[i]], Fresh(b, i, d.noise, moved, m, k),
         e.request = b[j], e.stay = stay[b[j]], Fresh(b, j, e.noise, moved, m, k),
         params[b[i]].temperature # "0", params[b[j]].temperature # "0",
         d.noise = e.noise, d.noise.kernel # "greedy"
  PROVE  MayShare(d, e)
<1> DEFINE r == b[i]
           q == b[j]
           n == e.noise
           Shared(t, h) == \/ FromProcess(n, t, process + h - 1)
                           \/ FromPrivate(n, t, private + h - 1)
           Own(t) == \/ FromSlot(n, t, stay[t], tokens[t])
                     \/ FromLegacy(n, t, tokens[t])
                     \/ FromWorker(n, t, generators[slot[t]].draws)
<1>1. /\ r \in Requests /\ q \in Requests /\ r # q
      /\ stay[r] \in Nat \ {0} /\ stay[q] \in Nat \ {0} /\ stay[r] # stay[q]
      /\ private \in Nat /\ process \in Nat
      /\ i \in Nat \ {0} /\ j \in Nat \ {0}
  BY Lookup, BatchIs DEF StateInv, Types, Stays
<1>2. (Shared(r, i) \/ Own(r)) /\ (Shared(q, j) \/ Own(q))
  BY DEF Fresh
<1>3. ~ (Shared(r, i) /\ Shared(q, j))
  <2>1. process + i - 1 # process + j - 1 /\ private + i - 1 # private + j - 1
    BY <1>1
  <2> QED
    BY <2>1 DEF FromProcess, FromPrivate
<1>4. ASSUME NEW t \in Requests, NEW u \in Requests, NEW h, stay[u] \in Nat \ {0},
             Shared(t, h), Own(u)
      PROVE  params[t].seed = NoSeed /\ params[u].seed = ProcessSeed
  <2>1. n.seed = ProcessSeed /\ params[t].seed = NoSeed
    BY <1>4 DEF FromProcess, FromPrivate
  <2> QED
    BY <1>4, <2>1, ProcessSeedIsBrought
<1>5. CASE Shared(r, i) /\ Own(q)
  BY <1>1, <1>4, <1>5 DEF MayShare
<1>6. CASE Own(r) /\ Shared(q, j)
  BY <1>1, <1>4, <1>6 DEF MayShare
<1>7. CASE Own(r) /\ Own(q)
  <2>1. CASE FromSlot(n, r, stay[r], tokens[r])
    <3>1. /\ runner = "worker" /\ n.kernel = "gumbel" /\ n.seed = StreamSeed(r, stay[r])
      BY <2>1 DEF FromSlot
    <3>2. FromSlot(n, q, stay[q], tokens[q])
      BY <1>7, <3>1 DEF FromLegacy, FromWorker
    <3>3. StreamSeed(r, stay[r]) = StreamSeed(q, stay[q])
      BY <3>1, <3>2 DEF FromSlot
    <3>4. params[r].seed # NoSeed /\ params[q].seed = params[r].seed
      BY <1>1, <3>3, SlotsMeet
    <3> QED
      BY <1>1, <3>4 DEF MayShare
  <2>2. CASE FromLegacy(n, r, tokens[r]) \/ FromWorker(n, r, generators[slot[r]].draws)
    <3>1. params[r].seed # NoSeed /\ params[q].seed = params[r].seed
      BY <1>7, <2>2 DEF FromSlot, FromLegacy, FromWorker
    <3> QED
      BY <1>1, <3>1 DEF MayShare
  <2> QED
    BY <1>7, <2>1, <2>2
<1> QED
  BY <1>2, <1>3, <1>5, <1>6, <1>7

-----------------------------------------------------------------------------
(* The invariant.                                                          *)

LEMMA NoiseInitially ==
  ASSUME Init
  PROVE  NoiseInv
<1>1. Stays
  BY DEF Init, Stays
<1> QED
  BY <1>1, InitHolds DEF Init, NoiseInv, NoiseUsedOnce

\* What is known of the past stays known when only requests move.
LEMMA PastStays ==
  ASSUME StateInv, Stays, NEW d, Past(d), NEW r \in Requests, Add(r) \/ Leave(r)
  PROVE  Past(d)'
<1>1. /\ d.request \in Requests /\ d.stay \in 1 .. added /\ added \in Nat
      /\ slot \in [Requests -> Slots \cup {0}] /\ stay \in [Requests -> Nat]
      /\ UNCHANGED << runner, params, tokens, process, private >>
      /\ \A x \in Slots : x # 0 /\ x \notin Requests
  BY SamplerAssumption DEF Past, StateInv, Types, Add, Leave, SamplerAssumption
<1>2. /\ added' \in Nat /\ added' >= added
      /\ \A q \in Requests : stay'[q] = d.stay => stay[q] = d.stay
  BY <1>1 DEF Add, Leave
<1>3. ASSUME slot'[d.request] # 0, stay'[d.request] = d.stay, runner = "worker"
      PROVE  /\ slot[d.request] # 0 /\ stay[d.request] = d.stay
             /\ generators'[slot'[d.request]] = generators[slot[d.request]]
  <2>1. stay[d.request] = d.stay
    BY <1>2, <1>3, <1>1
  <2>2. CASE Leave(r)
    BY <1>1, <1>3, <2>1, <2>2 DEF Leave
  <2>3. CASE Add(r)
    <3>1. d.request # r
      BY <1>1, <1>3, <2>3 DEF Add
    <3>2. PICK s \in Slots \ {slot[q] : q \in Requests} :
            slot' = [slot EXCEPT ![r] = s] /\ AddToStates(r, s)
      BY <1>3, <2>3 DEF Add
    <3>3. slot'[d.request] = slot[d.request] /\ slot[d.request] # s /\ slot[d.request] \in Slots
      BY <1>1, <1>3, <3>1, <3>2
    <3>4. generators'[slot[d.request]] = generators[slot[d.request]]
      BY <3>2, <3>3 DEF AddToStates, StateInv, Types
    <3> QED
      BY <1>3, <2>1, <3>3, <3>4
  <2> QED
    BY <2>2, <2>3
<1>4. \A n, at, position :
        /\ FromProcess(n, d.request, position)' <=> FromProcess(n, d.request, position)
        /\ FromPrivate(n, d.request, position)' <=> FromPrivate(n, d.request, position)
        /\ FromSlot(n, d.request, at, position)' <=> FromSlot(n, d.request, at, position)
        /\ FromLegacy(n, d.request, position)' <=> FromLegacy(n, d.request, position)
        /\ FromWorker(n, d.request, position)' <=> FromWorker(n, d.request, position)
  BY <1>1 DEF FromProcess, FromPrivate, FromSlot, StreamSeed, FromLegacy, FromWorker
<1>5. (\E p \in Nat :
         /\ FromWorker(d.noise, d.request, p)
         /\ slot[d.request] # 0 /\ stay[d.request] = d.stay =>
              p < generators[slot[d.request]].draws)
      => \E p \in Nat :
           /\ FromWorker(d.noise, d.request, p)
           /\ slot'[d.request] # 0 /\ stay'[d.request] = d.stay =>
                p < generators'[slot'[d.request]].draws
  BY <1>3 DEF FromWorker
<1> QED
  BY <1>1, <1>2, <1>4, <1>5 DEF Past

LEMMA StaysStay ==
  ASSUME StateInv, Stays, NEW r \in Requests, Add(r) \/ Leave(r)
  PROVE  Stays'
<1>1. /\ added \in Nat /\ slot \in [Requests -> Slots \cup {0}] /\ stay \in [Requests -> Nat]
      /\ UNCHANGED << runner, params, process, private >>
  BY DEF StateInv, Types, Add, Leave
<1>2. CASE Leave(r)
  <2>1. slot' = [slot EXCEPT ![r] = 0] /\ UNCHANGED << added, stay, seeds >>
    BY <1>2 DEF Leave
  <2> QED
    BY <1>1, <2>1 DEF Stays
<1>3. CASE Add(r)
  <2>1. added' = added + 1 /\ stay' = [stay EXCEPT ![r] = added + 1]
    BY <1>3 DEF Add
  <2>2. /\ \A q \in Requests : stay'[q] \in 0 .. added'
        /\ \A t, q \in Requests : stay'[t] = stay'[q] /\ stay'[t] # 0 => t = q
    BY <1>1, <2>1 DEF Stays
  <2>3. ASSUME runner = "worker", NEW q \in Requests, slot'[q] # 0, params[q].seed = NoSeed
        PROVE  seeds'[slot'[q]] = FirstRandomSeed + stay'[q] - 1
    <3>1. PICK s \in Slots \ {slot[t] : t \in Requests} :
            slot' = [slot EXCEPT ![r] = s] /\ AddToStates(r, s)
      BY <1>3, <2>3 DEF Add
    <3>2. CASE q = r
      BY <1>1, <2>1, <2>3, <3>1, <3>2 DEF AddToStates, StateInv, Types, FirstRandomSeed
    <3>3. CASE q # r
      BY <1>1, <2>1, <2>3, <3>1, <3>3 DEF AddToStates, StateInv, Types, Stays
    <3> QED
      BY <3>2, <3>3
  <2> QED
    BY <1>1, <2>2, <2>3 DEF Stays
<1> QED
  BY <1>2, <1>3

LEMMA NoiseStep ==
  ASSUME NoiseInv, Step
  PROVE  NoiseInv'
<1>1. PICK b \in Batches, kept \in SUBSET InBatch, logprobs \in BOOLEAN :
        LET result == Sample(b, logprobs) IN
        /\ generators' = Advanced(b, result, kept)
        /\ private' = private + result.private
        /\ process' = process + result.process
        /\ tokens' = [q \in Requests |-> IF q \in kept THEN tokens[q] + 1 ELSE tokens[q]]
        /\ drawn' = drawn \cup
             { [request |-> b[i], stay |-> stay[b[i]], index |-> tokens[b[i]],
                filters |-> result.rows[i], noise |-> result.noise[i]]
               : i \in {i \in DOMAIN b : b[i] \in kept} }
  BY DEF Step
<1> DEFINE result == Sample(b, logprobs)
<1>2. UNCHANGED << runner, params, slot, added, stay, states, seeds >>
  BY DEF Step
<1>3. StateInv /\ Stays /\ RouteIsFresh(b, result) /\ RouteIsOwn(b, result)
  BY FreshRoutes, Routes DEF NoiseInv, SamplerInv
<1> HIDE DEF result
<1>4. /\ generators' = Advanced(b, result, kept)
      /\ private' = private + result.private
      /\ process' = process + result.process
      /\ tokens' = [q \in Requests |-> IF q \in kept THEN tokens[q] + 1 ELSE tokens[q]]
      /\ drawn' = drawn \cup
           { [request |-> b[i], stay |-> stay[b[i]], index |-> tokens[b[i]],
              filters |-> result.rows[i], noise |-> result.noise[i]]
             : i \in {i \in DOMAIN b : b[i] \in kept} }
  BY <1>1 DEF result
<1>5. SamplerInv'
  BY StepHolds DEF NoiseInv
<1>6. /\ private \in Nat /\ process \in Nat /\ private' \in Nat /\ process' \in Nat
      /\ private' >= private /\ process' >= process
      /\ \A q \in Requests : tokens[q] \in Nat /\ tokens'[q] \in Nat /\ tokens'[q] >= tokens[q]
      /\ \A q \in Requests : q \in kept => tokens'[q] = tokens[q] + 1
  BY <1>3, <1>4 DEF RouteIsFresh, Stays, StateInv, Types
<1>7. Stays'
  BY <1>2, <1>3, <1>6 DEF Stays
<1>8. ASSUME NEW q \in Requests, slot[q] # 0
      PROVE  /\ generators[slot[q]].draws \in Nat /\ generators'[slot[q]].draws \in Nat
             /\ generators'[slot[q]].draws >= generators[slot[q]].draws
             /\ \A i \in result.moved : runner = "worker" /\ b[i] = q =>
                  generators'[slot[q]].draws = generators[slot[q]].draws + 1
  <2>1. slot[q] \in Requests \cup Slots
    BY <1>3, <1>8 DEF StateInv, Types
  <2>2. generators[slot[q]].draws \in Nat
    BY <1>3, <2>1 DEF StateInv, Types, Generators
  <2>3. generators'[slot[q]].draws =
          IF \E i \in result.moved : (runner = "worker" \/ b[i] \in kept) /\ slot[q] = Holder(b[i])
            THEN generators[slot[q]].draws + 1 ELSE generators[slot[q]].draws
    BY <1>3, <1>4, <2>1, GeneratorsAdvance
  <2> QED
    BY <2>2, <2>3 DEF Holder
<1>9. \A n, r, at, position :
        /\ FromProcess(n, r, position)' <=> FromProcess(n, r, position)
        /\ FromPrivate(n, r, position)' <=> FromPrivate(n, r, position)
        /\ FromSlot(n, r, at, position)' <=> FromSlot(n, r, at, position)
        /\ FromLegacy(n, r, position)' <=> FromLegacy(n, r, position)
        /\ FromWorker(n, r, position)' <=> FromWorker(n, r, position)
  BY <1>2 DEF FromProcess, FromPrivate, FromSlot, StreamSeed, FromLegacy, FromWorker
<1>10. ASSUME NEW d \in drawn
       PROVE  Past(d) /\ Past(d)'
  <2>1. Past(d)
    BY DEF NoiseInv
  <2>2. /\ d.request \in Requests /\ d.stay \in 1 .. added
        /\ d.index \in Nat /\ d.index < tokens[d.request]
        /\ \A r \in Requests : stay[r] = d.stay => r = d.request
    BY <2>1 DEF Past
  <2>3. d.index < tokens'[d.request]
    BY <1>6, <2>2
  <2>4. \A p \in Nat : p < process => p < process'
    BY <1>6
  <2>5. \A p \in Nat : p < private => p < private'
    BY <1>6
  <2>6. ASSUME NEW p \in Nat, slot[d.request] # 0, p < generators[slot[d.request]].draws
        PROVE  p < generators'[slot[d.request]].draws
    BY <1>8, <2>2, <2>6
  <2>7. d.noise.kernel # "greedy" =>
          \/ \E p \in Nat : p < process' /\ FromProcess(d.noise, d.request, p)
          \/ \E p \in Nat : p < private' /\ FromPrivate(d.noise, d.request, p)
          \/ FromSlot(d.noise, d.request, d.stay, d.index)
          \/ FromLegacy(d.noise, d.request, d.index)
          \/ \E p \in Nat :
               /\ FromWorker(d.noise, d.request, p)
               /\ slot[d.request] # 0 /\ stay[d.request] = d.stay =>
                    p < generators'[slot[d.request]].draws
    BY <2>1, <2>4, <2>5, <2>6 DEF Past
  <2> QED
    BY <1>2, <1>9, <2>1, <2>2, <2>3, <2>7 DEF Past
<1>11. ASSUME NEW d \in drawn' \ drawn
       PROVE  \E i \in DOMAIN b :
                /\ b[i] \in kept /\ d.request = b[i] /\ d.stay = stay[b[i]]
                /\ d.index = tokens[b[i]]
                /\ Fresh(b, i, d.noise, result.moved, result.private, result.process)
                /\ d.noise.kernel # "greedy" => params[b[i]].temperature # "0"
                /\ d = [request |-> b[i], stay |-> stay[b[i]], index |-> tokens[b[i]],
                        filters |-> result.rows[i], noise |-> result.noise[i]]
  <2>1. PICK i \in DOMAIN b :
          /\ b[i] \in kept
          /\ d = [request |-> b[i], stay |-> stay[b[i]], index |-> tokens[b[i]],
                  filters |-> result.rows[i], noise |-> result.noise[i]]
    BY <1>4
  <2>2. /\ d.request = b[i] /\ d.stay = stay[b[i]] /\ d.index = tokens[b[i]]
        /\ d.noise = result.noise[i]
    BY <2>1
  <2>3. Fresh(b, i, d.noise, result.moved, result.private, result.process)
    BY <1>3, <2>2 DEF RouteIsFresh
  <2>4. d.noise.kernel # "greedy" => params[b[i]].temperature # "0"
    BY <1>3, <2>2 DEF RouteIsOwn, RowIsOwn
  <2> QED
    BY <2>1, <2>2, <2>3, <2>4
<1>12. ASSUME NEW d \in drawn' \ drawn
       PROVE  Past(d)'
  <2>1. PICK i \in DOMAIN b :
          /\ b[i] \in kept /\ d.request = b[i] /\ d.stay = stay[b[i]]
          /\ d.index = tokens[b[i]]
          /\ Fresh(b, i, d.noise, result.moved, result.private, result.process)
          /\ d.noise.kernel # "greedy" => params[b[i]].temperature # "0"
    BY <1>11
  <2>2. /\ b[i] \in Requests /\ slot[b[i]] # 0 /\ stay[b[i]] # 0
        /\ i \in 1 .. Len(b) /\ Len(b) \in Nat
    BY <1>3, Lookup, BatchIs
  <2>3. /\ d.stay \in 1 .. added
        /\ \A r \in Requests : stay[r] = d.stay => r = d.request
    BY <1>3, <2>1, <2>2 DEF Stays, StateInv, Types
  <2>4. d.index \in Nat /\ d.index < tokens'[d.request]
    BY <1>6, <2>1, <2>2
  <2>5. FromProcess(d.noise, b[i], process + i - 1) /\ result.process = Len(b) =>
          \E p \in Nat : p < process' /\ FromProcess(d.noise, b[i], p)
    <3>1. result.process = Len(b) => process + i - 1 \in Nat /\ process + i - 1 < process'
      BY <1>4, <1>6, <2>2
    <3> QED
      BY <3>1
  <2>6. FromPrivate(d.noise, b[i], private + i - 1) /\ result.private = Len(b) =>
          \E p \in Nat : p < private' /\ FromPrivate(d.noise, b[i], p)
    <3>1. result.private = Len(b) => private + i - 1 \in Nat /\ private + i - 1 < private'
      BY <1>4, <1>6, <2>2
    <3> QED
      BY <3>1
  <2>7. ASSUME FromWorker(d.noise, b[i], generators[slot[b[i]]].draws), i \in result.moved
        PROVE  \E p \in Nat : /\ FromWorker(d.noise, b[i], p)
                              /\ p < generators'[slot[b[i]]].draws
    <3>1. runner = "worker"
      BY <2>7 DEF FromWorker
    <3>2. /\ generators[slot[b[i]]].draws \in Nat
          /\ generators'[slot[b[i]]].draws = generators[slot[b[i]]].draws + 1
      BY <1>8, <2>2, <2>7, <3>1
    <3> QED
      BY <2>7, <3>2
  <2> QED
    BY <1>2, <1>9, <2>1, <2>2, <2>3, <2>4, <2>5, <2>6, <2>7 DEF Past, Fresh
<1>13. ASSUME NEW d \in drawn', NEW e \in drawn', d # e, d.noise = e.noise,
              d.noise.kernel # "greedy"
       PROVE  MayShare(d, e)
  <2>1. MayShare(e, d) => MayShare(d, e)
    BY DEF MayShare
  <2>2. CASE d \in drawn /\ e \in drawn
    BY <1>13, <2>2 DEF NoiseInv, NoiseUsedOnce
  <2>3. ASSUME NEW old \in drawn, NEW new \in drawn' \ drawn, old.noise = new.noise,
               old.noise.kernel # "greedy"
        PROVE  MayShare(old, new)
    BY <1>3, <1>10, <1>11, <2>3, OldMeetsNew
  <2>4. CASE d \notin drawn /\ e \notin drawn
    <3>1. PICK i \in DOMAIN b :
            /\ d.request = b[i] /\ d.stay = stay[b[i]]
            /\ Fresh(b, i, d.noise, result.moved, result.private, result.process)
            /\ d.noise.kernel # "greedy" => params[b[i]].temperature # "0"
            /\ d = [request |-> b[i], stay |-> stay[b[i]], index |-> tokens[b[i]],
                    filters |-> result.rows[i], noise |-> result.noise[i]]
      BY <1>11, <2>4
    <3>2. PICK j \in DOMAIN b :
            /\ e.request = b[j] /\ e.stay = stay[b[j]]
            /\ Fresh(b, j, e.noise, result.moved, result.private, result.process)
            /\ e.noise.kernel # "greedy" => params[b[j]].temperature # "0"
            /\ e = [request |-> b[j], stay |-> stay[b[j]], index |-> tokens[b[j]],
                    filters |-> result.rows[j], noise |-> result.noise[j]]
      BY <1>11, <2>4
    <3>3. i # j
      BY <1>13, <3>1, <3>2
    <3> QED
      BY <1>3, <1>13, <3>1, <3>2, <3>3, NewMeetsNew
  <2> QED
    BY <1>13, <2>1, <2>2, <2>3, <2>4
<1>14. NoiseUsedOnce'
  <2>1. \A d, e : MayShare(d, e)' <=> MayShare(d, e)
    BY <1>2 DEF MayShare
  <2> QED
    BY <1>13, <2>1 DEF NoiseUsedOnce
<1> QED
  BY <1>5, <1>7, <1>10, <1>12, <1>14 DEF NoiseInv

\* Additions, departures and steps keep every source of noise behind what it
\* gave out: the process's and the private generator for all requests without a
\* seed, the generators and token counters for each request with one (Sampler.tla).
THEOREM NoiseInvariance == Spec => []NoiseInv
<1>1. Init => NoiseInv
  BY NoiseInitially
<1>2. ASSUME NoiseInv, [Next]_vars
      PROVE  NoiseInv'
  <2>1. ASSUME NEW r \in Requests, Add(r) \/ Leave(r)
        PROVE  NoiseInv'
    <3>1. UNCHANGED << runner, params, drawn >>
      BY <2>1 DEF Add, Leave
    <3>2. SamplerInv'
      <4>1. StateInv'
        BY <1>2, <2>1, AddHolds, LeaveHolds DEF NoiseInv, SamplerInv
      <4> QED
        BY <1>2, <3>1, <4>1 DEF NoiseInv, SamplerInv, HonoursParams, StreamsAreOwn
    <3>3. Stays'
      BY <1>2, <2>1, StaysStay DEF NoiseInv, SamplerInv
    <3>4. \A d \in drawn' : Past(d)'
      BY <1>2, <2>1, <3>1, PastStays DEF NoiseInv, SamplerInv
    <3>5. NoiseUsedOnce'
      BY <1>2, <3>1 DEF NoiseInv, NoiseUsedOnce, MayShare
    <3> QED
      BY <3>2, <3>3, <3>4, <3>5 DEF NoiseInv
  <2>2. CASE Step
    BY <1>2, <2>2, NoiseStep
  <2>3. CASE UNCHANGED vars
    <3>1. SamplerInv'
      BY <1>2, <2>3 DEF vars, NoiseInv, SamplerInv, StateInv, Types, SlotsApart, SlotsAreOwners,
         GeneratorsAreOwners, RequestSeed, HonoursParams, StreamsAreOwn
    <3>2. Stays' /\ NoiseUsedOnce'
      BY <1>2, <2>3 DEF vars, NoiseInv, Stays, NoiseUsedOnce, MayShare
    <3>3. \A d \in drawn' : Past(d)'
      BY <1>2, <2>3 DEF vars, NoiseInv, Past, FromProcess, FromPrivate, FromSlot, StreamSeed,
         FromLegacy, FromWorker
    <3> QED
      BY <3>1, <3>2, <3>3 DEF NoiseInv
  <2> QED
    BY <1>2, <2>1, <2>2, <2>3 DEF Next
<1> QED
  BY <1>1, <1>2, PTL DEF Spec

\* No two tokens are drawn with the same noise, but for requests that brought one
\* seed, and for one that brought the process's seed and one that brought none: the
\* private generator starts from that seed and feeds the kernel of the seeded rows
\* (topk_topp_sampler.py 661-736 and 892-924).
THEOREM NoiseUsedOnceHolds == Spec => []NoiseUsedOnce
BY NoiseInvariance, PTL DEF NoiseInv
----------------------------------------------------------------------------
(* Sequences as functions.                                                 *)

\* A function on 1 .. n is a sequence of length n.
LEMMA AsSeq ==
  ASSUME NEW n \in Nat, NEW S, NEW f \in [1 .. n -> S]
  PROVE  f \in Seq(S) /\ Len(f) = n
  <1>1. f \in Seq(S)
    BY SeqDef
  <1>2. QED
    BY <1>1, LenProperties

\* A sequence is the function of its values.
LEMMA SeqIs ==
  ASSUME NEW n \in Nat, NEW S, NEW s \in Seq(S), Len(s) = n
  PROVE  s = [i \in 1 .. n |-> s[i]]
  <1>1. s \in [1 .. n -> S]
    BY LenProperties
  <1>2. QED
    BY <1>1

\* Two sequences joined.
LEMMA JoinIs ==
  ASSUME NEW n \in Nat, NEW m \in Nat, NEW S, NEW f \in [1 .. n -> S], NEW g \in [1 .. m -> S]
  PROVE  /\ f \o g \in [1 .. n + m -> S] /\ Len(f \o g) = n + m
         /\ \A i \in 1 .. n : (f \o g)[i] = f[i]
         /\ \A i \in 1 .. m : (f \o g)[n + i] = g[i]
  <1>1. f \in Seq(S) /\ Len(f) = n /\ g \in Seq(S) /\ Len(g) = m
    BY AsSeq
  <1>2. /\ f \o g \in Seq(S) /\ Len(f \o g) = n + m
        /\ \A i \in 1 .. n + m : (f \o g)[i] = IF i <= n THEN f[i] ELSE g[i - n]
    BY <1>1, ConcatProperties
  <1>3. f \o g \in [1 .. n + m -> S]
    BY <1>2, LenProperties
  <1>4. ASSUME NEW i \in 1 .. n PROVE (f \o g)[i] = f[i]
    <2>1. i \in 1 .. n + m /\ i <= n
      OBVIOUS
    <2>2. QED
      BY <1>2, <2>1
  <1>5. ASSUME NEW i \in 1 .. m PROVE (f \o g)[n + i] = g[i]
    <2>1. n + i \in 1 .. n + m /\ ~ (n + i <= n) /\ (n + i) - n = i
      OBVIOUS
    <2>2. QED
      BY <1>2, <2>1
  <1>6. QED
    BY <1>2, <1>3, <1>4, <1>5

\* A part of any function, its ends one apart from its length.
LEMMA PartIs ==
  ASSUME NEW s, NEW a \in Int, NEW b \in Int, NEW n \in Nat, b = a + n - 1
  PROVE  SubSeq(s, a, b) = [i \in 1 .. n |-> s[a + i - 1]]
  <1> DEFINE S == {s[i] : i \in a .. b}
             t == SubSeq(s, a, b)
  <1>1. \A i \in a .. b : s[i] \in S
    OBVIOUS
  <1> HIDE DEF S
  <1>2. /\ t \in Seq(S)
        /\ Len(t) = IF a <= b THEN b - a + 1 ELSE 0
        /\ \A i \in 1 .. b - a + 1 : t[i] = s[a + i - 1]
    BY <1>1, SubSeqProperties
  <1>3. (IF a <= b THEN b - a + 1 ELSE 0) = n /\ b - a + 1 = n
    OBVIOUS
  <1> HIDE DEF t
  <1>4. Len(t) = n /\ \A i \in 1 .. n : t[i] = s[a + i - 1]
    BY <1>2, <1>3
  <1>5. t = [i \in 1 .. n |-> t[i]]
    BY <1>2, <1>4, SeqIs
  <1>6. t = [i \in 1 .. n |-> s[a + i - 1]]
    BY <1>4, <1>5
  <1>7. QED
    BY <1>6 DEF t

\* The values of F up to n, and n values of w after off that go on with those after a.
Firsts(F, n) == [k \in 1 .. n |-> F[k]]
GoOn(w, off, F, a, n) == \A k \in 1 .. n : w[off + k] = F[a + k]

\* s, and after it the n values of w after off.
Continued(s, w, off, n) == s \o SubSeq(w, off + 1, off + n)

\* Values of F, and the next values of F from w: more values of F.
LEMMA GoesOn ==
  ASSUME NEW F, NEW a \in Nat, NEW n \in Nat, NEW s, s = Firsts(F, a),
         NEW w, NEW off \in Int, GoOn(w, off, F, a, n)
  PROVE  Continued(s, w, off, n) = Firsts(F, a + n)
  <1> DEFINE t == SubSeq(w, off + 1, off + n)
             S == {F[k] : k \in 1 .. a + n}
             g == [k \in 1 .. a + n |-> F[k]]
  <1>0. s = [k \in 1 .. a |-> F[k]]
    BY DEF Firsts
  <1>1. off + 1 \in Int /\ off + n \in Int /\ off + n = (off + 1) + n - 1
    OBVIOUS
  <1>2. t = [k \in 1 .. n |-> w[(off + 1) + k - 1]]
    BY <1>1, PartIs
  <1>3. \A k \in 1 .. n : (off + 1) + k - 1 = off + k
    OBVIOUS
  <1>4. t = [k \in 1 .. n |-> F[a + k]]
    BY <1>2, <1>3 DEF GoOn
  <1> HIDE DEF t
  <1>5. (\A k \in 1 .. a : k \in 1 .. a + n) /\ (\A k \in 1 .. n : a + k \in 1 .. a + n)
    OBVIOUS
  <1>6. s \in [1 .. a -> S] /\ t \in [1 .. n -> S]
    BY <1>0, <1>4, <1>5
  <1> HIDE DEF S
  <1>11. s \o t \in [1 .. a + n -> S]
    BY ONLY a \in Nat, n \in Nat, <1>6, JoinIs
  <1>7. /\ \A i \in 1 .. a : (s \o t)[i] = s[i]
        /\ \A i \in 1 .. n : (s \o t)[a + i] = t[i]
    BY ONLY a \in Nat, n \in Nat, <1>6, JoinIs
  <1>8. ASSUME NEW k \in 1 .. a + n PROVE (s \o t)[k] = F[k]
    <2>1. CASE k \in 1 .. a
      BY <1>0, <1>7, <2>1
    <2>2. CASE k \notin 1 .. a
      <3>1. k - a \in 1 .. n /\ a + (k - a) = k
        BY <2>2
      <3>2. (s \o t)[a + (k - a)] = t[k - a] /\ t[k - a] = F[a + (k - a)]
        BY <1>4, <1>7, <3>1
      <3>3. QED
        BY <3>1, <3>2
    <2>3. QED
      BY <2>1, <2>2
  <1>9. s \o t = g
    BY <1>8, <1>11
  <1>10. QED
    BY <1>9 DEF t, g, Firsts, Continued

----------------------------------------------------------------------------
(* Rows packed one after the other.                                        *)

\* What the rows before row i take, n[j] for row j.
Offset(n, i) == SumFunctionOnSet(n, 1 .. i - 1)

\* The first row starts at 0, every other one where the row before it ends.
LEMMA OffsetIs ==
  ASSUME NEW m \in Nat, NEW n, \A j \in 1 .. m : n[j] \in Nat
  PROVE  /\ Offset(n, 1) = 0
         /\ \A i \in 1 .. m + 1 : Offset(n, i) \in Int
         /\ \A i \in 1 .. m : Offset(n, i + 1) = Offset(n, i) + n[i]
  <1>1. \A S : SumFunctionOnSet(n, S) = SumOf(n, S)
    BY DEF SumFunctionOnSet, FoldFunctionOnSet, SumOf, MapThenSumSet
  <1>2. \A i \in 1 .. m + 1 : Offset(n, i) = SumOf(n, 1 .. i - 1)
    BY <1>1 DEF Offset
  <1>3. Offset(n, 1) = 0
    <2>1. 1 .. 1 - 1 = {}
      OBVIOUS
    <2>2. QED
      BY <1>2, <2>1, SumEmpty
  <1>4. ASSUME NEW i \in 1 .. m + 1
        PROVE  IsFiniteSet(1 .. i - 1) /\ \A x \in 1 .. i - 1 : n[x] \in Int
    <2> DEFINE k == i - 1
    <2>1. k \in Int
      OBVIOUS
    <2> HIDE DEF k
    <2>2. IsFiniteSet(1 .. k)
      BY <2>1, FS_Interval
    <2>3. QED
      BY <2>2 DEF k
  <1>5. \A i \in 1 .. m + 1 : Offset(n, i) \in Int
    <2> SUFFICES ASSUME NEW i \in 1 .. m + 1 PROVE Offset(n, i) \in Int
      OBVIOUS
    <2> DEFINE S == 1 .. i - 1
    <2>1. IsFiniteSet(S) /\ (\A x \in S : n[x] \in Int) /\ Offset(n, i) = SumOf(n, S)
      BY <1>2, <1>4
    <2> HIDE DEF S
    <2>2. QED
      BY <2>1, SumAdd
  <1>6. ASSUME NEW i \in 1 .. m PROVE Offset(n, i + 1) = Offset(n, i) + n[i]
    <2> DEFINE S == 1 .. (i + 1) - 1
    <2>1. i + 1 \in 1 .. m + 1 /\ i \in 1 .. m + 1 /\ i \in S /\ S \ {i} = 1 .. i - 1
      OBVIOUS
    <2>2. IsFiniteSet(S) /\ \A x \in S : n[x] \in Int
      BY <1>4, <2>1
    <2>3. Offset(n, i + 1) = SumOf(n, S) /\ Offset(n, i) = SumOf(n, S \ {i})
      BY <1>2, <2>1
    <2>4. Offset(n, i) \in Int
      BY <1>5, <2>1
    <2> HIDE DEF S
    <2>5. SumOf(n, S) = n[i] + SumOf(n, S \ {i})
      BY <2>1, <2>2, SumAdd
    <2>6. QED
      BY <2>3, <2>4, <2>5
  <1>7. QED
    BY <1>3, <1>5, <1>6

\* Starts of m rows of n[i] places, one row after the other.
ArePacked(starts, m, n) ==
  /\ starts[1] = 0
  /\ \A i \in 1 .. m + 1 : starts[i] \in Nat
  /\ \A i \in 1 .. m : starts[i + 1] = starts[i] + n[i]

\* Offsets are starts of packed rows.
LEMMA OffsetsPacked ==
  ASSUME NEW m \in Nat, NEW n, \A j \in 1 .. m : n[j] \in Nat
  PROVE  ArePacked([i \in 1 .. m + 1 |-> Offset(n, i)], m, n)
  <1> DEFINE T == {k \in Nat : k + 1 \in 1 .. m + 1 => Offset(n, k + 1) \in Nat}
  <1>1. 0 \in T
    BY OffsetIs
  <1>2. ASSUME NEW k \in Nat, k \in T PROVE k + 1 \in T
    BY <1>2, OffsetIs
  <1>3. \A k \in Nat : k \in T
    <2> HIDE DEF T
    <2> QED BY <1>1, <1>2, SetInduction
  <1>4. \A i \in 1 .. m + 1 : Offset(n, i) \in Nat
    <2> SUFFICES ASSUME NEW i \in 1 .. m + 1 PROVE Offset(n, i) \in Nat
      OBVIOUS
    <2>1. i - 1 \in Nat /\ (i - 1) + 1 = i
      OBVIOUS
    <2>2. i - 1 \in T
      BY <1>3, <2>1
    <2>3. QED
      BY <2>1, <2>2
  <1> DEFINE starts == [i \in 1 .. m + 1 |-> Offset(n, i)]
  <1>5. \A i \in 1 .. m + 1 : starts[i] = Offset(n, i)
    OBVIOUS
  <1> HIDE DEF starts
  <1>6. 1 \in 1 .. m + 1 /\ \A i \in 1 .. m : i \in 1 .. m + 1 /\ i + 1 \in 1 .. m + 1
    OBVIOUS
  <1>7. Offset(n, 1) = 0 /\ \A i \in 1 .. m : Offset(n, i + 1) = Offset(n, i) + n[i]
    BY OffsetIs
  <1>8. ArePacked(starts, m, n)
    BY <1>4, <1>5, <1>6, <1>7 DEF ArePacked
  <1>9. QED
    BY <1>8 DEF starts

\* Later rows lie behind earlier ones.
LEMMA PackedInOrder ==
  ASSUME NEW m \in Nat, NEW n, \A j \in 1 .. m : n[j] \in Nat, NEW starts, ArePacked(starts, m, n)
  PROVE  \A i, j \in 1 .. m + 1 : i < j => starts[i] + n[i] <= starts[j]
  <1> DEFINE T == {k \in Nat : \A i \in 1 .. m + 1 :
                     i + 1 + k \in 1 .. m + 1 => starts[i] + n[i] <= starts[i + 1 + k]}
  <1>1. 0 \in T
    BY DEF ArePacked
  <1>2. ASSUME NEW k \in Nat, k \in T PROVE k + 1 \in T
    <2> SUFFICES ASSUME NEW i \in 1 .. m + 1, i + 1 + (k + 1) \in 1 .. m + 1
                 PROVE  starts[i] + n[i] <= starts[i + 1 + (k + 1)]
      OBVIOUS
    <2> DEFINE j == i + 1 + k
    <2>1. j \in 1 .. m /\ j \in 1 .. m + 1 /\ i + 1 + (k + 1) = j + 1 /\ i \in 1 .. m
      OBVIOUS
    <2>2. starts[i] + n[i] <= starts[j]
      BY <1>2, <2>1
    <2> HIDE DEF j
    <2>3. /\ starts[j + 1] = starts[j] + n[j] /\ n[j] \in Nat /\ n[i] \in Nat
          /\ starts[j] \in Nat /\ starts[i] \in Nat
      BY <2>1 DEF ArePacked
    <2>4. QED
      BY <2>1, <2>2, <2>3
  <1>3. \A k \in Nat : k \in T
    <2> HIDE DEF T
    <2> QED BY <1>1, <1>2, SetInduction
  <1>4. ASSUME NEW i \in 1 .. m + 1, NEW j \in 1 .. m + 1, i < j
        PROVE  starts[i] + n[i] <= starts[j]
    <2>1. j - i - 1 \in Nat /\ i + 1 + (j - i - 1) = j
      BY <1>4
    <2>2. j - i - 1 \in T
      BY <1>3, <2>1
    <2>3. QED
      BY <2>1, <2>2
  <1>5. QED
    BY <1>4

\* Rows of n[i] values, and the sequence that joins them.
IsRows(rows, m, n, S) ==
  /\ rows = [i \in 1 .. m |-> rows[i]]
  /\ \A i \in 1 .. m : rows[i] \in [1 .. n[i] -> S]

IsJoined(f, rows, m, n, starts, S) ==
  /\ f \in [1 .. starts[m + 1] -> S]
  /\ \A i \in 1 .. m : \A k \in 1 .. n[i] : f[starts[i] + k] = rows[i][k]

\* FlattenSeq joins rows: each value lies where the starts say.
LEMMA FlattenIs ==
  ASSUME NEW m \in Nat, NEW n, \A i \in 1 .. m : n[i] \in Nat,
         NEW starts, ArePacked(starts, m, n),
         NEW S, NEW rows, IsRows(rows, m, n, S)
  PROVE  IsJoined(FlattenSeq(rows), rows, m, n, starts, S)
  <1>0. rows = [i \in 1 .. m |-> rows[i]] /\ \A i \in 1 .. m : rows[i] \in [1 .. n[i] -> S]
    BY DEF IsRows
  <1>1. \A i \in 1 .. m : rows[i] \in Seq(S) /\ Len(rows[i]) = n[i]
    <2> SUFFICES ASSUME NEW i \in 1 .. m PROVE rows[i] \in Seq(S) /\ Len(rows[i]) = n[i]
      OBVIOUS
    <2>1. n[i] \in Nat /\ rows[i] \in [1 .. n[i] -> S]
      BY <1>0
    <2>2. rows[i] \in Seq(S)
      BY <2>1, SeqDef
    <2>3. QED
      BY <2>1, <2>2, LenProperties
  <1>2. Len(rows) = m
    <2>1. rows \in [1 .. m -> Seq(S)]
      BY <1>0, <1>1
    <2>2. rows \in Seq(Seq(S))
      BY <2>1, SeqDef
    <2>3. QED
      BY <2>1, <2>2, LenProperties
  <1>3. CASE m = 0
    <2>1. FlattenSeq(rows) = rows
      BY <1>2, <1>3 DEF FlattenSeq
    <2>2. starts[m + 1] = 0
      BY <1>3 DEF ArePacked
    <2>3. 1 .. m = {} /\ 1 .. starts[m + 1] = {}
      BY <1>3, <2>2
    <2>4. rows \in [{} -> S]
      BY <1>0, <2>3
    <2>5. QED
      BY <2>1, <2>3, <2>4 DEF IsJoined
  <1>4. CASE m # 0
    <2> DEFINE Rec(f) == [i \in 1 .. m |-> IF i = 1 THEN rows[i] ELSE f[i - 1] \o rows[i]]
               g == CHOOSE f : f = Rec(f)
               step == [i \in Nat |-> [x \in Seq(S) |->
                          IF i + 2 \in 1 .. m THEN x \o rows[i + 2] ELSE x]]
    <2>1. FlattenSeq(rows) = g[m]
      BY <1>2, <1>4 DEF FlattenSeq
    <2>2. step \in [Nat -> [Seq(S) -> Seq(S)]]
      BY <1>1, ConcatProperties
    <2>3. m - 1 \in Nat /\ 1 \in 1 .. m /\ rows[1] \in Seq(S)
      BY <1>1, <1>4
    <2>4. PICK h \in [0 .. m - 1 -> Seq(S)] : IsRun(h, m - 1, rows[1], step)
      <3> DEFINE k == m - 1
      <3>1. k \in Nat
        BY <2>3
      <3> HIDE DEF k, step
      <3>2. \E h \in [0 .. k -> Seq(S)] : IsRun(h, k, rows[1], step)
        BY <2>2, <2>3, <3>1, RunsExist
      <3>3. QED
        BY <3>2 DEF k
    <2> DEFINE f == [i \in 1 .. m |-> h[i - 1]]
    <2>5. f[1] = rows[1]
      BY <2>3, <2>4 DEF IsRun
    <2>6. ASSUME NEW i \in 2 .. m PROVE f[i] = f[i - 1] \o rows[i]
      <3>1. i - 2 \in Nat /\ i - 2 \in 0 .. m - 2 /\ (i - 2) + 1 = i - 1 /\ (i - 2) + 2 = i
            /\ i - 2 \in 0 .. (m - 1) - 1 /\ i - 2 \in 0 .. m - 1 /\ i \in 1 .. m /\ i - 1 \in 1 .. m
        OBVIOUS
      <3>2. h[(i - 2) + 1] = step[i - 2][h[i - 2]]
        BY <2>4, <3>1 DEF IsRun
      <3>3. h[i - 2] \in Seq(S)
        BY <2>4, <3>1
      <3>4. f[i] = h[i - 1] /\ f[i - 1] = h[i - 2]
        BY <3>1
      <3>5. QED
        BY <3>1, <3>2, <3>3, <3>4
    <2> HIDE DEF f, step
    <2>7. f = Rec(f)
      <3>1. f = [i \in 1 .. m |-> f[i]]
        BY DEF f
      <3>2. \A i \in 1 .. m : i = 1 \/ i \in 2 .. m
        OBVIOUS
      <3>3. \A i \in 1 .. m : f[i] = IF i = 1 THEN rows[i] ELSE f[i - 1] \o rows[i]
        BY <2>5, <2>6, <3>2
      <3>4. QED
        BY <3>1, <3>3
    <2>8. g = Rec(g)
      BY <2>7
    <2> HIDE DEF g
    <2>9. g[1] = rows[1]
      <3>1. Rec(g)[1] = rows[1]
        BY <2>3
      <3> HIDE DEF Rec
      <3>2. QED
        BY <2>8, <3>1
    <2>10. ASSUME NEW i \in 2 .. m PROVE g[i] = g[i - 1] \o rows[i]
      <3>1. Rec(g)[i] = g[i - 1] \o rows[i]
        <4>1. i \in 1 .. m /\ i # 1
          OBVIOUS
        <4>2. QED
          BY <4>1
      <3> HIDE DEF Rec
      <3>2. QED
        BY <2>8, <3>1
    <2> HIDE DEF Rec
    <2> DEFINE Joins(i) ==
                 /\ g[i] \in Seq(S) /\ Len(g[i]) = starts[i + 1]
                 /\ \A j \in 1 .. i : \A k \in 1 .. n[j] : g[i][starts[j] + k] = rows[j][k]
               T == {i \in Nat : i + 1 \in 1 .. m => Joins(i + 1)}
    <2>11. 0 \in T
      <3>1. starts[2] = n[1] /\ starts[1] = 0
        BY <2>3 DEF ArePacked
      <3>2. g[1] \in Seq(S) /\ Len(g[1]) = starts[2]
        BY <1>1, <2>3, <2>9, <3>1
      <3>3. \A j \in 1 .. 1 : \A k \in 1 .. n[j] : g[1][starts[j] + k] = rows[j][k]
        BY <2>9, <3>1
      <3>4. QED
        BY <3>2, <3>3
    <2>12. ASSUME NEW i \in Nat, i \in T PROVE i + 1 \in T
      <3> DEFINE a == i + 1
                 b == (i + 1) + 1
      <3> HIDE DEF Joins
      <3> SUFFICES ASSUME b \in 1 .. m PROVE Joins(b)
        OBVIOUS
      <3>1. /\ a \in 1 .. m /\ b \in 2 .. m /\ a = b - 1 /\ a + 1 = b /\ a \in Nat /\ b \in Nat
        OBVIOUS
      <3>2. Joins(a)
        BY <2>12, <3>1
      <3> HIDE DEF a, b
      <3>3. g[b] = g[a] \o rows[b]
        BY <2>10, <3>1
      <3>4. /\ rows[b] \in Seq(S) /\ Len(rows[b]) = n[b]
        BY <1>1, <3>1
      <3>5. /\ starts[b + 1] = starts[b] + n[b] /\ starts[b] \in Nat /\ n[b] \in Nat
        BY <3>1 DEF ArePacked
      <3>6. /\ g[b] \in Seq(S) /\ Len(g[b]) = starts[b] + n[b]
            /\ \A x \in 1 .. starts[b] + n[b] :
                 g[b][x] = IF x <= starts[b] THEN g[a][x] ELSE rows[b][x - starts[b]]
        <4>1. g[a] \in Seq(S) /\ Len(g[a]) = starts[b]
          BY <3>1, <3>2 DEF Joins
        <4>2. /\ g[a] \o rows[b] \in Seq(S)
              /\ Len(g[a] \o rows[b]) = Len(g[a]) + Len(rows[b])
              /\ \A x \in 1 .. Len(g[a]) + Len(rows[b]) :
                   (g[a] \o rows[b])[x] = IF x <= Len(g[a]) THEN g[a][x] ELSE rows[b][x - Len(g[a])]
          BY <3>4, <4>1, ConcatProperties
        <4>3. QED
          BY <3>3, <3>4, <4>1, <4>2
      <3>7. ASSUME NEW j \in 1 .. b, NEW k \in 1 .. n[j] PROVE g[b][starts[j] + k] = rows[j][k]
        <4>1. CASE j = b
          <5>1. starts[b] + k \in 1 .. starts[b] + n[b] /\ ~ (starts[b] + k <= starts[b])
                /\ (starts[b] + k) - starts[b] = k
            BY <3>5, <4>1
          <5>2. g[b][starts[b] + k] = rows[b][k]
            BY ONLY <3>6, <5>1
          <5>3. QED
            BY <4>1, <5>2
        <4>2. CASE j # b
          <5>1. j \in 1 .. a /\ j \in 1 .. m + 1 /\ b \in 1 .. m + 1 /\ j < b /\ j \in 1 .. m
            BY <3>1, <4>2
          <5>2. starts[j] + n[j] <= starts[b]
            BY <5>1, PackedInOrder
          <5>3. starts[j] \in Nat /\ n[j] \in Nat
            BY <5>1 DEF ArePacked
          <5>4. starts[j] + k \in 1 .. starts[b] + n[b] /\ starts[j] + k <= starts[b]
            <6> DEFINE p == starts[j]
                       q == starts[b]
                       l == n[j]
                       z == n[b]
            <6>1. p \in Nat /\ q \in Nat /\ l \in Nat /\ z \in Nat /\ p + l <= q /\ k \in 1 .. l
              BY <3>5, <5>2, <5>3
            <6> HIDE DEF p, q, l, z
            <6>2. p + k \in 1 .. q + z /\ p + k <= q
              BY <6>1
            <6>3. QED
              BY <6>2 DEF p, q, l, z
          <5>5. g[b][starts[j] + k] = g[a][starts[j] + k]
            BY <3>6, <5>4
          <5>6. g[a][starts[j] + k] = rows[j][k]
            BY <3>2, <5>1 DEF Joins
          <5>7. QED
            BY <5>5, <5>6
        <4>3. QED
          BY <4>1, <4>2
      <3>8. QED
        BY <3>5, <3>6, <3>7 DEF Joins
    <2>13. \A i \in Nat : i \in T
      <3> HIDE DEF T
      <3> QED BY <2>11, <2>12, SetInduction
    <2>14. Joins(m)
      <3>1. (m - 1) + 1 = m /\ m \in 1 .. m
        BY <2>3
      <3>2. m - 1 \in T
        <4> HIDE DEF T
        <4> QED BY <2>3, <2>13
      <3> HIDE DEF Joins
      <3>3. QED
        BY <3>1, <3>2
    <2>15. g[m] \in [1 .. starts[m + 1] -> S]
      BY <2>14, LenProperties
    <2>16. QED
      BY <2>1, <2>14, <2>15 DEF IsJoined
  <1>5. QED
    BY <1>3, <1>4

----------------------------------------------------------------------------
(* A row of the convolution.                                               *)

\* Row i of call c holds the tokens of request r after the first m, and the line the
\* row starts from, if it does, the inputs before them.
IsRowOf(c, i, r, m, state) ==
  /\ c.width = layer.width
  /\ m \in Nat
  /\ SeqLen(c, i) \in Nat \ {0}
  /\ \A p \in 0 .. SeqLen(c, i) - 1 : Input(c, i, p) = << r, m + p + 1 >>
  /\ c.init[i] = (m > 0)
  /\ m > 0 => state = Tail(TrueWindow(r, m))

\* What a window leaves for the next token.
LEMMA Tails ==
  ASSUME layer.width \in 2 .. 5, NEW r, NEW n \in Int
  PROVE  Tail(TrueWindow(r, n)) = [j \in 1 .. layer.width - 1 |-> TokenOf(r, n - layer.width + j + 1)]
  <1> DEFINE w == layer.width
             W == TrueWindow(r, n)
             S == {W[j] : j \in 1 .. w}
  <1>1. w \in Nat /\ w - 1 \in Nat /\ w # 0
    OBVIOUS
  <1>2. W = [j \in 1 .. w |-> TokenOf(r, n - w + j)]
    BY DEF TrueWindow
  <1>3. \A j \in 1 .. w : W[j] = TokenOf(r, n - w + j)
    BY <1>2
  <1>4. W \in Seq(S) /\ Len(W) = w /\ W # << >>
    <2>1. W \in [1 .. w -> S]
      BY <1>2
    <2>2. W \in Seq(S)
      BY <1>1, <2>1, SeqDef
    <2>3. Len(W) = w
      BY <1>1, <2>1, <2>2, LenProperties
    <2> HIDE DEF W, S, w
    <2>4. QED
      BY <1>1, <2>2, <2>3, EmptySeq
  <1> HIDE DEF S, W
  <1>5. Tail(W) = [j \in 1 .. w - 1 |-> W[j + 1]]
    <2> DEFINE v == w - 1
               t == Tail(W)
    <2>1. v \in Nat /\ t \in Seq(S) /\ Len(t) = v
          /\ \A j \in 1 .. Len(t) : t[j] = W[j + 1]
      BY <1>1, <1>4, HeadTailProperties
    <2> HIDE DEF v, t
    <2>2. t = [j \in 1 .. v |-> t[j]]
      BY <2>1, SeqIs
    <2>3. t = [j \in 1 .. v |-> W[j + 1]]
      BY <2>1, <2>2
    <2>4. QED
      BY <2>3 DEF v, t
  <1>6. \A j \in 1 .. w - 1 : j + 1 \in 1 .. w /\ n - w + (j + 1) = n - w + j + 1
    BY <1>1
  <1>7. QED
    BY <1>3, <1>5, <1>6 DEF W

\* The window of a token, whichever chunk of the row it lies in.
LEMMA WindowIs ==
  ASSUME layer.width \in 2 .. 5, NEW c, NEW i, NEW r, NEW m, NEW state,
         IsRowOf(c, i, r, m, state),
         NEW offset \in Nat, offset = 0 \/ offset >= layer.width - 1,
         NEW p \in Nat, offset <= p, p < SeqLen(c, i)
  PROVE  Window(c, i, offset, p, state) = TrueWindow(r, m + p + 1)
  <1> DEFINE w == layer.width
             cols == Columns(c, i, offset, state)
             fresh == [k \in 1 .. p - offset + 1 |-> Input(c, i, offset + k - 1)]
             seen == cols \o fresh
             T(q) == TokenOf(r, m + offset - w + 1 + q)
             S == {T(q) : q \in 1 .. w + p - offset}
  <1>1. w \in 2 .. 5 /\ w \in Nat /\ c.width = w /\ m \in Nat /\ StateLen(c) = w - 1
    BY DEF IsRowOf, StateLen
  <1>2. \A q \in 0 .. SeqLen(c, i) - 1 : Input(c, i, q) = TokenOf(r, m + q + 1)
    BY <1>1 DEF IsRowOf, TokenOf
  <1>3. SeqLen(c, i) \in Nat
    BY DEF IsRowOf
  <1> HIDE DEF T, S
  <1>4. cols = [j \in 1 .. w - 1 |-> T(j)]
    <2>1. CASE offset = 0 /\ m > 0
      <3>1. c.init[i] /\ state = Tail(TrueWindow(r, m))
        BY <2>1 DEF IsRowOf
      <3>2. state = [j \in 1 .. w - 1 |-> TokenOf(r, m - w + j + 1)]
        BY <1>1, <3>1, Tails
      <3>3. \A j \in 1 .. w - 1 : state[j] = T(j)
        <4>1. \A j \in 1 .. w - 1 : m - w + j + 1 = m + offset - w + 1 + j
          BY <1>1, <2>1
        <4>2. QED
          BY <3>2, <4>1 DEF T
      <3>4. QED
        BY <1>1, <2>1, <3>1, <3>3 DEF Columns
    <2>2. CASE offset = 0 /\ m = 0
      <3>1. ~ c.init[i]
        <4>1. c.init[i] = (m > 0) /\ (m > 0) = FALSE
          BY <2>2 DEF IsRowOf
        <4>2. QED
          BY <4>1
      <3>2. \A j \in 1 .. w - 1 : T(j) = Zero
        BY <1>1, <2>2 DEF T, TokenOf
      <3>3. QED
        BY <1>1, <2>2, <3>1, <3>2 DEF Columns
    <2>3. CASE offset # 0
      <3>1. \A j \in 1 .. w - 1 : offset - w + j \in 0 .. SeqLen(c, i) - 1
                                  /\ m + (offset - w + j) + 1 = m + offset - w + 1 + j
        BY <1>1, <1>3, <2>3
      <3>2. \A j \in 1 .. w - 1 : Input(c, i, offset - w + j) = T(j)
        BY <1>2, <3>1 DEF T
      <3>3. QED
        BY <1>1, <2>3, <3>2 DEF Columns
    <2>4. QED
      BY <1>1, <2>1, <2>2, <2>3
  <1>5. fresh = [k \in 1 .. p - offset + 1 |-> T(w - 1 + k)]
    <2>1. \A k \in 1 .. p - offset + 1 :
            /\ offset + k - 1 \in 0 .. SeqLen(c, i) - 1
            /\ m + (offset + k - 1) + 1 = m + offset - w + 1 + (w - 1 + k)
      BY <1>1, <1>3
    <2>2. \A k \in 1 .. p - offset + 1 : Input(c, i, offset + k - 1) = T(w - 1 + k)
      BY <1>2, <2>1 DEF T
    <2>3. QED
      BY <2>2
  <1> HIDE DEF cols, fresh
  <1>6. cols \in [1 .. w - 1 -> S]
    <2>1. \A j \in 1 .. w - 1 : j \in 1 .. w + p - offset
      BY <1>1
    <2>2. QED
      BY <1>4, <2>1 DEF S
  <1>7. fresh \in [1 .. p - offset + 1 -> S]
    <2>1. \A k \in 1 .. p - offset + 1 : w - 1 + k \in 1 .. w + p - offset
      BY <1>1
    <2>2. QED
      BY <1>5, <2>1 DEF S
  <1>8. /\ Len(seen) = w + p - offset
        /\ \A q \in 1 .. w + p - offset : seen[q] = T(q)
    <2> DEFINE a == w - 1
               b == p - offset + 1
    <2>1. a \in Nat /\ b \in Nat /\ a + b = w + p - offset
      BY <1>1
    <2>2. cols = [j \in 1 .. a |-> T(j)] /\ fresh = [k \in 1 .. b |-> T(a + k)]
          /\ cols \in [1 .. a -> S] /\ fresh \in [1 .. b -> S]
      BY <1>4, <1>5, <1>6, <1>7
    <2> HIDE DEF a, b, seen
    <2>3. /\ Len(cols \o fresh) = a + b
          /\ \A q \in 1 .. a : (cols \o fresh)[q] = cols[q]
          /\ \A q \in 1 .. b : (cols \o fresh)[a + q] = fresh[q]
      BY <2>1, <2>2, JoinIs
    <2>4. ASSUME NEW q \in 1 .. a + b PROVE seen[q] = T(q)
      <3>1. CASE q \in 1 .. a
        BY <2>2, <2>3, <3>1 DEF seen
      <3>2. CASE q \notin 1 .. a
        <4>1. q - a \in 1 .. b /\ a + (q - a) = q
          BY <2>1, <3>2
        <4>2. seen[a + (q - a)] = fresh[q - a] /\ fresh[q - a] = T(a + (q - a))
          BY <2>2, <2>3, <4>1 DEF seen
        <4>3. QED
          BY <4>1, <4>2
      <3>3. QED
        BY <3>1, <3>2
    <2>5. QED
      BY <2>1, <2>3, <2>4 DEF seen
  <1>9. Window(c, i, offset, p, state) = SubSeq(seen, Len(seen) - w + 1, Len(seen))
    BY <1>1 DEF Window, cols, fresh
  <1> HIDE DEF seen
  <1>10. Window(c, i, offset, p, state) = [j \in 1 .. w |-> T(p - offset + j)]
    <2> DEFINE a == p - offset + 1
               b == w + p - offset
    <2>1. a \in Int /\ b \in Int /\ b = a + w - 1 /\ b - w + 1 = a
      BY <1>1
    <2>2. \A j \in 1 .. w : a + j - 1 \in 1 .. b /\ a + j - 1 = p - offset + j
      BY <1>1
    <2>3. Len(seen) = b /\ \A q \in 1 .. b : seen[q] = T(q)
      BY <1>8
    <2> HIDE DEF a, b
    <2>4. Window(c, i, offset, p, state) = SubSeq(seen, a, b)
      BY <1>9, <2>1, <2>3
    <2>5. SubSeq(seen, a, b) = [j \in 1 .. w |-> seen[a + j - 1]]
      BY <1>1, <2>1, PartIs, SMTT(30)
    <2>6. \A j \in 1 .. w : seen[a + j - 1] = T(p - offset + j)
      BY <2>2, <2>3
    <2>7. QED
      BY <2>4, <2>5, <2>6
  <1>11. \A j \in 1 .. w : T(p - offset + j) = TokenOf(r, m + p + 1 - w + j)
    <2>1. \A j \in 1 .. w : m + offset - w + 1 + (p - offset + j) = m + p + 1 - w + j
      BY <1>1
    <2>2. QED
      BY <2>1 DEF T
  <1>12. TrueWindow(r, m + p + 1) = [j \in 1 .. w |-> TokenOf(r, m + p + 1 - w + j)]
    BY <1>1 DEF TrueWindow
  <1>13. QED
    BY <1>10, <1>11, <1>12

\* What a row's inputs and the line it starts from are, as tokens of its request.
LEMMA RowIs ==
  ASSUME layer.width \in 2 .. 5, NEW c, NEW i, NEW r, NEW m, NEW state,
         IsRowOf(c, i, r, m, state)
  PROVE  /\ c.width = layer.width /\ StateLen(c) = layer.width - 1 /\ m \in Nat
         /\ SeqLen(c, i) \in Nat \ {0}
         /\ \A p \in 0 .. SeqLen(c, i) - 1 : Input(c, i, p) = TokenOf(r, m + (p + 1))
         /\ c.init[i] => \A j \in 1 .. layer.width - 1 : state[j] = TokenOf(r, m - layer.width + j + 1)
         /\ ~ c.init[i] => m = 0
  <1>1. /\ c.width = layer.width /\ StateLen(c) = layer.width - 1 /\ m \in Nat
        /\ SeqLen(c, i) \in Nat \ {0}
    BY DEF IsRowOf, StateLen
  <1>2. ASSUME NEW p \in 0 .. SeqLen(c, i) - 1 PROVE Input(c, i, p) = TokenOf(r, m + (p + 1))
    <2>1. m + p + 1 > 0 /\ m + p + 1 = m + (p + 1)
      BY <1>1
    <2>2. Input(c, i, p) = << r, m + p + 1 >>
      BY DEF IsRowOf
    <2>3. QED
      BY <2>1, <2>2 DEF TokenOf
  <1>3. c.init[i] = (m > 0)
    BY DEF IsRowOf
  <1>4. ASSUME m > 0, NEW j \in 1 .. layer.width - 1
        PROVE  state[j] = TokenOf(r, m - layer.width + j + 1)
    <2>1. state = Tail(TrueWindow(r, m)) /\ m \in Int
      BY <1>1, <1>4 DEF IsRowOf
    <2>2. state = [k \in 1 .. layer.width - 1 |-> TokenOf(r, m - layer.width + k + 1)]
      BY <2>1, Tails
    <2>3. QED
      BY <2>2
  <1>5. m > 0 \/ (m = 0 /\ (m > 0) = FALSE)
    BY <1>1
  <1>6. QED
    BY <1>1, <1>2, <1>3, <1>4, <1>5

\* The line a row leaves behind.
LEMMA StateAfterIs ==
  ASSUME layer.width \in 2 .. 5, NEW c, NEW i, NEW r, NEW m, NEW state,
         IsRowOf(c, i, r, m, state)
  PROVE  StateAfter(c, i, state) = Tail(TrueWindow(r, m + SeqLen(c, i)))
  <1> DEFINE w == layer.width
             n == SeqLen(c, i)
             after == StateAfter(c, i, state)
             T(j) == TokenOf(r, m + n - w + j + 1)
  <1>1. /\ w \in 2 .. 5 /\ StateLen(c) = w - 1 /\ m \in Nat /\ n \in Nat \ {0}
        /\ \A p \in 0 .. n - 1 : Input(c, i, p) = TokenOf(r, m + (p + 1))
        /\ c.init[i] => \A j \in 1 .. w - 1 : state[j] = TokenOf(r, m - w + j + 1)
        /\ ~ c.init[i] => m = 0
    BY RowIs
  <1>2. Tail(TrueWindow(r, m + n)) = [j \in 1 .. w - 1 |-> TokenOf(r, (m + n) - w + j + 1)]
    <2> DEFINE q == m + n
    <2>1. q \in Int
      BY <1>1
    <2> HIDE DEF q
    <2>2. Tail(TrueWindow(r, q)) = [j \in 1 .. layer.width - 1 |-> TokenOf(r, q - layer.width + j + 1)]
      BY <2>1, Tails
    <2>3. QED
      BY <2>2 DEF q
  <1>3. after = [j \in 1 .. w - 1 |->
                  IF n >= w - 1 THEN Input(c, i, n - (w - 1) + j - 1)
                  ELSE IF j > (w - 1) - n THEN Input(c, i, j - 1 - ((w - 1) - n))
                  ELSE IF c.init[i] THEN state[j + n] ELSE Zero]
    BY <1>1 DEF StateAfter
  <1> HIDE DEF w, n, after
  <1>4. ASSUME NEW j \in 1 .. w - 1
        PROVE  (IF n >= w - 1 THEN Input(c, i, n - (w - 1) + j - 1)
                ELSE IF j > (w - 1) - n THEN Input(c, i, j - 1 - ((w - 1) - n))
                ELSE IF c.init[i] THEN state[j + n] ELSE Zero) = TokenOf(r, (m + n) - w + j + 1)
    <2>1. CASE n >= w - 1 \/ j > (w - 1) - n
      <3>1. /\ n - (w - 1) + j - 1 = n - w + j /\ j - 1 - ((w - 1) - n) = n - w + j
            /\ n - w + j \in 0 .. n - 1 /\ m + ((n - w + j) + 1) = (m + n) - w + j + 1
        BY <1>1, <2>1
      <3>2. Input(c, i, n - w + j) = TokenOf(r, (m + n) - w + j + 1)
        BY <1>1, <3>1
      <3>3. QED
        BY <2>1, <3>1, <3>2
    <2>2. CASE ~ (n >= w - 1) /\ ~ (j > (w - 1) - n) /\ c.init[i]
      <3>1. j + n \in 1 .. w - 1 /\ m - w + (j + n) + 1 = (m + n) - w + j + 1
        BY <1>1, <2>2
      <3>2. state[j + n] = TokenOf(r, (m + n) - w + j + 1)
        BY <1>1, <2>2, <3>1
      <3>3. QED
        BY <2>2, <3>2
    <2>3. CASE ~ (n >= w - 1) /\ ~ (j > (w - 1) - n) /\ ~ c.init[i]
      <3>1. ~ ((m + n) - w + j + 1 > 0)
        BY <1>1, <2>3
      <3>2. QED
        BY <2>3, <3>1 DEF TokenOf
    <2>4. QED
      BY <2>1, <2>2, <2>3
  <1>5. after = [j \in 1 .. w - 1 |-> TokenOf(r, (m + n) - w + j + 1)]
    BY <1>3, <1>4
  <1>6. QED
    BY <1>2, <1>5 DEF after, n

\* Both for width 4.
LEMMA TailsNarrow ==
  ASSUME layer.width = 4, NEW r, NEW n \in Int
  PROVE  Tail(TrueWindow(r, n)) = [j \in 1 .. 3 |-> TokenOf(r, n - 4 + j + 1)]
  <1>1. layer.width \in 2 .. 5 /\ layer.width - 1 = 3
    OBVIOUS
  <1>2. Tail(TrueWindow(r, n)) = [j \in 1 .. layer.width - 1 |-> TokenOf(r, n - layer.width + j + 1)]
    BY <1>1, Tails
  <1>3. QED
    BY <1>1, <1>2

LEMMA RowIsNarrow ==
  ASSUME layer.width = 4, NEW c, NEW i, NEW r, NEW m, NEW state,
         IsRowOf(c, i, r, m, state)
  PROVE  /\ m \in Nat /\ SeqLen(c, i) \in Nat \ {0}
         /\ \A p \in 0 .. SeqLen(c, i) - 1 : Input(c, i, p) = TokenOf(r, m + (p + 1))
         /\ c.init[i] => \A j \in 1 .. 3 : state[j] = TokenOf(r, m - 4 + j + 1)
         /\ ~ c.init[i] => m = 0
  <1>1. layer.width \in 2 .. 5 /\ layer.width - 1 = 3
    OBVIOUS
  <1>2. /\ m \in Nat /\ SeqLen(c, i) \in Nat \ {0}
        /\ \A p \in 0 .. SeqLen(c, i) - 1 : Input(c, i, p) = TokenOf(r, m + (p + 1))
        /\ ~ c.init[i] => m = 0
    BY <1>1, RowIs
  <1>3. c.init[i] => \A j \in 1 .. layer.width - 1 : state[j] = TokenOf(r, m - layer.width + j + 1)
    BY <1>1, RowIs
  <1>4. QED
    BY <1>1, <1>2, <1>3

\* The same for the line that the first kernel of the split leaves behind.
LEMMA HeadStateAfterIs ==
  ASSUME layer.width = 4, NEW c, NEW i, NEW r, NEW m, NEW state,
         IsRowOf(c, i, r, m, state)
  PROVE  HeadStateAfter(c, i, state) = Tail(TrueWindow(r, m + SeqLen(c, i)))
  <1> DEFINE n == SeqLen(c, i)
             T(q) == TokenOf(r, m + n + q)
  <1>1. /\ m \in Nat /\ n \in Nat \ {0}
        /\ \A p \in 0 .. n - 1 : Input(c, i, p) = TokenOf(r, m + (p + 1))
        /\ c.init[i] => \A j \in 1 .. 3 : state[j] = TokenOf(r, m - 4 + j + 1)
        /\ ~ c.init[i] => m = 0
    BY RowIsNarrow
  <1>2. Tail(TrueWindow(r, m + n)) = [j \in 1 .. 3 |-> TokenOf(r, (m + n) - 4 + j + 1)]
    <2>1. m + n \in Int
      BY <1>1
    <2>2. QED
      BY <2>1, TailsNarrow
  <1> HIDE DEF n, T
  <1>3. Tail(TrueWindow(r, m + n)) = << T(-2), T(-1), T(0) >>
    <2>1. << T(-2), T(-1), T(0) >> = [j \in 1 .. 3 |-> T(j - 3)]
      OBVIOUS
    <2>2. \A j \in 1 .. 3 : (m + n) - 4 + j + 1 = m + n + (j - 3)
      BY <1>1
    <2>3. \A j \in 1 .. 3 : TokenOf(r, (m + n) - 4 + j + 1) = T(j - 3)
      BY <2>2 DEF T
    <2>4. QED
      BY <1>2, <2>1, <2>3
  <1>4. \A p \in 0 .. n - 1 : Input(c, i, p) = T(p + 1 - n)
    <2>1. \A p \in 0 .. n - 1 : m + (p + 1) = m + n + (p + 1 - n)
      BY <1>1
    <2>2. QED
      BY <1>1, <2>1 DEF T
  <1>5. c.init[i] => \A j \in 1 .. 3 : state[j] = T(j - 3 - n)
    <2>1. \A j \in 1 .. 3 : m - 4 + j + 1 = m + n + (j - 3 - n)
      BY <1>1
    <2>2. QED
      BY <1>1, <2>1 DEF T
  <1>6. ~ c.init[i] => \A q \in Int : q <= -n => T(q) = Zero
    <2> SUFFICES ASSUME ~ c.init[i], NEW q \in Int, q <= -n PROVE T(q) = Zero
      OBVIOUS
    <2>1. ~ (m + n + q > 0)
      BY <1>1
    <2>2. QED
      BY <2>1 DEF T, TokenOf
  <1>7. CASE n >= 3
    <2>1. /\ n - 3 \in 0 .. n - 1 /\ n - 2 \in 0 .. n - 1 /\ n - 1 \in 0 .. n - 1
          /\ (n - 3) + 1 - n = -2 /\ (n - 2) + 1 - n = -1 /\ (n - 1) + 1 - n = 0
          /\ n # 1
      BY <1>1, <1>7
    <2>2. Input(c, i, n - 3) = T(-2) /\ Input(c, i, n - 2) = T(-1) /\ Input(c, i, n - 1) = T(0)
      BY <1>4, <2>1
    <2>3. HeadStateAfter(c, i, state) = << Input(c, i, n - 3), Input(c, i, n - 2), Input(c, i, n - 1) >>
      BY <1>7, <2>1 DEF HeadStateAfter, n
    <2>4. QED
      BY <1>3, <2>2, <2>3 DEF n
  <1>8. CASE n = 1
    <2>1. Input(c, i, 0) = T(0)
      <3>1. 0 \in 0 .. n - 1 /\ 0 + 1 - n = 0
        BY <1>8
      <3>2. QED
        BY <1>4, <3>1
    <2>2. CASE c.init[i]
      <3>1. state[2] = T(-2) /\ state[3] = T(-1)
        <4>1. 2 - 3 - n = -2 /\ 3 - 3 - n = -1 /\ 2 \in 1 .. 3 /\ 3 \in 1 .. 3
          BY <1>8
        <4>2. QED
          BY <1>5, <2>2, <4>1
      <3>2. HeadStateAfter(c, i, state) = << state[2], state[3], Input(c, i, 0) >>
        BY <1>8, <2>2 DEF HeadStateAfter, n
      <3>3. QED
        BY <1>3, <2>1, <3>1, <3>2 DEF n
    <2>3. CASE ~ c.init[i]
      <3>1. T(-2) = Zero /\ T(-1) = Zero
        BY <1>6, <1>8, <2>3
      <3>2. HeadStateAfter(c, i, state) = << Zero, Zero, Input(c, i, 0) >>
        BY <1>8, <2>3 DEF HeadStateAfter, n
      <3>3. QED
        BY <1>3, <2>1, <3>1, <3>2 DEF n
    <2>4. QED
      BY <2>2, <2>3
  <1>9. CASE n = 2
    <2>1. Input(c, i, 0) = T(-1) /\ Input(c, i, 1) = T(0)
      <3>1. 0 \in 0 .. n - 1 /\ 0 + 1 - n = -1 /\ 1 \in 0 .. n - 1 /\ 1 + 1 - n = 0
        BY <1>9
      <3>2. QED
        BY <1>4, <3>1
    <2>2. (IF c.init[i] THEN state[3] ELSE Zero) = T(-2)
      <3>1. 3 - 3 - n = -2 /\ 3 \in 1 .. 3 /\ -2 <= -n
        BY <1>9
      <3>2. QED
        BY <1>5, <1>6, <3>1
    <2>3. HeadStateAfter(c, i, state)
            = << IF c.init[i] THEN state[3] ELSE Zero, Input(c, i, 0), Input(c, i, 1) >>
      BY <1>9 DEF HeadStateAfter, n
    <2>4. QED
      BY <1>3, <2>1, <2>2, <2>3 DEF n
  <1>10. QED
    BY <1>1, <1>7, <1>8, <1>9

----------------------------------------------------------------------------
(* A call of the convolution.                                              *)

\* A call whose first m rows hold the next tokens of the requests who[i], of which
\* had[i] tokens were seen before; old are the lines it finds.  The other rows pad it.
IsCall(c, m, who, had, old) ==
  /\ Len(c.lines) \in Nat /\ m \in 0 .. Len(c.lines)
  /\ c.starts[1] = 0 /\ \A i \in 1 .. Len(c.lines) + 1 : c.starts[i] \in Nat
  /\ Len(c.x) = c.starts[Len(c.lines) + 1]
  /\ \A i \in 1 .. Len(c.lines) : SeqLen(c, i) \in Nat \ {0}
  /\ c.padSlot \in {PadSlot, NullBlock}
  /\ c.width = layer.width
  /\ DOMAIN old = CacheLines
  /\ \A i \in 1 .. m : /\ c.lines[i] \in CacheLines
                       /\ \A j \in 1 .. Len(c.lines) : c.lines[j] = c.lines[i] => j = i
                       /\ IsRowOf(c, i, who[i], had[i], old[c.lines[i]])
  /\ \A i \in 1 .. Len(c.lines) : i > m => c.lines[i] = NullBlock

\* What the call has to leave behind: the lines hold the requests' last inputs, and
\* every token's output is made of its own window.
IsConvolved(c, m, who, had, old, done) ==
  /\ DOMAIN done.conv = CacheLines
  /\ \A i \in 1 .. m : done.conv[c.lines[i]] = Tail(TrueWindow(who[i], had[i] + SeqLen(c, i)))
  /\ \A l \in CacheLines : (\A i \in 1 .. m : c.lines[i] # l) => done.conv[l] = old[l]
  /\ \A i \in 1 .. m : \A k \in 1 .. SeqLen(c, i) :
       done.out[c.starts[i] + k] = TrueWindow(who[i], had[i] + k)

\* A row of a call that belongs to a request.
LEMMA CallRows ==
  ASSUME NEW c, NEW m, NEW who, NEW had, NEW old, IsCall(c, m, who, had, old), NEW i \in 1 .. m
  PROVE  /\ i \in Rows(c) /\ c.lines[i] \in CacheLines
         /\ IsRowOf(c, i, who[i], had[i], old[c.lines[i]])
         /\ SeqLen(c, i) \in Nat \ {0} /\ had[i] \in Nat
  <1>1. i \in Rows(c) /\ SeqLen(c, i) \in Nat \ {0}
    BY DEF IsCall, Rows
  <1>2. c.lines[i] \in CacheLines
    BY DEF IsCall
  <1>3. IsRowOf(c, i, who[i], had[i], old[c.lines[i]])
    BY Zenon DEF IsCall
  <1>4. had[i] \in Nat
    BY <1>3 DEF IsRowOf
  <1>5. QED
    BY <1>1, <1>2, <1>3, <1>4

\* A line that one row names gets that row's value, a line that none names stays.
LEMMA LinesAre ==
  ASSUME NEW c, NEW lines, NEW after, NEW l \in DOMAIN lines
  PROVE  /\ \A i \in DOMAIN after :
              c.lines[i] = l /\ (\A j \in DOMAIN after : c.lines[j] = l => j = i)
                => Lines(c, lines, after)[l] = after[i]
         /\ (\A j \in DOMAIN after : c.lines[j] # l) => Lines(c, lines, after)[l] = lines[l]
  <1>1. Lines(c, lines, after)[l]
          = IF \E i \in DOMAIN after : c.lines[i] = l
            THEN after[CHOOSE i \in DOMAIN after : c.lines[i] = l] ELSE lines[l]
    BY DEF Lines
  <1>2. ASSUME NEW i \in DOMAIN after, c.lines[i] = l, \A j \in DOMAIN after : c.lines[j] = l => j = i
        PROVE  Lines(c, lines, after)[l] = after[i]
    <2> DEFINE h == CHOOSE j \in DOMAIN after : c.lines[j] = l
    <2>1. h \in DOMAIN after /\ c.lines[h] = l
      BY <1>2
    <2>2. h = i
      BY <1>2, <2>1
    <2>3. QED
      BY <1>1, <1>2, <2>2
  <1>3. QED
    BY <1>1, <1>2

\* No kernel declines the row of a request.
LEMMA UsableIs ==
  ASSUME NEW c, NEW m, NEW who, NEW had, NEW old, IsCall(c, m, who, had, old)
  PROVE  \A i \in 1 .. m : Usable(c, i)
  <1>1. NumLines \in Nat /\ c.padSlot \in {-1, 0}
    BY TuningAssumption DEF TuningAssumption, IsCall, PadSlot, NullBlock
  <1>2. \A i \in 1 .. m : c.lines[i] \in 1 .. NumLines - 1
    BY DEF IsCall, CacheLines
  <1>3. QED
    BY <1>1, <1>2 DEF Usable

\* A row's tokens lie in x, and in no other row.
LEMMA RowOfIs ==
  ASSUME NEW c, NEW m, NEW who, NEW had, NEW old, IsCall(c, m, who, had, old),
         NEW i \in Rows(c), NEW k \in 1 .. SeqLen(c, i)
  PROVE  /\ c.starts[i] + k \in 1 .. Len(c.x)
         /\ RowOf(c, c.starts[i] + k) = i
         /\ c.starts[i] \in Nat /\ SeqLen(c, i) \in Nat \ {0}
  <1> DEFINE M == Len(c.lines)
             n == [j \in 1 .. M + 1 |-> IF j <= M THEN SeqLen(c, j) ELSE 0]
             s == c.starts
             t == s[i] + k
  <1>1. M \in Nat /\ Rows(c) = 1 .. M /\ i \in 1 .. M /\ s[1] = 0 /\ Len(c.x) = s[M + 1]
        /\ (\A j \in 1 .. M + 1 : s[j] \in Nat) /\ (\A j \in 1 .. M : SeqLen(c, j) \in Nat \ {0})
    BY DEF IsCall, Rows
  <1>2. \A j \in 1 .. M : n[j] = SeqLen(c, j) /\ n[j] \in Nat /\ j \in 1 .. M + 1 /\ j + 1 \in 1 .. M + 1
    BY <1>1
  <1>3. \A j \in 1 .. M : SeqLen(c, j) = s[j + 1] - s[j]
    BY DEF SeqLen
  <1> HIDE DEF M, n, s
  <1>4. \A j \in 1 .. M : s[j + 1] = s[j] + n[j]
    BY <1>1, <1>2, <1>3, SMTT(30)
  <1>5. ArePacked(s, M, n)
    BY <1>1, <1>4 DEF ArePacked
  <1>6. \A j, h \in 1 .. M + 1 : j < h => s[j] + n[j] <= s[h]
    BY <1>1, <1>2, <1>5, PackedInOrder
  <1>7. ASSUME NEW j \in 1 .. M, NEW h \in 1 .. M + 1, j < h PROVE s[j + 1] <= s[h]
    <2>1. s[j] + n[j] <= s[h]
      BY <1>2, <1>6, <1>7
    <2>2. s[j + 1] = s[j] + n[j]
      BY <1>4
    <2>3. QED
      BY <2>1, <2>2
  <1>8. s[i + 1] <= s[M + 1] /\ s[i] \in Nat /\ s[i + 1] \in Nat /\ s[M + 1] \in Nat
        /\ SeqLen(c, i) = s[i + 1] - s[i]
    BY <1>1, <1>3, <1>7
  <1>9. t \in 1 .. s[M + 1] /\ s[i] < t /\ t <= s[i + 1]
    BY <1>8
  <1>10. ASSUME NEW h \in 1 .. M, s[h] < t, t <= s[h + 1] PROVE h = i
    <2>1. s[h] \in Nat /\ s[h + 1] \in Nat /\ h \in 1 .. M + 1 /\ i \in 1 .. M + 1
      BY <1>1
    <2>2. CASE h < i
      <3>1. s[h + 1] <= s[i]
        BY <1>7, <2>1, <2>2
      <3>2. QED
        BY <1>8, <1>9, <1>10, <2>1, <3>1
    <2>3. CASE i < h
      <3>1. s[i + 1] <= s[h]
        BY <1>1, <1>7, <2>1, <2>3
      <3>2. QED
        BY <1>8, <1>9, <1>10, <2>1, <3>1
    <2>4. QED
      BY <1>1, <2>2, <2>3
  <1>11. RowOf(c, t) = CHOOSE h \in 1 .. M : s[h] < t /\ t <= s[h + 1]
    BY <1>1 DEF RowOf, s
  <1> HIDE DEF t
  <1>12. RowOf(c, t) = i
    BY <1>1, <1>9, <1>10, <1>11
  <1>13. QED
    BY <1>1, <1>8, <1>9, <1>12 DEF t, s, M

\* Which chunk a token lies in.
LEMMA ProductGrows ==
  ASSUME NEW b \in Nat, NEW p \in Nat, NEW q \in Nat, p <= q
  PROVE  b * p <= b * q
  <1>1. PICK d \in Nat : q = p + d
    <2>1. q - p \in Nat /\ q = p + (q - p)
      OBVIOUS
    <2>2. QED
      BY <2>1
  <1>2. b * q = b * p + b * d /\ b * d \in Nat /\ b * p \in Nat
    BY <1>1
  <1>3. QED
    BY <1>2

\* Quotient and remainder of natural numbers.
LEMMA DivIs ==
  ASSUME NEW a \in Nat, NEW b \in Nat \ {0}
  PROVE  /\ a \div b \in Nat /\ b * (a \div b) \in Nat
         /\ b * (a \div b) <= a /\ a < b * (a \div b) + b
  <1>1. a = b * (a \div b) + (a % b) /\ a \div b \in Nat /\ a % b \in 0 .. b - 1
    OBVIOUS
  <1>2. b * (a \div b) \in Nat
    BY <1>1
  <1>3. QED
    BY <1>1, <1>2

\* Every token of a row lies in one of the chunks of a launch that long.
LEMMA ChunkOf ==
  ASSUME NEW p \in Nat, NEW max \in Nat, p < max, NEW b \in Nat \ {0}
  PROVE  p \div b \in Chunks(max, b)
  <1> DEFINE q == p \div b
             up == max + b - 1
             Q == up \div b
  <1>1. up \in Nat
    OBVIOUS
  <1>2. q \in Nat /\ b * q \in Nat /\ b * q <= p
    BY DivIs
  <1>3. Q \in Nat /\ b * Q \in Nat /\ up < b * Q + b
    <2> HIDE DEF up
    <2> QED BY <1>1, DivIs
  <1> HIDE DEF q, Q
  <1>4. q < Q
    <2> SUFFICES ASSUME Q <= q PROVE FALSE
      BY <1>2, <1>3
    <2>1. b * Q <= b * q
      BY <1>2, <1>3, ProductGrows
    <2>2. QED
      BY <1>2, <1>3, <2>1
  <1>5. q \in 0 .. Q - 1
    BY <1>2, <1>3, <1>4
  <1>6. QED
    BY <1>5 DEF Chunks, q, Q

\* The outputs of a launch that covers the chunk of the token.
LEMMA OutputsAre ==
  ASSUME layer.width \in 2 .. 5,
         NEW c, NEW m, NEW who, NEW had, NEW old, IsCall(c, m, who, had, old),
         NEW block \in Nat \ {0}, block >= layer.width - 1, NEW chunks,
         NEW i \in 1 .. m, NEW k \in 1 .. SeqLen(c, i), (k - 1) \div block \in chunks
  PROVE  Outputs(c, old, chunks, block)[c.starts[i] + k] = TrueWindow(who[i], had[i] + k)
  <1> DEFINE t == c.starts[i] + k
             p == k - 1
             q == p \div block
             state == old[c.lines[i]]
  <1>1. i \in Rows(c) /\ Usable(c, i) /\ IsRowOf(c, i, who[i], had[i], state)
    BY CallRows, UsableIs
  <1>2. t \in 1 .. Len(c.x) /\ RowOf(c, t) = i /\ c.starts[i] \in Nat /\ SeqLen(c, i) \in Nat \ {0}
    BY <1>1, RowOfIs
  <1>3. t - 1 - c.starts[i] = p /\ p \in Nat /\ p < SeqLen(c, i)
    <2> DEFINE s == c.starts[i]
               n == SeqLen(c, i)
    <2>1. s \in Nat /\ n \in Nat /\ k \in 1 .. n
      BY <1>2
    <2> HIDE DEF s, n
    <2>2. (s + k) - 1 - s = k - 1 /\ k - 1 \in Nat /\ k - 1 < n
      BY <2>1
    <2>3. QED
      BY <2>2 DEF s, n
  <1>4. q \in Nat /\ block * q \in Nat /\ q * block = block * q /\ block * q <= p
    BY <1>3, DivIs
  <1>5. Outputs(c, old, chunks, block)[t] = Window(c, i, q * block, p, state)
    <2> HIDE DEF t
    <2>1. Outputs(c, old, chunks, block)[t]
            = IF ((t - 1 - c.starts[RowOf(c, t)]) \div block) \in chunks /\ Usable(c, RowOf(c, t))
              THEN Window(c, RowOf(c, t), ((t - 1 - c.starts[RowOf(c, t)]) \div block) * block,
                          t - 1 - c.starts[RowOf(c, t)], old[c.lines[RowOf(c, t)]])
              ELSE Junk
      BY <1>2 DEF Outputs
    <2>2. QED
      BY <1>1, <1>2, <1>3, <2>1
  <1>6. q * block = 0 \/ q * block >= layer.width - 1
    <2>1. CASE q = 0
      BY <1>4, <2>1
    <2>2. CASE q # 0
      <3>1. block * 1 <= block * q
        BY <1>4, <2>2, ProductGrows
      <3>2. QED
        BY <1>4, <3>1
    <2>3. QED
      BY <2>1, <2>2
  <1> HIDE DEF q, p
  <1>7. Window(c, i, q * block, p, state) = TrueWindow(who[i], had[i] + p + 1)
    <2> DEFINE offset == q * block
    <2>1. offset \in Nat /\ (offset = 0 \/ offset >= layer.width - 1) /\ offset <= p
      BY <1>4, <1>6
    <2> HIDE DEF offset
    <2>2. Window(c, i, offset, p, state) = TrueWindow(who[i], had[i] + p + 1)
      BY <1>1, <1>3, <2>1, WindowIs
    <2>3. QED
      BY <2>2 DEF offset
  <1>8. had[i] + p + 1 = had[i] + k
    <2>1. had[i] \in Nat
      BY <1>1 DEF IsRowOf
    <2>2. QED
      BY <2>1 DEF p
  <1>9. QED
    BY <1>5, <1>7, <1>8 DEF t

----------------------------------------------------------------------------
(* The kernels.                                                            *)

\* The first chunk of every request's row runs; padding is on no cache line.
LEMMA StartedAre ==
  ASSUME NEW c, NEW m, NEW who, NEW had, NEW old, IsCall(c, m, who, had, old)
  PROVE  /\ 1 .. m \subseteq Started(c) /\ Started(c) \subseteq 1 .. Len(c.lines)
         /\ \A l \in CacheLines : l # NullBlock
  <1>1. \A i \in 1 .. m : i \in Rows(c) /\ SeqLen(c, i) > 0
    BY DEF IsCall, Rows
  <1>2. \A l \in CacheLines : l # NullBlock
    <2>1. NumLines \in Nat
      BY TuningAssumption DEF TuningAssumption
    <2>2. QED
      BY <2>1 DEF CacheLines, NullBlock
  <1>3. QED
    BY <1>1, <1>2, UsableIs DEF Started, Rows

\* Lines that rows with an own line leave behind, the others unchanged.
LEMMA LinesConvolved ==
  ASSUME NEW c, NEW m, NEW who, NEW had, NEW old, IsCall(c, m, who, had, old),
         NEW after, 1 .. m \subseteq DOMAIN after, DOMAIN after \subseteq 1 .. Len(c.lines),
         \A i \in 1 .. m : after[i] = Tail(TrueWindow(who[i], had[i] + SeqLen(c, i)))
  PROVE  /\ DOMAIN Lines(c, old, after) = CacheLines
         /\ \A i \in 1 .. m : Lines(c, old, after)[c.lines[i]]
                                = Tail(TrueWindow(who[i], had[i] + SeqLen(c, i)))
         /\ \A l \in CacheLines : (\A i \in 1 .. m : c.lines[i] # l) => Lines(c, old, after)[l] = old[l]
  <1>1. DOMAIN Lines(c, old, after) = CacheLines
    BY DEF Lines, IsCall
  <1>2. ASSUME NEW i \in 1 .. m PROVE Lines(c, old, after)[c.lines[i]] = after[i]
    <2>1. i \in DOMAIN after /\ c.lines[i] \in DOMAIN old
      BY DEF IsCall
    <2>2. \A j \in DOMAIN after : c.lines[j] = c.lines[i] => j = i
      BY DEF IsCall
    <2>3. QED
      BY <2>1, <2>2, LinesAre
  <1>3. ASSUME NEW l \in CacheLines, \A i \in 1 .. m : c.lines[i] # l
        PROVE  Lines(c, old, after)[l] = old[l]
    <2>1. l \in DOMAIN old
      BY DEF IsCall
    <2>2. \A j \in DOMAIN after : c.lines[j] # l
      <3>1. m \in Nat /\ Len(c.lines) \in Nat /\ \A j \in 1 .. Len(c.lines) : j > m => c.lines[j] = NullBlock
        BY DEF IsCall
      <3>2. \A j \in 1 .. Len(c.lines) : j \in 1 .. m \/ j > m
        BY <3>1
      <3>3. QED
        BY <1>3, <3>1, <3>2, StartedAre
    <2>3. QED
      BY <2>1, <2>2, LinesAre
  <1>4. QED
    BY <1>1, <1>2, <1>3

\* The lines after every row has left its last inputs behind.
LEMMA ShiftedIs ==
  ASSUME layer.width \in 2 .. 5,
         NEW c, NEW m, NEW who, NEW had, NEW old, IsCall(c, m, who, had, old)
  PROVE  /\ DOMAIN Shifted(c, old) = CacheLines
         /\ \A i \in 1 .. m : Shifted(c, old)[c.lines[i]]
                                = Tail(TrueWindow(who[i], had[i] + SeqLen(c, i)))
         /\ \A l \in CacheLines : (\A i \in 1 .. m : c.lines[i] # l) => Shifted(c, old)[l] = old[l]
  <1> DEFINE after == [i \in Started(c) |-> StateAfter(c, i, old[c.lines[i]])]
  <1>1. 1 .. m \subseteq DOMAIN after /\ DOMAIN after \subseteq 1 .. Len(c.lines)
    BY StartedAre
  <1>2. ASSUME NEW i \in 1 .. m
        PROVE  after[i] = Tail(TrueWindow(who[i], had[i] + SeqLen(c, i)))
    <2>1. IsRowOf(c, i, who[i], had[i], old[c.lines[i]]) /\ i \in Started(c)
      BY CallRows, StartedAre
    <2>2. after[i] = StateAfter(c, i, old[c.lines[i]])
      BY <2>1
    <2> HIDE DEF after
    <2>3. QED
      BY <2>1, <2>2, StateAfterIs
  <1>3. Shifted(c, old) = Lines(c, old, after)
    BY DEF Shifted
  <1> HIDE DEF after
  <1>4. QED
    BY <1>1, <1>2, <1>3, LinesConvolved

\* musa_causal_conv1d_fwd, launched for at least the longest row.
LEMMA GeneralIs ==
  ASSUME layer.width \in 2 .. 5,
         NEW c, NEW m, NEW who, NEW had, NEW old, IsCall(c, m, who, had, old),
         NEW block \in Nat \ {0}, block >= layer.width - 1,
         NEW max \in Nat \ {0}, \A i \in 1 .. m : SeqLen(c, i) <= max
  PROVE  IsConvolved(c, m, who, had, old, General(c, old, max, block))
  <1> DEFINE done == General(c, old, max, block)
  <1>1. done.conv = Shifted(c, old) /\ done.out = Outputs(c, old, Chunks(max, block), block)
    BY DEF General
  <1>2. ASSUME NEW i \in 1 .. m, NEW k \in 1 .. SeqLen(c, i)
        PROVE  done.out[c.starts[i] + k] = TrueWindow(who[i], had[i] + k)
    <2>1. SeqLen(c, i) \in Nat /\ SeqLen(c, i) <= max
      BY DEF IsCall
    <2>2. k - 1 \in Nat /\ k - 1 < max
      BY <2>1
    <2>3. (k - 1) \div block \in Chunks(max, block)
      <3> DEFINE p == k - 1
      <3> HIDE DEF p
      <3>1. p \div block \in Chunks(max, block)
        BY <2>2, ChunkOf DEF p
      <3>2. QED
        BY <3>1 DEF p
    <2> HIDE DEF done
    <2>4. QED
      BY <1>1, <2>3, OutputsAre
  <1> HIDE DEF done
  <1>3. QED
    BY <1>1, <1>2, ShiftedIs DEF IsConvolved, done

\* The quotient of the number one block on.
LEMMA DivNext ==
  ASSUME NEW a \in Nat, NEW b \in Nat \ {0}, b <= a
  PROVE  a - b \in Nat /\ a \div b = (a - b) \div b + 1
  <1> DEFINE e == a - b
             x == a \div b
             y == e \div b
  <1>1. e \in Nat /\ a = e + b
    OBVIOUS
  <1>2. x \in Nat /\ b * x \in Nat /\ b * x <= a /\ a < b * x + b
    BY DivIs
  <1>3. y \in Nat /\ b * y \in Nat /\ b * y <= e /\ e < b * y + b
    <2> HIDE DEF e
    <2> QED BY <1>1, DivIs
  <1> HIDE DEF e, x, y
  <1>4. x < y + 2
    <2> SUFFICES ASSUME y + 2 <= x PROVE FALSE
      BY <1>2, <1>3
    <2>1. b * (y + 2) <= b * x /\ b * (y + 2) = b * y + b + b
      BY <1>2, <1>3, ProductGrows
    <2>2. QED
      BY <1>1, <1>2, <1>3, <2>1
  <1>5. y < x
    <2> SUFFICES ASSUME x <= y PROVE FALSE
      BY <1>2, <1>3
    <2>1. b * x <= b * y
      BY <1>2, <1>3, ProductGrows
    <2>2. QED
      BY <1>1, <1>2, <1>3, <2>1
  <1>6. x = y + 1
    BY <1>2, <1>3, <1>4, <1>5
  <1>7. QED
    BY <1>1, <1>6 DEF e, x, y

\* musa_causal_conv1d_prefill_width4_split: the first chunks and the bodies are all.
LEMMA SplitIs ==
  ASSUME layer.width = 4,
         NEW c, NEW m, NEW who, NEW had, NEW old, IsCall(c, m, who, had, old),
         NEW block \in Nat \ {0}, block >= 3,
         NEW max \in Nat \ {0}, \A i \in 1 .. m : SeqLen(c, i) <= max
  PROVE  IsConvolved(c, m, who, had, old, Split(c, old, max, block))
  <1> DEFINE done == Split(c, old, max, block)
             body == IF max > block THEN {k + 1 : k \in Chunks(max - block, block)} ELSE {}
             after == [i \in Started(c) |-> HeadStateAfter(c, i, old[c.lines[i]])]
  <1>1. /\ done.conv = Lines(c, old, after)
        /\ done.out = Outputs(c, old, Chunks(block, block) \cup body, block)
    BY DEF Split
  <1>2. ASSUME NEW i \in 1 .. m, NEW k \in 1 .. SeqLen(c, i)
        PROVE  done.out[c.starts[i] + k] = TrueWindow(who[i], had[i] + k)
    <2> DEFINE p == k - 1
    <2>1. SeqLen(c, i) \in Nat /\ SeqLen(c, i) <= max
      BY DEF IsCall
    <2>2. p \in Nat /\ p < max
      BY <2>1
    <2> HIDE DEF p
    <2>3. p \div block \in Chunks(block, block) \cup body
      <3>1. CASE p < block
        BY <2>2, <3>1, ChunkOf
      <3>2. CASE ~ (p < block)
        <4> DEFINE e == p - block
                   rest == max - block
        <4>1. block <= p /\ max > block /\ rest \in Nat
          BY <2>2, <3>2
        <4>2. e \in Nat /\ p \div block = e \div block + 1
          BY <2>2, <4>1, DivNext
        <4>5. e < rest
          BY <2>2, <4>1
        <4> HIDE DEF e, rest
        <4>3. e \div block \in Chunks(rest, block)
          BY <4>1, <4>2, <4>5, ChunkOf
        <4>4. QED
          BY <4>1, <4>2, <4>3 DEF rest
      <3>3. QED
        BY <3>1, <3>2
    <2>4. layer.width \in 2 .. 5 /\ block >= layer.width - 1
      OBVIOUS
    <2> HIDE DEF done, body
    <2>5. QED
      BY <1>1, <2>3, <2>4, OutputsAre DEF p
  <1>3. 1 .. m \subseteq DOMAIN after /\ DOMAIN after \subseteq 1 .. Len(c.lines)
    BY StartedAre
  <1>4. ASSUME NEW i \in 1 .. m
        PROVE  after[i] = Tail(TrueWindow(who[i], had[i] + SeqLen(c, i)))
    <2>1. IsRowOf(c, i, who[i], had[i], old[c.lines[i]]) /\ i \in Started(c)
      BY CallRows, StartedAre
    <2>2. after[i] = HeadStateAfter(c, i, old[c.lines[i]])
      BY <2>1
    <2> HIDE DEF after
    <2>3. QED
      BY <2>1, <2>2, HeadStateAfterIs
  <1> HIDE DEF done, after, body
  <1>5. /\ DOMAIN done.conv = CacheLines
        /\ \A i \in 1 .. m : done.conv[c.lines[i]] = Tail(TrueWindow(who[i], had[i] + SeqLen(c, i)))
        /\ \A l \in CacheLines : (\A i \in 1 .. m : c.lines[i] # l) => done.conv[l] = old[l]
    BY <1>1, <1>3, <1>4, LinesConvolved, SMTT(30)
  <1>6. QED
    BY <1>2, <1>5 DEF IsConvolved, done

\* Rows of one token: row i is token i.
LEMMA OnesAre ==
  ASSUME NEW c, NEW m, NEW who, NEW had, NEW old, IsCall(c, m, who, had, old),
         \A i \in 1 .. Len(c.lines) : SeqLen(c, i) = 1
  PROVE  \A i \in 1 .. Len(c.lines) : c.starts[i] = i - 1
  <1> DEFINE M == Len(c.lines)
             s == c.starts
             D == {k \in Nat : k + 1 \in 1 .. M => s[k + 1] = k}
  <1>1. M \in Nat /\ s[1] = 0 /\ (\A i \in 1 .. M + 1 : s[i] \in Nat)
        /\ \A i \in 1 .. M : s[i + 1] - s[i] = 1
    BY DEF IsCall, SeqLen
  <1> HIDE DEF M, s
  <1>2. 0 \in D
    BY <1>1
  <1>3. ASSUME NEW k \in Nat, k \in D PROVE k + 1 \in D
    <2> SUFFICES ASSUME (k + 1) + 1 \in 1 .. M PROVE s[(k + 1) + 1] = k + 1
      OBVIOUS
    <2>1. k + 1 \in 1 .. M /\ k + 1 \in 1 .. M + 1 /\ (k + 1) + 1 \in 1 .. M + 1
      BY <1>1
    <2>2. s[k + 1] = k /\ s[(k + 1) + 1] - s[k + 1] = 1 /\ s[(k + 1) + 1] \in Nat
      BY <1>1, <1>3, <2>1
    <2>3. QED
      BY <2>2
  <1>4. \A k \in Nat : k \in D
    <2> HIDE DEF D
    <2> QED BY <1>2, <1>3, SetInduction
  <1>5. ASSUME NEW i \in 1 .. M PROVE s[i] = i - 1
    <2>1. i - 1 \in Nat /\ (i - 1) + 1 = i
      BY <1>1
    <2>2. i - 1 \in D
      BY <1>4, <2>1
    <2>3. QED
      BY <2>1, <2>2
  <1>6. QED
    BY <1>5 DEF M, s

\* musa_causal_conv1d_decode_width4_batched, where every row has one token.
LEMMA DecodeIs ==
  ASSUME layer.width = 4,
         NEW c, NEW m, NEW who, NEW had, NEW old, IsCall(c, m, who, had, old),
         \A i \in 1 .. Len(c.lines) : SeqLen(c, i) = 1
  PROVE  IsConvolved(c, m, who, had, old, Decode(c, old))
  <1> DEFINE done == Decode(c, old)
             Cols(i) == [j \in 1 .. 3 |-> IF c.init[i] THEN old[c.lines[i]][j] ELSE Zero]
             usable == {i \in Rows(c) : Usable(c, i)}
             after == [i \in usable |-> << Cols(i)[2], Cols(i)[3], c.x[i] >>]
             T(i, q) == TokenOf(who[i], had[i] + q)
  <1>1. \A i \in 1 .. Len(c.lines) : c.starts[i] = i - 1
    BY OnesAre
  <1>2. ASSUME NEW i \in 1 .. m
        PROVE  /\ i \in Rows(c) /\ Usable(c, i) /\ had[i] \in Nat /\ SeqLen(c, i) = 1
               /\ c.starts[i] = i - 1 /\ c.x[i] = T(i, 1)
               /\ Cols(i) = << T(i, -2), T(i, -1), T(i, 0) >>
    <2>1. i \in 1 .. Len(c.lines) /\ i \in Rows(c) /\ Usable(c, i) /\ had[i] \in Nat
          /\ IsRowOf(c, i, who[i], had[i], old[c.lines[i]])
      BY CallRows, UsableIs DEF Rows
    <2>2. SeqLen(c, i) = 1 /\ c.starts[i] = i - 1
      BY <1>1, <2>1
    <2>3. layer.width \in 2 .. 5 /\ layer.width - 1 = 3
      OBVIOUS
    <2> DEFINE state == old[c.lines[i]]
               r == who[i]
               h == had[i]
    <2> HIDE DEF state, r, h
    <2>4. IsRowOf(c, i, r, h, state)
      BY <2>1 DEF state, r, h
    <2>5. /\ \A p \in 0 .. SeqLen(c, i) - 1 : Input(c, i, p) = TokenOf(r, h + (p + 1))
          /\ c.init[i] => \A j \in 1 .. 3 : state[j] = TokenOf(r, h - 4 + j + 1)
          /\ ~ c.init[i] => h = 0
      BY <2>4, RowIsNarrow, SMTT(30)
    <2>6. c.x[i] = T(i, 1)
      <3>1. 0 \in 0 .. SeqLen(c, i) - 1 /\ h + (0 + 1) = h + 1 /\ c.starts[i] + 0 + 1 = i
        BY <2>2
      <3>2. Input(c, i, 0) = TokenOf(r, h + 1)
        BY <2>5, <3>1
      <3>3. Input(c, i, 0) = c.x[i]
        BY <3>1 DEF Input
      <3>4. QED
        BY <3>2, <3>3 DEF r, h
    <2>7. ASSUME NEW j \in 1 .. 3 PROVE Cols(i)[j] = T(i, j - 3)
      <3>1. Cols(i)[j] = IF c.init[i] THEN state[j] ELSE Zero
        BY DEF state
      <3>2. h - 4 + j + 1 = h + (j - 3)
        BY <2>1 DEF h
      <3>3. CASE c.init[i]
        BY <2>5, <3>1, <3>2, <3>3 DEF r, h
      <3>4. CASE ~ c.init[i]
        <4>1. ~ (h + (j - 3) > 0)
          BY <2>5, <3>4
        <4>2. QED
          BY <3>1, <3>4, <4>1 DEF TokenOf, r, h
      <3>5. QED
        BY <3>3, <3>4
    <2>8. Cols(i) = << T(i, -2), T(i, -1), T(i, 0) >>
      <3> DEFINE g == Cols(i)
      <3>1. g = [j \in 1 .. 3 |-> g[j]]
        OBVIOUS
      <3>2. g[1] = T(i, -2) /\ g[2] = T(i, -1) /\ g[3] = T(i, 0)
        <4>1. 1 - 3 = -2 /\ 2 - 3 = -1 /\ 3 - 3 = 0 /\ 1 \in 1 .. 3 /\ 2 \in 1 .. 3 /\ 3 \in 1 .. 3
          OBVIOUS
        <4> HIDE DEF T, Cols
        <4>2. QED
          BY <2>7, <4>1
      <3> HIDE DEF g, T
      <3>3. g = << T(i, -2), T(i, -1), T(i, 0) >>
        BY <3>1, <3>2
      <3>4. QED
        BY <3>3 DEF g
    <2>9. QED
      BY <2>1, <2>2, <2>6, <2>8
  <1>3. done.conv = Lines(c, old, after)
    BY DEF Decode
  <1>4. \A i \in Rows(c) : done.out[i] = IF Usable(c, i) THEN Cols(i) \o << c.x[i] >> ELSE << c.x[i] >>
    BY DEF Decode
  <1> HIDE DEF Cols, T, done
  <1>5. 1 .. m \subseteq DOMAIN after /\ DOMAIN after \subseteq 1 .. Len(c.lines)
    BY <1>2 DEF Rows
  <1>6. ASSUME NEW i \in 1 .. m
        PROVE  after[i] = Tail(TrueWindow(who[i], had[i] + SeqLen(c, i)))
    <2>1. after[i] = << T(i, -1), T(i, 0), T(i, 1) >>
      BY <1>2
    <2> DEFINE h == had[i] + 1
    <2>2. h \in Int /\ had[i] + SeqLen(c, i) = h
      BY <1>2
    <2>3. Tail(TrueWindow(who[i], had[i] + SeqLen(c, i)))
            = [j \in 1 .. 3 |-> TokenOf(who[i], (had[i] + 1) - 4 + j + 1)]
      <3> HIDE DEF h
      <3>1. Tail(TrueWindow(who[i], h)) = [j \in 1 .. 3 |-> TokenOf(who[i], h - 4 + j + 1)]
        BY <2>2, TailsNarrow
      <3>2. QED
        BY <2>2, <3>1 DEF h
    <2>4. \A j \in 1 .. 3 : (had[i] + 1) - 4 + j + 1 = had[i] + (j - 2)
      BY <1>2
    <2>5. << T(i, -1), T(i, 0), T(i, 1) >> = [j \in 1 .. 3 |-> T(i, j - 2)]
      OBVIOUS
    <2>6. QED
      BY <2>1, <2>3, <2>4, <2>5 DEF T
  <1>7. ASSUME NEW i \in 1 .. m, NEW k \in 1 .. SeqLen(c, i)
        PROVE  done.out[c.starts[i] + k] = TrueWindow(who[i], had[i] + k)
    <2>1. k = 1 /\ c.starts[i] + k = i /\ i \in Rows(c) /\ Usable(c, i)
      BY <1>2
    <2>2. done.out[i] = << T(i, -2), T(i, -1), T(i, 0) >> \o << T(i, 1) >>
      BY <1>2, <1>4, <2>1
    <2>3. << T(i, -2), T(i, -1), T(i, 0) >> \o << T(i, 1) >> = << T(i, -2), T(i, -1), T(i, 0), T(i, 1) >>
      <3> DEFINE a == << T(i, -2), T(i, -1), T(i, 0) >>
                 b == << T(i, 1) >>
                 S == {T(i, -2), T(i, -1), T(i, 0), T(i, 1)}
      <3>1. a \in [1 .. 3 -> S] /\ b \in [1 .. 1 -> S]
        OBVIOUS
      <3>2. a[1] = T(i, -2) /\ a[2] = T(i, -1) /\ a[3] = T(i, 0) /\ b[1] = T(i, 1)
        OBVIOUS
      <3> HIDE DEF a, b, S
      <3>3. a \o b \in [1 .. 3 + 1 -> S]
        BY <3>1, JoinIs
      <3>4. (\A j \in 1 .. 3 : (a \o b)[j] = a[j]) /\ (\A j \in 1 .. 1 : (a \o b)[3 + j] = b[j])
        <4> DEFINE n == 3
                   l == 1
        <4>1. n \in Nat /\ l \in Nat /\ a \in [1 .. n -> S] /\ b \in [1 .. l -> S]
          BY <3>1
        <4> HIDE DEF n, l
        <4>2. (\A j \in 1 .. n : (a \o b)[j] = a[j]) /\ (\A j \in 1 .. l : (a \o b)[n + j] = b[j])
          BY <4>1, JoinIs
        <4>3. QED
          BY <4>2 DEF n, l
      <3>5. 3 + 1 = 4 /\ 1 \in 1 .. 3 /\ 2 \in 1 .. 3 /\ 3 \in 1 .. 3 /\ 1 \in 1 .. 1
        OBVIOUS
      <3>6. (a \o b)[1] = a[1] /\ (a \o b)[2] = a[2] /\ (a \o b)[3] = a[3] /\ (a \o b)[4] = b[1]
        BY <3>4, <3>5
      <3> DEFINE g == a \o b
      <3>7. g = [j \in 1 .. 4 |-> g[j]] /\ g[1] = T(i, -2) /\ g[2] = T(i, -1) /\ g[3] = T(i, 0) /\ g[4] = T(i, 1)
        BY <3>2, <3>3, <3>5, <3>6
      <3> HIDE DEF g
      <3>8. g = << T(i, -2), T(i, -1), T(i, 0), T(i, 1) >>
        BY <3>7
      <3>9. QED
        BY <3>8 DEF g, a, b
    <2>4. << T(i, -2), T(i, -1), T(i, 0), T(i, 1) >> = [j \in 1 .. 4 |-> T(i, j - 3)]
      <3> DEFINE g == [j \in 1 .. 4 |-> T(i, j - 3)]
      <3>1. g = [j \in 1 .. 4 |-> g[j]]
        OBVIOUS
      <3>2. 1 - 3 = -2 /\ 2 - 3 = -1 /\ 3 - 3 = 0 /\ 4 - 3 = 1
        OBVIOUS
      <3>3. g[1] = T(i, -2) /\ g[2] = T(i, -1) /\ g[3] = T(i, 0) /\ g[4] = T(i, 1)
        BY <3>2
      <3> HIDE DEF g
      <3>4. << T(i, -2), T(i, -1), T(i, 0), T(i, 1) >> = g
        BY <3>1, <3>3
      <3>5. QED
        BY <3>4 DEF g
    <2>5. TrueWindow(who[i], had[i] + k) = [j \in 1 .. 4 |-> TokenOf(who[i], (had[i] + 1) - 4 + j)]
      BY <2>1 DEF TrueWindow
    <2>6. \A j \in 1 .. 4 : (had[i] + 1) - 4 + j = had[i] + (j - 3)
      BY <1>2
    <2>7. QED
      BY <2>1, <2>2, <2>3, <2>4, <2>5, <2>6 DEF T
  <1> HIDE DEF after
  <1>8. QED
    BY <1>3, <1>5, <1>6, <1>7, LinesConvolved DEF IsConvolved, done

\* The largest of bounded numbers, and the least of any.
LEMMA MaxIs ==
  ASSUME NEW S \in SUBSET Nat, S # {}, NEW b \in Nat, \A x \in S : x <= b
  PROVE  Max(S) \in S /\ \A x \in S : x <= Max(S)
  <1> DEFINE T == {b - x : x \in S}
  <1>1. T \subseteq Nat /\ T # {}
    <2>1. \A x \in S : x \in Nat /\ x <= b /\ b - x \in Nat
      OBVIOUS
    <2>2. QED
      BY <2>1
  <1>2. PICK n \in T : \A h \in T : n <= h
    BY <1>1, LeastNumber
  <1>3. PICK y \in S : n = b - y
    BY <1>2
  <1>4. \A x \in S : y >= x
    <2> SUFFICES ASSUME NEW x \in S PROVE y >= x
      OBVIOUS
    <2>1. b - x \in T /\ x \in Nat /\ y \in Nat
      BY <1>3
    <2>2. b - y <= b - x
      BY <1>2, <1>3, <2>1
    <2>3. QED
      BY <2>1, <2>2
  <1>5. Max(S) \in S /\ \A x \in S : Max(S) >= x
    BY <1>3, <1>4 DEF Max
  <1>6. QED
    BY <1>5

\* A set of natural numbers has its minimum in it.
LEMMA MinIs ==
  ASSUME NEW S \in SUBSET Nat, S # {}
  PROVE  Min(S) \in S /\ \A x \in S : Min(S) <= x
  <1>1. \E n \in S : \A h \in S : n <= h
    BY LeastNumber
  <1>2. QED
    BY <1>1 DEF Min

\* The layers and block sizes the kernels are written for.
LEMMA LayerIs ==
  ASSUME layer \in Layers
  PROVE  /\ layer.width \in 2 .. 5
         /\ \A c : BlockM(c) \in Nat \ {0} /\ BlockM(c) >= layer.width - 1
  <1>1. /\ layer.width \in 2 .. 5
        /\ \A b \in {"plain", "mid", "many", "few", "long"} : Tuning[b] >= layer.width - 1
    BY LayerAssumption DEF LayerAssumption
  <1>2. \A b \in {"plain", "mid", "many", "few", "long"} : Tuning[b] \in Nat \ {0}
    BY TuningAssumption DEF TuningAssumption
  <1>3. \A c : BlockM(c) \in {Tuning.plain, Tuning.mid, Tuning.long, Tuning.many, Tuning.few}
    BY DEF BlockM
  <1>4. /\ Tuning.plain \in Nat \ {0} /\ Tuning.plain >= layer.width - 1
        /\ Tuning.mid \in Nat \ {0} /\ Tuning.mid >= layer.width - 1
        /\ Tuning.long \in Nat \ {0} /\ Tuning.long >= layer.width - 1
        /\ Tuning.many \in Nat \ {0} /\ Tuning.many >= layer.width - 1
        /\ Tuning.few \in Nat \ {0} /\ Tuning.few >= layer.width - 1
    BY <1>1, <1>2
  <1>5. QED
    BY <1>1, <1>3, <1>4

\* Whichever kernel _causal_conv1d_fwd_impl chooses.
LEMMA FwdIs ==
  ASSUME layer \in Layers,
         NEW c, NEW m, NEW who, NEW had, NEW old, IsCall(c, m, who, had, old),
         m = Len(c.lines),
         MaxSeqLen(c) \in Nat \ {0}, \A i \in 1 .. m : SeqLen(c, i) <= MaxSeqLen(c)
  PROVE  IsConvolved(c, m, who, had, old, Fwd(c, old, layer))
  <1> DEFINE max == MaxSeqLen(c)
             block == BlockM(c)
             oneEach == c.width = 4 /\ layer.wide /\ max = 1
  <1>1. layer.width \in 2 .. 5 /\ block \in Nat \ {0} /\ block >= layer.width - 1
    BY LayerIs
  <1>2. c.width = layer.width
    BY DEF IsCall
  <1>3. max \in Nat \ {0} /\ \A i \in 1 .. m : SeqLen(c, i) <= max
    OBVIOUS
  <1>4. Fwd(c, old, layer) =
          IF oneEach /\ Numel(c) > Tuning.batched THEN Decode(c, old)
          ELSE IF UseSplit(c, layer) THEN Split(c, old, max, block)
          ELSE IF oneEach /\ Numel(c) = 2 THEN Vec(c, old, block)
          ELSE General(c, old, max, block)
    BY DEF Fwd
  <1>5. UseSplit(c, layer) => layer.width = 4
    BY <1>2 DEF UseSplit
  <1> HIDE DEF max, block
  <1>6. CASE oneEach /\ Numel(c) > Tuning.batched
    <2>1. \A i \in 1 .. Len(c.lines) : SeqLen(c, i) = 1
      <3>1. \A i \in 1 .. m : SeqLen(c, i) \in Nat \ {0} /\ SeqLen(c, i) <= 1
        BY <1>3, <1>6 DEF IsCall
      <3>2. QED
        BY <3>1
    <2>2. layer.width = 4
      BY <1>2, <1>6
    <2>3. IsConvolved(c, m, who, had, old, Decode(c, old))
      BY <2>1, <2>2, DecodeIs
    <2>4. QED
      BY <1>4, <1>6, <2>3
  <1>7. CASE ~ (oneEach /\ Numel(c) > Tuning.batched) /\ UseSplit(c, layer)
    <2>1. layer.width = 4 /\ block >= 3
      BY <1>1, <1>5, <1>7
    <2>2. IsConvolved(c, m, who, had, old, Split(c, old, max, block))
      BY <1>1, <1>3, <2>1, SplitIs
    <2>3. QED
      BY <1>4, <1>7, <2>2
  <1>8. CASE ~ (oneEach /\ Numel(c) > Tuning.batched) /\ ~ UseSplit(c, layer)
             /\ oneEach /\ Numel(c) = 2
    <2>1. Vec(c, old, block) = General(c, old, max, block)
      BY <1>8 DEF Vec
    <2>2. IsConvolved(c, m, who, had, old, General(c, old, max, block))
      BY <1>1, <1>3, GeneralIs
    <2>3. QED
      BY <1>4, <1>8, <2>1, <2>2
  <1>9. CASE ~ (oneEach /\ Numel(c) > Tuning.batched) /\ ~ UseSplit(c, layer)
             /\ ~ (oneEach /\ Numel(c) = 2)
    <2>1. IsConvolved(c, m, who, had, old, General(c, old, max, block))
      BY <1>1, <1>3, GeneralIs
    <2>2. QED
      BY <1>4, <1>9, <2>1
  <1>10. QED
    BY <1>6, <1>7, <1>8, <1>9

\* The update kernels, when every request has begun.
LEMMA UpdateIs ==
  ASSUME layer \in Layers,
         NEW c, {"width", "x", "starts", "lines", "init", "padSlot"} \subseteq DOMAIN c,
         NEW m, NEW who, NEW had, NEW old, IsCall(c, m, who, had, old),
         \A i \in 1 .. Len(c.lines) : SeqLen(c, i) = 1,
         \A i \in 1 .. m : had[i] > 0
  PROVE  IsConvolved(c, m, who, had, old, Update(c, old))
  <1> DEFINE init == [i \in Rows(c) |-> TRUE]
             d == [c EXCEPT !.init = init, !.padSlot = NullBlock]
  <1>1. /\ d.width = c.width /\ d.x = c.x /\ d.starts = c.starts /\ d.lines = c.lines
        /\ d.init = init /\ d.padSlot = NullBlock
    <2> HIDE DEF init
    <2> QED OBVIOUS
  <1>2. Update(c, old) = IF c.width = 4 /\ layer.tilelang THEN Decode(d, old)
          ELSE [conv |-> Shifted(d, old),
                out  |-> [i \in Rows(d) |->
                           IF Usable(d, i) THEN Window(d, i, 0, 0, old[d.lines[i]])
                           ELSE << d.x[i] >>]]
    BY DEF Update
  <1> HIDE DEF d
  <1>3. \A i : SeqLen(d, i) = SeqLen(c, i)
    BY <1>1 DEF SeqLen
  <1>4. \A i, p : Input(d, i, p) = Input(c, i, p)
    BY <1>1 DEF Input
  <1>5. Rows(d) = Rows(c) /\ Rows(c) = 1 .. Len(c.lines)
    BY <1>1 DEF Rows
  <1>6. ASSUME NEW i \in 1 .. m PROVE IsRowOf(d, i, who[i], had[i], old[d.lines[i]])
    <2>1. IsRowOf(c, i, who[i], had[i], old[c.lines[i]]) /\ i \in Rows(c)
      BY CallRows
    <2>2. d.init[i] = TRUE /\ (had[i] > 0) = TRUE
      BY <1>1, <2>1
    <2>3. QED
      BY <1>1, <1>3, <1>4, <2>1, <2>2 DEF IsRowOf
  <1>7. IsCall(d, m, who, had, old)
    <2>1. d.padSlot \in {PadSlot, NullBlock}
      BY <1>1
    <2>2. QED
      BY <1>1, <1>3, <1>6, <2>1 DEF IsCall
  <1>8. \A i \in 1 .. Len(d.lines) : SeqLen(d, i) = 1
    BY <1>1, <1>3
  <1>9. ASSUME NEW done, IsConvolved(d, m, who, had, old, done)
        PROVE  IsConvolved(c, m, who, had, old, done)
    BY <1>1, <1>3, <1>9 DEF IsConvolved
  <1>10. CASE c.width = 4 /\ layer.tilelang
    <2>1. layer.width = 4
      BY <1>10 DEF IsCall
    <2>2. IsConvolved(d, m, who, had, old, Decode(d, old))
      BY <1>7, <1>8, <2>1, DecodeIs
    <2>3. QED
      BY <1>2, <1>9, <1>10, <2>2
  <1>11. CASE ~ (c.width = 4 /\ layer.tilelang)
    <2> DEFINE done == Update(c, old)
    <2>1. done.conv = Shifted(d, old)
          /\ \A i \in Rows(d) : Usable(d, i) => done.out[i] = Window(d, i, 0, 0, old[d.lines[i]])
      BY <1>2, <1>11
    <2> HIDE DEF done
    <2>2. layer.width \in 2 .. 5
      BY LayerIs
    <2>3. ASSUME NEW i \in 1 .. m, NEW k \in 1 .. SeqLen(d, i)
          PROVE  done.out[d.starts[i] + k] = TrueWindow(who[i], had[i] + k)
      <3>1. i \in Rows(d) /\ Usable(d, i) /\ SeqLen(d, i) = 1 /\ had[i] \in Nat
        BY <1>5, <1>7, <1>8, <1>1, CallRows, UsableIs
      <3>2. d.starts[i] = i - 1 /\ i \in Nat
        BY <1>1, <1>5, <1>7, <1>8, <3>1, OnesAre
      <3>3. k = 1 /\ d.starts[i] + k = i
        BY <3>1, <3>2
      <3>4. Window(d, i, 0, 0, old[d.lines[i]]) = TrueWindow(who[i], had[i] + 0 + 1)
        <4> DEFINE p == 0
                   q == 0
                   state == old[d.lines[i]]
                   r == who[i]
                   h == had[i]
        <4>1. q \in Nat /\ (q = 0 \/ q >= layer.width - 1) /\ p \in Nat /\ q <= p /\ p < SeqLen(d, i)
          BY <3>1
        <4> HIDE DEF p, q, state, r, h
        <4>2. IsRowOf(d, i, r, h, state)
          BY <1>6 DEF state, r, h
        <4>3. Window(d, i, q, p, state) = TrueWindow(r, h + p + 1)
          BY <2>2, <4>1, <4>2, WindowIs
        <4>4. QED
          BY <4>3 DEF p, q, state, r, h
      <3>5. had[i] + 0 + 1 = had[i] + k
        BY <3>1, <3>3
      <3>6. QED
        BY <2>1, <3>1, <3>3, <3>4, <3>5
    <2>4. IsConvolved(d, m, who, had, old, done)
      BY <1>7, <2>1, <2>2, <2>3, ShiftedIs DEF IsConvolved
    <2>5. QED
      BY <1>9, <2>4 DEF done
  <1>12. QED
    BY <1>10, <1>11

----------------------------------------------------------------------------
(* The call of a step.                                                     *)

\* Rows of the same sizes start at the same places.
LEMMA PackedAgree ==
  ASSUME NEW m \in Nat, NEW n, NEW s, ArePacked(s, m, n),
         NEW h \in 0 .. m, NEW l, NEW t, ArePacked(t, h, l), \A i \in 1 .. h : n[i] = l[i]
  PROVE  \A i \in 1 .. h + 1 : s[i] = t[i]
  <1> DEFINE D == {k \in Nat : k + 1 \in 1 .. h + 1 => s[k + 1] = t[k + 1]}
  <1>1. 0 \in D
    BY DEF ArePacked
  <1>2. ASSUME NEW k \in Nat, k \in D PROVE k + 1 \in D
    <2> SUFFICES ASSUME (k + 1) + 1 \in 1 .. h + 1 PROVE s[(k + 1) + 1] = t[(k + 1) + 1]
      OBVIOUS
    <2>1. k + 1 \in 1 .. h /\ k + 1 \in 1 .. m /\ k + 1 \in 1 .. h + 1
      OBVIOUS
    <2>2. s[(k + 1) + 1] = s[k + 1] + n[k + 1] /\ t[(k + 1) + 1] = t[k + 1] + l[k + 1]
      BY <2>1 DEF ArePacked
    <2>3. s[k + 1] = t[k + 1] /\ n[k + 1] = l[k + 1]
      BY <1>2, <2>1
    <2>4. QED
      BY <2>2, <2>3
  <1>3. \A k \in Nat : k \in D
    <2> HIDE DEF D
    <2> QED BY <1>1, <1>2, SetInduction
  <1>4. ASSUME NEW i \in 1 .. h + 1 PROVE s[i] = t[i]
    <2>1. i - 1 \in Nat /\ (i - 1) + 1 = i
      OBVIOUS
    <2>2. i - 1 \in D
      BY <1>3, <2>1
    <2>3. QED
      BY <2>1, <2>2
  <1>5. QED
    BY <1>4

\* A batch of m running requests, each of them once, and the tokens of each.
IsBatch(batch, m, counts) ==
  /\ m \in Nat \ {0}
  /\ batch \in [1 .. m -> Running] /\ \A i, j \in 1 .. m : batch[i] = batch[j] => i = j
  /\ counts \in [1 .. m -> Nat \ {0}]

\* The tokens of a batch, row after row, the i-th row's after t[i].
AreTokens(x, batch, m, counts, t) ==
  /\ ArePacked(t, m, counts)
  /\ x \in [1 .. t[m + 1] -> LayerRequests \X Int]
  /\ \A i \in 1 .. m : \A k \in 1 .. counts[i] : x[t[i] + k] = << batch[i], progress[batch[i]] + k >>

\* The tokens of the batch lie where the offsets say.
LEMMA TokensAre ==
  ASSUME progress \in [LayerRequests -> Int],
         NEW batch, NEW m, NEW counts, IsBatch(batch, m, counts),
         NEW t, t = [i \in 1 .. m + 1 |-> Offset(counts, i)]
  PROVE  AreTokens(Tokens(batch, counts), batch, m, counts, t)
  <1> DEFINE rows == [i \in 1 .. m |-> [k \in 1 .. counts[i] |-> << batch[i], progress[batch[i]] + k >>]]
             S == LayerRequests \X Int
  <1>1. m \in Nat /\ (\A i \in 1 .. m : counts[i] \in Nat /\ batch[i] \in LayerRequests)
        /\ batch \in [1 .. m -> LayerRequests]
    BY DEF IsBatch, Running
  <1>2. ArePacked(t, m, counts)
    BY <1>1, OffsetsPacked
  <1>3. Len(batch) = m
    BY <1>1, AsSeq
  <1>4. Tokens(batch, counts) = FlattenSeq(rows)
    BY <1>3 DEF Tokens
  <1>5. rows = [i \in 1 .. m |-> rows[i]]
    OBVIOUS
  <1>6. ASSUME NEW i \in 1 .. m PROVE rows[i] \in [1 .. counts[i] -> S]
    <2>1. \A k \in 1 .. counts[i] : progress[batch[i]] + k \in Int
      BY <1>1
    <2>2. rows[i] = [k \in 1 .. counts[i] |-> << batch[i], progress[batch[i]] + k >>]
      OBVIOUS
    <2> HIDE DEF rows
    <2>3. QED
      BY <1>1, <2>1, <2>2
  <1>7. \A i \in 1 .. m : \A k \in 1 .. counts[i] : rows[i][k] = << batch[i], progress[batch[i]] + k >>
    OBVIOUS
  <1> HIDE DEF rows, S
  <1>8. IsRows(rows, m, counts, S)
    BY <1>5, <1>6 DEF IsRows
  <1>9. IsJoined(FlattenSeq(rows), rows, m, counts, t, S)
    BY <1>1, <1>2, <1>8, FlattenIs
  <1>10. Tokens(batch, counts) \in [1 .. t[m + 1] -> S]
    BY <1>4, <1>9 DEF IsJoined
  <1>11. \A i \in 1 .. m : \A k \in 1 .. counts[i] :
           Tokens(batch, counts)[t[i] + k] = << batch[i], progress[batch[i]] + k >>
    BY <1>4, <1>7, <1>9 DEF IsJoined
  <1>12. QED
    BY <1>2, <1>10, <1>11 DEF S, AreTokens

\* What the lines are known to be at the start of a step.
LinesReady ==
  /\ layer \in Layers
  /\ progress \in [LayerRequests -> Int]
  /\ \A r \in Running : line[r] \in CacheLines
  /\ \A r, q \in Running : r # q => line[r] # line[q]
  /\ DOMAIN conv = CacheLines /\ DOMAIN ssm = CacheLines
  /\ GeneralPathTakesOver

\* What the requests of a batch have consumed, and the call made for them.
Had(batch, m) == [i \in 1 .. m |-> progress[batch[i]]]

IsCallFor(c, batch, m, counts, pad, lensCpu) ==
  /\ IsCall(c, m, batch, Had(batch, m), conv)
  /\ Len(c.lines) = m + pad /\ Len(batch) = m
  /\ \A i \in 1 .. m : /\ SeqLen(c, i) = counts[i]
                       /\ c.starts[i] = Offset(counts, i)
                       /\ c.lines[i] = line[batch[i]]
                       /\ c.init[i] = Begun(batch[i])
  /\ \A i \in 1 .. m + pad : i > m => SeqLen(c, i) = 1
  /\ c.lensCpu = lensCpu
  /\ {"width", "x", "starts", "lines", "init", "padSlot"} \subseteq DOMAIN c

\* The call a step makes is one the kernels are right about.
LEMMA CallIs ==
  ASSUME LinesReady,
         NEW batch, NEW m, NEW counts, IsBatch(batch, m, counts),
         NEW pad \in 0 .. 1, NEW lensCpu,
         NEW c, c = Call(batch, counts, pad, lensCpu)
  PROVE  IsCallFor(c, batch, m, counts, pad, lensCpu)
  <1> DEFINE M == m + pad
             N == [j \in 1 .. M |-> IF j <= m THEN counts[j] ELSE 1]
             s == [i \in 1 .. M + 1 |-> Offset(N, i)]
             t == [i \in 1 .. m + 1 |-> Offset(counts, i)]
             ls == [i \in 1 .. M |-> IF i <= m THEN line[batch[i]] ELSE NullBlock]
             junk == [k \in 1 .. pad |-> Junk]
             T == Tokens(batch, counts)
             S == (LayerRequests \X Int) \cup {Junk}
             had == Had(batch, m)
  <1>0. \A i \in 1 .. m : had[i] = progress[batch[i]]
    BY DEF Had
  <1> HIDE DEF had
  <1>1. /\ m \in Nat /\ m # 0 /\ pad \in Nat /\ M \in Nat /\ m \in 0 .. M
        /\ \A i \in 1 .. m : counts[i] \in Nat \ {0} /\ batch[i] \in Running /\ batch[i] \in LayerRequests
        /\ batch \in [1 .. m -> LayerRequests]
        /\ \A i, j \in 1 .. m : batch[i] = batch[j] => i = j
    BY DEF IsBatch, Running
  <1>2. Len(batch) = m
    BY <1>1, AsSeq
  <1>3. progress \in [LayerRequests -> Int]
    BY DEF LinesReady
  <1>4. /\ ArePacked(t, m, counts) /\ T \in [1 .. t[m + 1] -> LayerRequests \X Int]
        /\ \A i \in 1 .. m : \A k \in 1 .. counts[i] : T[t[i] + k] = << batch[i], progress[batch[i]] + k >>
    <2>1. t = [i \in 1 .. m + 1 |-> Offset(counts, i)]
      OBVIOUS
    <2> HIDE DEF t
    <2>2. AreTokens(T, batch, m, counts, t)
      BY <1>3, <2>1, TokensAre
    <2>3. QED
      BY <2>2 DEF AreTokens
  <1>5. /\ c.width = layer.width /\ c.x = T \o junk /\ c.lines = ls /\ c.padSlot = PadSlot
        /\ c.init = [i \in 1 .. M |-> i > m \/ Begun(batch[i])] /\ c.lensCpu = lensCpu
        /\ DOMAIN c = {"width", "x", "starts", "lines", "init", "lensCpu", "padSlot"}
    BY <1>2 DEF Call
  <1>6. c.starts = s
    BY <1>2 DEF Call, Offset
  <1>7. \A j \in 1 .. M : N[j] \in Nat \ {0}
    BY <1>1
  <1>8. ArePacked(s, M, N)
    <2> HIDE DEF M, N
    <2> QED BY <1>1, <1>7, OffsetsPacked
  <1>9. \A i \in 1 .. m : N[i] = counts[i]
    BY <1>1
  <1>10. \A i \in 1 .. M : i > m => N[i] = 1
    BY <1>1
  <1>11. Len(ls) = M
    <2> DEFINE V == {ls[i] : i \in 1 .. M}
    <2>1. ls \in [1 .. M -> V]
      OBVIOUS
    <2> HIDE DEF V, ls, M
    <2>2. QED
      BY <1>1, <2>1, AsSeq
  <1>12. \A i \in 1 .. m : i \in 1 .. M /\ ls[i] = line[batch[i]]
    BY <1>1
  <1>13. \A i \in 1 .. M : i > m => ls[i] = NullBlock
    BY <1>1
  <1>14. \A i \in 1 .. m : c.init[i] = Begun(batch[i])
    <2> SUFFICES ASSUME NEW i \in 1 .. m PROVE c.init[i] = Begun(batch[i])
      OBVIOUS
    <2>1. i \in 1 .. M /\ ~ (i > m)
      BY <1>1
    <2>2. c.init[i] = (i > m \/ Begun(batch[i]))
      BY <1>5, <2>1
    <2>3. QED
      BY <2>1, <2>2 DEF Begun
  <1> HIDE DEF s, t, ls, T, N, junk
  <1>15. \A i \in 1 .. m + 1 : s[i] = t[i]
    <2> HIDE DEF M
    <2> QED BY <1>1, <1>4, <1>8, <1>9, PackedAgree
  <1>16. \A i \in 1 .. M : SeqLen(c, i) = N[i]
    <2>1. \A i \in 1 .. M : s[i + 1] = s[i] + N[i] /\ s[i] \in Nat /\ N[i] \in Nat
      <3>1. \A i \in 1 .. M : i \in 1 .. M + 1
        BY <1>1
      <3> HIDE DEF M
      <3>2. QED
        BY <1>7, <1>8, <3>1 DEF ArePacked
    <2>2. QED
      BY <1>6, <2>1 DEF SeqLen
  <1>17. t[m + 1] \in Nat /\ s[1] = 0 /\ (\A i \in 1 .. M + 1 : s[i] \in Nat)
         /\ \A i \in 1 .. m : t[i] \in Nat
    BY <1>1, <1>4, <1>8 DEF ArePacked
  <1>18. s[M + 1] = t[m + 1] + pad
    <2>1. CASE pad = 0
      <3>1. M + 1 = m + 1 /\ m + 1 \in 1 .. m + 1
        BY <1>1, <2>1
      <3>2. QED
        BY <1>15, <1>17, <2>1, <3>1
    <2>2. CASE pad = 1
      <3>1. M = m + 1 /\ M \in 1 .. M /\ M > m /\ m + 1 \in 1 .. m + 1
        BY <1>1, <2>2
      <3>2. s[M + 1] = s[M] + N[M] /\ N[M] = 1
        BY <1>8, <1>10, <3>1 DEF ArePacked
      <3>3. QED
        BY <1>15, <2>2, <3>1, <3>2
    <2>3. QED
      BY <2>1, <2>2
  <1>19. T \in [1 .. t[m + 1] -> S] /\ junk \in [1 .. pad -> S]
    BY <1>4 DEF junk
  <1>20. Len(c.x) = s[M + 1] /\ \A i \in 1 .. t[m + 1] : c.x[i] = T[i]
    <2> DEFINE a == t[m + 1]
    <2>1. a \in Nat /\ pad \in Nat /\ T \in [1 .. a -> S] /\ junk \in [1 .. pad -> S]
      BY <1>1, <1>17, <1>19
    <2> HIDE DEF a, S
    <2>2. Len(T \o junk) = a + pad /\ \A i \in 1 .. a : (T \o junk)[i] = T[i]
      BY <2>1, JoinIs
    <2>3. QED
      BY <1>5, <1>18, <2>2 DEF a
  <1>21. ASSUME NEW i \in 1 .. m, NEW p \in 0 .. counts[i] - 1
         PROVE  Input(c, i, p) = << batch[i], had[i] + p + 1 >>
    <2>1. counts[i] \in Nat /\ p + 1 \in 1 .. counts[i] /\ t[i] \in Nat /\ i \in 1 .. m + 1
          /\ progress[batch[i]] \in Int /\ had[i] = progress[batch[i]]
      BY <1>0, <1>1, <1>3, <1>17
    <2>2. s[i] + p + 1 = t[i] + (p + 1) /\ had[i] + p + 1 = progress[batch[i]] + (p + 1)
      <3> DEFINE a == t[i]
                 h == progress[batch[i]]
      <3>1. a \in Nat /\ h \in Int /\ p \in Int /\ s[i] = a /\ had[i] = h
        BY <1>15, <2>1
      <3> HIDE DEF a, h
      <3>2. a + p + 1 = a + (p + 1) /\ h + p + 1 = h + (p + 1)
        BY <3>1
      <3>3. QED
        BY <3>1, <3>2 DEF a, h
    <2>3. t[i] + (p + 1) \in 1 .. t[m + 1]
      <3>1. i < m + 1 /\ m + 1 \in 1 .. m + 1 /\ \A j \in 1 .. m : counts[j] \in Nat
        BY <1>1
      <3>2. t[i] + counts[i] <= t[m + 1]
        BY <1>1, <1>4, <2>1, <3>1, PackedInOrder
      <3>3. QED
        BY <1>17, <2>1, <3>2
    <2>4. Input(c, i, p) = c.x[s[i] + p + 1]
      BY <1>6 DEF Input
    <2>5. QED
      BY <1>4, <1>20, <2>1, <2>2, <2>3, <2>4
  <1>22. ASSUME NEW i \in 1 .. m
         PROVE  IsRowOf(c, i, batch[i], had[i], conv[c.lines[i]])
    <2>1. had[i] = progress[batch[i]] /\ batch[i] \in Running /\ progress[batch[i]] \in Int
          /\ i \in 1 .. M
      BY <1>0, <1>1, <1>3
    <2>2. had[i] \in Nat
      BY <2>1 DEF Running
    <2>3. SeqLen(c, i) = counts[i] /\ counts[i] \in Nat \ {0}
      BY <1>1, <1>9, <1>16, <2>1
    <2>4. c.init[i] = (had[i] > 0)
      BY <1>14, <2>1 DEF Begun
    <2>5. had[i] > 0 => conv[c.lines[i]] = Tail(TrueWindow(batch[i], had[i]))
      BY <1>5, <1>12, <2>1 DEF LinesReady, GeneralPathTakesOver
    <2>6. \A p \in 0 .. SeqLen(c, i) - 1 : Input(c, i, p) = << batch[i], had[i] + p + 1 >>
      BY <1>21, <2>3
    <2>7. QED
      BY <1>5, <2>2, <2>3, <2>4, <2>5, <2>6 DEF IsRowOf
  <1>23. \A l \in CacheLines : l # NullBlock
    BY TuningAssumption DEF TuningAssumption, CacheLines, NullBlock
  <1>24. ASSUME NEW i \in 1 .. m
         PROVE  c.lines[i] \in CacheLines /\ \A j \in 1 .. M : c.lines[j] = c.lines[i] => j = i
    <2>1. c.lines[i] = line[batch[i]] /\ batch[i] \in Running
      BY <1>1, <1>5, <1>12
    <2>2. c.lines[i] \in CacheLines
      BY <2>1 DEF LinesReady
    <2>3. ASSUME NEW j \in 1 .. M, c.lines[j] = c.lines[i] PROVE j = i
      <3>1. CASE j > m
        BY <1>5, <1>13, <1>23, <2>2, <2>3, <3>1
      <3>2. CASE ~ (j > m)
        <4>1. j \in 1 .. m
          BY <1>1, <3>2
        <4>2. line[batch[j]] = line[batch[i]] /\ batch[j] \in Running
          BY <1>1, <1>5, <1>12, <2>1, <2>3, <4>1
        <4>3. batch[j] = batch[i]
          BY <2>1, <4>2 DEF LinesReady
        <4>4. QED
          BY <1>1, <4>1, <4>3
      <3>3. QED
        BY <3>1, <3>2
    <2>4. QED
      BY <2>2, <2>3
  <1>25. IsCall(c, m, batch, had, conv)
    <2>1. Len(c.lines) = M /\ M \in Nat /\ m \in 0 .. M
      BY <1>1, <1>5, <1>11
    <2>2. c.starts[1] = 0 /\ \A i \in 1 .. M + 1 : c.starts[i] \in Nat
      BY <1>6, <1>17
    <2>3. Len(c.x) = c.starts[M + 1]
      BY <1>6, <1>20
    <2>4. \A i \in 1 .. M : SeqLen(c, i) \in Nat \ {0}
      BY <1>7, <1>16
    <2>5. c.padSlot \in {PadSlot, NullBlock} /\ c.width = layer.width /\ DOMAIN conv = CacheLines
      BY <1>5 DEF LinesReady
    <2>6. \A i \in 1 .. M : i > m => c.lines[i] = NullBlock
      BY <1>5, <1>13
    <2> HIDE DEF M
    <2>7. QED
      BY <1>22, <1>24, <2>1, <2>2, <2>3, <2>4, <2>5, <2>6 DEF IsCall
  <1>26. \A i \in 1 .. m : /\ SeqLen(c, i) = counts[i]
                           /\ c.starts[i] = Offset(counts, i)
                           /\ c.lines[i] = line[batch[i]]
    <2>1. \A i \in 1 .. m : i \in 1 .. m + 1 /\ i \in 1 .. M
      BY <1>1
    <2>2. \A i \in 1 .. m + 1 : t[i] = Offset(counts, i)
      BY DEF t
    <2>3. QED
      BY <1>5, <1>6, <1>9, <1>12, <1>15, <1>16, <2>1, <2>2
  <1>27. \A i \in 1 .. M : i > m => SeqLen(c, i) = 1
    BY <1>10, <1>16
  <1>28. QED
    BY <1>2, <1>5, <1>11, <1>14, <1>25, <1>26, <1>27 DEF IsCallFor, had

(* The launch of a prefill is long enough, whatever the host believes.     *)
LEMMA LongestIs ==
  ASSUME NEW c, NEW m, NEW who, NEW had, NEW old, IsCall(c, m, who, had, old),
         m = Len(c.lines), m # 0,
         NEW b \in Nat, NEW counts \in [1 .. m -> 1 .. b],
         \A i \in 1 .. m : SeqLen(c, i) = counts[i],
         NEW padding \in {<<>>, << 1 >>}, c.lensCpu = counts \o padding
  PROVE  MaxSeqLen(c) \in Nat \ {0} /\ \A i \in 1 .. m : SeqLen(c, i) <= MaxSeqLen(c)
  <1>1. m \in Nat /\ 1 \in 1 .. m /\ c.starts[1] = 0 /\ (\A i \in 1 .. m + 1 : c.starts[i] \in Nat)
        /\ Len(c.x) = c.starts[m + 1]
    BY DEF IsCall
  <1>2. \A i \in 1 .. m : counts[i] \in Nat \ {0} /\ counts[i] <= b
    OBVIOUS
  <1>3. ASSUME NEW i \in 1 .. m PROVE SeqLen(c, i) <= Len(c.x)
    <2> DEFINE n == [j \in 1 .. m + 1 |-> IF j <= m THEN counts[j] ELSE 0]
    <2>1. \A j \in 1 .. m : n[j] = counts[j] /\ n[j] \in Nat
      BY <1>1, <1>2
    <2>2. \A j \in 1 .. m : c.starts[j + 1] = c.starts[j] + n[j]
      <3> SUFFICES ASSUME NEW j \in 1 .. m PROVE c.starts[j + 1] = c.starts[j] + n[j]
        OBVIOUS
      <3> DEFINE s == c.starts[j]
                 t == c.starts[j + 1]
      <3>1. SeqLen(c, j) = t - s
        BY DEF SeqLen
      <3>2. j \in 1 .. m + 1 /\ j + 1 \in 1 .. m + 1
        BY <1>1
      <3>3. s \in Nat /\ t \in Nat
        BY <1>1, <3>2
      <3>4. n[j] = SeqLen(c, j)
        BY <2>1
      <3> HIDE DEF n, s, t
      <3>5. t = s + n[j]
        BY <3>1, <3>3, <3>4
      <3>6. QED
        BY <3>5 DEF s, t
    <2> HIDE DEF n
    <2>3. ArePacked(c.starts, m, n)
      BY <1>1, <2>2 DEF ArePacked
    <2>4. i \in 1 .. m + 1 /\ m + 1 \in 1 .. m + 1 /\ i < m + 1
      BY <1>1
    <2>5. c.starts[i] + n[i] <= c.starts[m + 1]
      BY <1>1, <2>1, <2>3, <2>4, PackedInOrder
    <2>6. c.starts[i] \in Nat /\ c.starts[m + 1] \in Nat /\ n[i] = counts[i] /\ counts[i] \in Nat
      BY <1>1, <1>2, <2>1, <2>4
    <2>7. QED
      BY <1>1, <2>5, <2>6
  <1>4. CASE MaxSeqLen(c) = Len(c.x)
    <2>1. Len(c.x) \in Nat
      BY <1>1
    <2>2. SeqLen(c, 1) <= Len(c.x) /\ SeqLen(c, 1) \in Nat \ {0}
      BY <1>1, <1>2, <1>3
    <2>3. QED
      BY <1>3, <1>4, <2>1, <2>2
  <1>5. CASE MaxSeqLen(c) = Max(ToSet(c.lensCpu))
    <2> DEFINE lens == counts \o padding
               S == ToSet(lens)
    <2>1. \E h \in Nat : /\ lens \in [1 .. h -> 1 .. b] /\ h >= m
                         /\ \A i \in 1 .. m : lens[i] = counts[i]
      <3>0. 1 \in 1 .. b
        BY <1>1, <1>2
      <3>1. \E l \in Nat : padding \in [1 .. l -> 1 .. b]
        <4>1. <<>> \in [1 .. 0 -> 1 .. b]
          OBVIOUS
        <4>2. << 1 >> \in [1 .. 1 -> 1 .. b]
          BY <3>0
        <4>3. QED
          BY <4>1, <4>2
      <3>2. PICK l \in Nat : padding \in [1 .. l -> 1 .. b]
        BY <3>1
      <3>3. lens \in [1 .. m + l -> 1 .. b] /\ \A i \in 1 .. m : lens[i] = counts[i]
        <4> DEFINE V == 1 .. b
        <4>1. counts \in [1 .. m -> V] /\ padding \in [1 .. l -> V]
          BY <3>2
        <4>3. m \in Nat
          BY <1>1
        <4> HIDE DEF V
        <4>4. counts \o padding \in [1 .. m + l -> V]
          BY ONLY <4>1, <4>3, l \in Nat, JoinIs
        <4>5. \A i \in 1 .. m : (counts \o padding)[i] = counts[i]
          BY ONLY <4>1, <4>3, l \in Nat, JoinIs
        <4>2. lens \in [1 .. m + l -> V] /\ \A i \in 1 .. m : lens[i] = counts[i]
          BY <4>4, <4>5
        <4>6. QED
          BY <4>2 DEF V
      <3>4. m + l \in Nat /\ m + l >= m
        BY <1>1, <3>2
      <3> HIDE DEF lens
      <3>5. QED
        BY <3>3, <3>4
    <2> HIDE DEF lens
    <2>2. PICK h \in Nat : /\ lens \in [1 .. h -> 1 .. b] /\ h >= m
                           /\ \A i \in 1 .. m : lens[i] = counts[i]
      BY <2>1
    <2>3. \A i \in 1 .. h : lens[i] \in S
      BY <2>2 DEF ToSet
    <2>4. S \in SUBSET Nat /\ (\A x \in S : x <= b /\ x # 0)
      <3>1. \A x \in S : x \in 1 .. b
        BY <2>2 DEF ToSet
      <3>2. QED
        BY <3>1
    <2>5. \A i \in 1 .. m : counts[i] \in S
      <3>1. \A i \in 1 .. m : i \in 1 .. h
        BY <1>1, <2>2
      <3>2. QED
        BY <2>2, <2>3, <3>1
    <2> HIDE DEF S
    <2>6. S # {}
      BY <1>1, <2>5
    <2>7. Max(S) \in S /\ \A x \in S : x <= Max(S)
      BY <2>4, <2>6, MaxIs
    <2>8. MaxSeqLen(c) = Max(S)
      BY <1>5 DEF S, lens
    <2>9. QED
      BY <2>4, <2>5, <2>7, <2>8
  <1>6. QED
    BY <1>4, <1>5 DEF MaxSeqLen

----------------------------------------------------------------------------
(* The recurrence over the windows.                                        *)

\* The n values of w after off are the windows of r's tokens after the a-th.
SeesOn(w, off, r, a, n) == \A k \in 1 .. n : w[off + k] = TrueWindow(r, a + k)

\* A history and the windows that go on with it: a longer history.
LEMMA HistoryGoesOn ==
  ASSUME NEW r, NEW a \in Nat, NEW n \in Nat, NEW w, NEW off \in Int, SeesOn(w, off, r, a, n)
  PROVE  Continued(TrueHistory(r, a), w, off, n) = TrueHistory(r, a + n)
  <1> DEFINE F == [k \in Nat |-> TrueWindow(r, k)]
             s == TrueHistory(r, a)
  <1>1. \A k \in Nat : F[k] = TrueWindow(r, k)
    OBVIOUS
  <1>2. \A b \in Nat : TrueHistory(r, b) = Firsts(F, b)
    <2> SUFFICES ASSUME NEW b \in Nat PROVE TrueHistory(r, b) = Firsts(F, b)
      OBVIOUS
    <2>1. \A k \in 1 .. b : F[k] = TrueWindow(r, k)
      BY <1>1
    <2> HIDE DEF F
    <2>2. QED
      BY <2>1 DEF TrueHistory, Firsts
  <1> HIDE DEF F
  <1>3. GoOn(w, off, F, a, n)
    BY <1>1 DEF SeesOn, GoOn
  <1>4. s = Firsts(F, a)
    BY <1>2
  <1>5. a + n \in Nat
    OBVIOUS
  <1> HIDE DEF s
  <1>6. Continued(s, w, off, n) = Firsts(F, a + n)
    BY <1>3, <1>4, GoesOn
  <1>7. QED
    BY <1>2, <1>5, <1>6 DEF s

\* The windows of a call, and the histories its rows start from.
AreWindows(c, m, who, had, windows) ==
  \A i \in 1 .. m : \A k \in 1 .. SeqLen(c, i) : windows[c.starts[i] + k] = TrueWindow(who[i], had[i] + k)

AreHistories(m, who, had, from) == \A i \in 1 .. m : from[i] = TrueHistory(who[i], had[i])

\* A row's history after n of its tokens.
LEMMA RowGoesOn ==
  ASSUME NEW c, NEW m, NEW who, NEW had, NEW old, IsCall(c, m, who, had, old),
         NEW windows, AreWindows(c, m, who, had, windows),
         NEW from, AreHistories(m, who, had, from),
         NEW i \in 1 .. m, NEW n \in 1 .. SeqLen(c, i)
  PROVE  Continued(from[i], windows, c.starts[i], n) = TrueHistory(who[i], had[i] + n)
  <1>1. /\ SeqLen(c, i) \in Nat /\ had[i] \in Nat
        /\ from[i] = TrueHistory(who[i], had[i]) /\ c.starts[i] \in Int
    <2>1. i \in 1 .. Len(c.lines) + 1
      BY DEF IsCall
    <2>2. c.starts[i] \in Int
      BY <2>1 DEF IsCall
    <2>3. QED
      BY <2>2, CallRows DEF AreHistories
  <1>2. n \in Nat /\ \A k \in 1 .. n : k \in 1 .. SeqLen(c, i)
    BY <1>1
  <1>3. SeesOn(windows, c.starts[i], who[i], had[i], n)
    BY <1>2 DEF AreWindows, SeesOn
  <1>4. ASSUME NEW r, NEW a \in Nat, NEW h \in Nat, NEW off \in Int, SeesOn(windows, off, r, a, h)
        PROVE  Continued(TrueHistory(r, a), windows, off, h) = TrueHistory(r, a + h)
    BY <1>4, HistoryGoesOn
  <1>5. Continued(TrueHistory(who[i], had[i]), windows, c.starts[i], n) = TrueHistory(who[i], had[i] + n)
    BY <1>1, <1>2, <1>3, <1>4
  <1>6. QED
    BY <1>1, <1>5

\* What storing the final histories has to leave behind.
IsStored(c, m, who, had, st) ==
  /\ DOMAIN st = CacheLines
  /\ \A i \in 1 .. m : st[c.lines[i]] = TrueHistory(who[i], had[i] + SeqLen(c, i))
  /\ \A l \in CacheLines : (\A i \in 1 .. m : c.lines[i] # l) => st[l] = ssm[l]

\* The final histories are at the requests' lines, the other lines as they were.
LEMMA StoredIs ==
  ASSUME NEW c, NEW m, NEW who, NEW had, NEW old, IsCall(c, m, who, had, old),
         DOMAIN ssm = CacheLines,
         NEW windows, AreWindows(c, m, who, had, windows),
         NEW from, AreHistories(m, who, had, from)
  PROVE  IsStored(c, m, who, had, Stored(c, windows, from))
  <1> DEFINE after == [i \in Rows(c) |-> from[i] \o SubSeq(windows, c.starts[i] + 1, c.starts[i + 1])]
  <1>1. Stored(c, windows, from) = Lines(c, ssm, after) /\ DOMAIN after = 1 .. Len(c.lines)
    BY DEF Stored, Rows
  <1>2. /\ m \in 0 .. Len(c.lines) /\ Len(c.lines) \in Nat
        /\ \A i \in 1 .. Len(c.lines) : i > m => c.lines[i] = NullBlock
    BY DEF IsCall
  <1>3. ASSUME NEW i \in 1 .. m
        PROVE  after[i] = TrueHistory(who[i], had[i] + SeqLen(c, i))
    <2>1. SeqLen(c, i) \in Nat \ {0} /\ i \in Rows(c)
      BY CallRows
    <2>2. c.starts[i + 1] = c.starts[i] + SeqLen(c, i)
      <3>1. i \in 1 .. Len(c.lines) + 1 /\ i + 1 \in 1 .. Len(c.lines) + 1
        BY <1>2
      <3>2. c.starts[i] \in Nat /\ c.starts[i + 1] \in Nat
        BY <3>1 DEF IsCall
      <3>3. QED
        BY <3>2 DEF SeqLen
    <2>3. SeqLen(c, i) \in 1 .. SeqLen(c, i)
      BY <2>1
    <2>4. after[i] = from[i] \o SubSeq(windows, c.starts[i] + 1, c.starts[i + 1])
      BY <2>1
    <2>5. Continued(from[i], windows, c.starts[i], SeqLen(c, i))
            = TrueHistory(who[i], had[i] + SeqLen(c, i))
      BY <2>3, RowGoesOn
    <2>6. after[i] = Continued(from[i], windows, c.starts[i], SeqLen(c, i))
      BY <2>2, <2>4 DEF Continued
    <2>7. QED
      BY <2>5, <2>6
  <1> HIDE DEF after
  <1>4. DOMAIN Lines(c, ssm, after) = CacheLines
    BY DEF Lines
  <1>5. ASSUME NEW i \in 1 .. m PROVE Lines(c, ssm, after)[c.lines[i]] = after[i]
    <2>1. i \in DOMAIN after /\ c.lines[i] \in DOMAIN ssm
      BY <1>1, CallRows DEF Rows
    <2>2. \A j \in DOMAIN after : c.lines[j] = c.lines[i] => j = i
      BY <1>1 DEF IsCall
    <2>3. QED
      BY <2>1, <2>2, LinesAre
  <1>6. ASSUME NEW l \in CacheLines, \A i \in 1 .. m : c.lines[i] # l
        PROVE  Lines(c, ssm, after)[l] = ssm[l]
    <2>1. \A j \in DOMAIN after : c.lines[j] # l
      <3>1. \A j \in 1 .. Len(c.lines) : j \in 1 .. m \/ j > m
        BY <1>2
      <3>2. QED
        BY <1>1, <1>2, <1>6, <3>1, StartedAre
    <2>2. QED
      BY <2>1, LinesAre
  <1>7. QED
    BY <1>1, <1>3, <1>4, <1>5, <1>6 DEF IsStored

\* The rows of a call's outputs, after each token the history with it.
AreHistoryRows(c, m, who, had, rows) ==
  /\ Len(rows) = c.starts[Len(c.lines) + 1]
  /\ \A i \in 1 .. m : \A k \in 1 .. SeqLen(c, i) :
       rows[c.starts[i] + k] = TrueHistory(who[i], had[i] + k)

\* Every output row is the history with its token.
LEMMA RecurredIs ==
  ASSUME NEW c, NEW m, NEW who, NEW had, NEW old, IsCall(c, m, who, had, old),
         NEW windows, AreWindows(c, m, who, had, windows),
         NEW from, AreHistories(m, who, had, from)
  PROVE  AreHistoryRows(c, m, who, had, Recurred(c, windows, from))
  <1> DEFINE M == Len(c.lines)
             n == [i \in 1 .. M |-> SeqLen(c, i)]
             rows == [i \in Rows(c) |-> Histories(c, windows, i, from[i])]
             S == UNION {{rows[i][k] : k \in 1 .. n[i]} : i \in 1 .. M}
             f == FlattenSeq(rows)
             s == c.starts
  <1>1. /\ M \in Nat /\ m \in 0 .. M /\ Rows(c) = 1 .. M
        /\ s[1] = 0 /\ (\A i \in 1 .. M + 1 : s[i] \in Nat)
        /\ \A i \in 1 .. M : SeqLen(c, i) \in Nat
    BY DEF IsCall, Rows
  <1>2. \A i \in 1 .. M : SeqLen(c, i) = s[i + 1] - s[i]
    BY DEF SeqLen
  <1>3. f = Recurred(c, windows, from)
    BY DEF Recurred
  <1>4. \A i \in 1 .. M : n[i] = SeqLen(c, i)
    OBVIOUS
  <1>5. \A i \in 1 .. M : rows[i] = [k \in 1 .. n[i] |-> from[i] \o SubSeq(windows, s[i] + 1, s[i] + k)]
    BY <1>1 DEF Histories
  <1>6. rows = [i \in 1 .. M |-> rows[i]]
    BY <1>1
  <1>7. Len(c.lines) = M
    OBVIOUS
  <1> HIDE DEF M, n, rows, s, f
  <1>8. ArePacked(s, M, n)
    <2>1. \A i \in 1 .. M : s[i + 1] = s[i] + n[i]
      <3>1. \A i \in 1 .. M : i \in 1 .. M + 1 /\ i + 1 \in 1 .. M + 1
        BY <1>1
      <3>2. QED
        BY <1>1, <1>2, <1>4, <3>1
    <2>2. QED
      BY <1>1, <2>1 DEF ArePacked
  <1>9. \A i \in 1 .. M : rows[i] \in [1 .. n[i] -> S]
    <2> SUFFICES ASSUME NEW i \in 1 .. M PROVE rows[i] \in [1 .. n[i] -> S]
      OBVIOUS
    <2>1. \A k \in 1 .. n[i] : rows[i][k] \in S
      OBVIOUS
    <2> HIDE DEF S
    <2>2. rows[i] = [k \in 1 .. n[i] |-> rows[i][k]]
      BY <1>5
    <2>3. QED
      BY <2>1, <2>2
  <1> HIDE DEF S
  <1>10. IsRows(rows, M, n, S)
    BY <1>6, <1>9 DEF IsRows
  <1>11. IsJoined(f, rows, M, n, s, S)
    <2>1. \A i \in 1 .. M : n[i] \in Nat
      BY <1>1, <1>4
    <2>2. QED
      BY <1>1, <1>8, <1>10, <2>1, FlattenIs DEF f
  <1>12. f \in [1 .. s[M + 1] -> S] /\ s[M + 1] \in Nat
    BY <1>1, <1>11 DEF IsJoined
  <1>13. Len(f) = s[M + 1]
    BY <1>12, AsSeq
  <1>14. ASSUME NEW i \in 1 .. m, NEW k \in 1 .. SeqLen(c, i)
         PROVE  f[s[i] + k] = TrueHistory(who[i], had[i] + k)
    <2>1. i \in 1 .. M /\ n[i] = SeqLen(c, i) /\ k \in 1 .. n[i]
      BY <1>1, <1>4
    <2>2. f[s[i] + k] = rows[i][k]
      BY <1>11, <2>1 DEF IsJoined
    <2>3. rows[i][k] = from[i] \o SubSeq(windows, s[i] + 1, s[i] + k)
      BY <1>5, <2>1
    <2>4. Continued(from[i], windows, s[i], k) = TrueHistory(who[i], had[i] + k)
      BY RowGoesOn DEF s
    <2>5. QED
      BY <2>2, <2>3, <2>4 DEF Continued
  <1>15. QED
    BY <1>3, <1>7, <1>13, <1>14 DEF s, AreHistoryRows

----------------------------------------------------------------------------
(* The end of a step.                                                      *)

\* The rows of a buffer of captured size beyond those of the batch are zero.
LEMMA AllocatedIs ==
  ASSUME NEW n \in Nat \ {0}
  PROVE  \A k \in n + 1 .. Len(Allocated(n)) : Allocated(n)[k] = Zero
  <1> DEFINE above == {s \in CaptureSizes : s >= n}
             below(s) == Max({0} \cup {t \in CaptureSizes : t < s})
             size == Min(above)
             low == below(size)
             S == {Zero, Junk}
  <1>1. CaptureSizes \subseteq Nat \ {0}
    BY LayerAssumption DEF LayerAssumption
  <1>2. Allocated(n) =
          IF above = {} THEN [k \in 1 .. n |-> Zero]
          ELSE [k \in 1 .. size |-> IF size - low > 1 /\ k > low THEN Zero ELSE Junk]
    BY DEF Allocated
  <1>3. CASE above = {}
    <2>1. Allocated(n) \in [1 .. n -> {Zero}]
      BY <1>2, <1>3
    <2>2. Len(Allocated(n)) = n
      BY <2>1, AsSeq
    <2>3. QED
      BY <2>2
  <1>4. CASE above # {}
    <2>1. above \in SUBSET Nat
      BY <1>1
    <2>2. size \in above /\ \A x \in above : size <= x
      <3> HIDE DEF above
      <3> QED BY <1>4, <2>1, MinIs
    <2>3. size \in Nat /\ size >= n
      BY <1>1, <2>2
    <2> HIDE DEF size
    <2>4. low \in {0} \cup {t \in CaptureSizes : t < size}
      <3> DEFINE T == {0} \cup {t \in CaptureSizes : t < size}
      <3>0. 0 \in T /\ \A x \in T : x \in Nat /\ x <= size
        <4>1. ASSUME NEW x \in T PROVE x \in Nat /\ x <= size
          <5>1. x = 0 \/ (x \in CaptureSizes /\ x < size)
            OBVIOUS
          <5>2. QED
            BY ONLY <1>1, <2>3, <5>1
        <4>2. QED
          BY <4>1
      <3>1. T \in SUBSET Nat /\ T # {} /\ \A x \in T : x <= size
        <4> HIDE DEF T
        <4> QED BY <3>0
      <3> HIDE DEF T
      <3>2. Max(T) \in T
        BY <2>3, <3>1, MaxIs
      <3>3. QED
        BY <3>2 DEF T
    <2> HIDE DEF low
    <2>5. low \in Nat /\ low < n
      <3>1. CASE low = 0
        BY <3>1
      <3>2. CASE low \in CaptureSizes /\ low < size
        <4>1. low \in Nat /\ low \notin above
          BY <1>1, <2>2, <2>3, <3>2
        <4>2. QED
          BY <3>2, <4>1
      <3>3. QED
        BY <2>4, <3>1, <3>2
    <2>6. Allocated(n) = [k \in 1 .. size |-> IF size - low > 1 /\ k > low THEN Zero ELSE Junk]
      BY <1>2, <1>4
    <2>7. Allocated(n) \in [1 .. size -> S]
      BY <2>6
    <2>8. Len(Allocated(n)) = size
      <3> HIDE DEF S
      <3> QED BY <2>3, <2>7, AsSeq
    <2>9. ASSUME NEW k \in n + 1 .. size PROVE Allocated(n)[k] = Zero
      <3>1. k \in 1 .. size /\ size - low > 1 /\ k > low
        BY <2>3, <2>5
      <3>2. QED
        BY <2>6, <3>1
    <2>10. QED
      BY <2>8, <2>9
  <1>5. QED
    BY <1>3, <1>4

\* The rows of core_attn_out that n tokens of r have to get.
TrueOutput(r, n) == [k \in 1 .. n |-> TrueHistory(r, k)]

\* The n values of w after off are the rows of r's tokens after the a-th.
AreRowsOn(w, off, r, a, n) == \A k \in 1 .. n : w[off + k] = TrueHistory(r, a + k)

\* The rows a request got, and the rows of its next tokens.
LEMMA OutputGoesOn ==
  ASSUME NEW r, NEW a \in Nat, NEW n \in Nat, NEW w, NEW off \in Int,
         AreRowsOn(w, off, r, a, n)
  PROVE  Continued(TrueOutput(r, a), w, off, n) = TrueOutput(r, a + n)
  <1> DEFINE F == [k \in Nat |-> TrueHistory(r, k)]
             s == TrueOutput(r, a)
  <1>1. \A k \in Nat : F[k] = TrueHistory(r, k)
    OBVIOUS
  <1>2. \A b \in Nat : TrueOutput(r, b) = Firsts(F, b)
    <2> SUFFICES ASSUME NEW b \in Nat PROVE TrueOutput(r, b) = Firsts(F, b)
      OBVIOUS
    <2>1. \A k \in 1 .. b : F[k] = TrueHistory(r, k)
      BY <1>1
    <2> HIDE DEF F
    <2>2. QED
      BY <2>1 DEF TrueOutput, Firsts
  <1> HIDE DEF F
  <1>3. GoOn(w, off, F, a, n)
    BY <1>1 DEF GoOn, AreRowsOn
  <1>4. s = Firsts(F, a)
    BY <1>2
  <1>5. a + n \in Nat
    OBVIOUS
  <1> HIDE DEF s
  <1>6. Continued(s, w, off, n) = Firsts(F, a + n)
    BY <1>3, <1>4, GoesOn
  <1>7. QED
    BY <1>2, <1>5, <1>6 DEF s

\* What the end of a step has to leave behind.
IsAdvanced(batch, m, counts) ==
  /\ progress' = [r \in LayerRequests |-> progress'[r]] /\ emitted' = [r \in LayerRequests |-> emitted'[r]]
  /\ \A i \in 1 .. m : /\ progress'[batch[i]] = progress[batch[i]] + counts[i]
                       /\ emitted'[batch[i]] = TrueOutput(batch[i], progress[batch[i]] + counts[i])
  /\ \A r \in LayerRequests : (\A i \in 1 .. m : batch[i] # r)
       => progress'[r] = progress[r] /\ emitted'[r] = emitted[r]
  /\ beyond' \subseteq {Zero}
  /\ layer' = layer /\ line' = line

\* The end of a step counts the tokens and hands out their rows.
LEMMA AdvanceIs ==
  ASSUME NEW batch, NEW m, NEW counts, IsBatch(batch, m, counts),
         progress \in [LayerRequests -> Int],
         \A r \in Running : emitted[r] = TrueOutput(r, progress[r]),
         NEW rows, Len(rows) \in Nat \ {0},
         \A i \in 1 .. m : \A k \in 1 .. counts[i] :
           rows[Offset(counts, i) + k] = TrueHistory(batch[i], progress[batch[i]] + k),
         Advance(batch, counts, rows)
  PROVE  IsAdvanced(batch, m, counts)
  <1> DEFINE place(r) == CHOOSE i \in 1 .. Len(batch) : batch[i] = r
             first(r) == SumFunctionOnSet(counts, 1 .. place(r) - 1)
             buffer == Allocated(Len(rows))
  <1>1. /\ progress' = [r \in LayerRequests |->
                       IF r \in ToSet(batch) THEN progress[r] + counts[place(r)] ELSE progress[r]]
        /\ emitted' = [r \in LayerRequests |->
                      IF r \in ToSet(batch)
                      THEN emitted[r] \o SubSeq(rows, first(r) + 1, first(r) + counts[place(r)])
                      ELSE emitted[r]]
        /\ beyond' = {buffer[k] : k \in Len(rows) + 1 .. Len(buffer)}
        /\ layer' = layer /\ line' = line
    BY DEF Advance
  <1>2. /\ m \in Nat /\ batch \in [1 .. m -> Running] /\ counts \in [1 .. m -> Nat \ {0}]
        /\ \A i, j \in 1 .. m : batch[i] = batch[j] => i = j
        /\ \A i \in 1 .. m : batch[i] \in LayerRequests /\ batch[i] \in Running
    BY DEF IsBatch, Running
  <1>3. Len(batch) = m
    BY <1>2, AsSeq
  <1>4. \A r : r \in ToSet(batch) <=> \E i \in 1 .. m : batch[i] = r
    BY <1>2 DEF ToSet
  <1>5. \A i \in 1 .. m : place(batch[i]) = i
    <2> SUFFICES ASSUME NEW i \in 1 .. m PROVE place(batch[i]) = i
      OBVIOUS
    <2>1. place(batch[i]) = CHOOSE j \in 1 .. m : batch[j] = batch[i]
      BY <1>3
    <2> DEFINE j == CHOOSE j \in 1 .. m : batch[j] = batch[i]
    <2>2. j \in 1 .. m /\ batch[j] = batch[i]
      OBVIOUS
    <2> HIDE DEF j
    <2>3. j = i
      BY <1>2, <2>2
    <2>4. QED
      BY <2>1, <2>3 DEF j
  <1>6. \A i \in 1 .. m : first(batch[i]) = Offset(counts, i)
    BY <1>5 DEF Offset
  <1> HIDE DEF place, first
  <1>7. ASSUME NEW i \in 1 .. m
        PROVE  progress'[batch[i]] = progress[batch[i]] + counts[i]
    BY <1>1, <1>2, <1>4, <1>5
  <1>8. ASSUME NEW i \in 1 .. m
        PROVE  emitted'[batch[i]] = TrueOutput(batch[i], progress[batch[i]] + counts[i])
    <2> DEFINE r == batch[i]
               off == Offset(counts, i)
               a == progress[r]
               n == counts[i]
    <2>1. r \in Running /\ r \in LayerRequests /\ r \in ToSet(batch) /\ n \in Nat
      BY <1>2, <1>4
    <2>2. a \in Nat
      BY <2>1 DEF Running
    <2>3. off \in Int
      <3>1. i \in 1 .. m + 1 /\ \A j \in 1 .. m : counts[j] \in Nat
        BY <1>2
      <3>2. QED
        BY <1>2, <3>1, OffsetIs
    <2>4. AreRowsOn(rows, off, r, a, n)
      BY DEF AreRowsOn
    <2>5. emitted'[r] = emitted[r] \o SubSeq(rows, off + 1, off + n)
      BY <1>1, <1>5, <1>6, <2>1
    <2>6. emitted[r] = TrueOutput(r, a)
      BY <2>1
    <2> HIDE DEF r, off, a, n
    <2>7. Continued(TrueOutput(r, a), rows, off, n) = TrueOutput(r, a + n)
      BY <2>1, <2>2, <2>3, <2>4, OutputGoesOn
    <2>8. emitted'[r] = TrueOutput(r, a + n)
      BY <2>5, <2>6, <2>7 DEF Continued
    <2>9. QED
      BY <2>8 DEF r, a, n
  <1>9. ASSUME NEW r \in LayerRequests, \A i \in 1 .. m : batch[i] # r
        PROVE  progress'[r] = progress[r] /\ emitted'[r] = emitted[r]
    BY <1>1, <1>4, <1>9
  <1>10. beyond' \subseteq {Zero}
    BY <1>1, AllocatedIs
  <1>11. progress' = [r \in LayerRequests |-> progress'[r]] /\ emitted' = [r \in LayerRequests |-> emitted'[r]]
    BY <1>1
  <1>12. QED
    BY <1>1, <1>7, <1>8, <1>9, <1>10, <1>11 DEF IsAdvanced

----------------------------------------------------------------------------
(* The inductive invariant.  Besides the properties it says that the lines *)
(* of running requests are distinct, that every line has its columns, and  *)
(* that the line of a request which has not begun may hold anything.       *)
GdnInv ==
  /\ layer \in Layers
  /\ progress \in [LayerRequests -> -1 .. MaxTokens]
  /\ line \in [LayerRequests -> 0 .. NumLines - 1]
  /\ emitted = [r \in LayerRequests |-> emitted[r]]
  /\ \A r \in Running : line[r] \in CacheLines
  /\ \A r, q \in Running : r # q => line[r] # line[q]
  /\ DOMAIN conv = CacheLines /\ DOMAIN ssm = CacheLines
  /\ \A l \in CacheLines : DOMAIN conv[l] = 1 .. layer.width - 1
  /\ StatesAreTheRequests
  /\ \A r \in Running : emitted[r] = TrueOutput(r, progress[r])
  /\ \A r \in LayerRequests : progress[r] = -1 => emitted[r] = <<>>
  /\ beyond \subseteq {Zero}

\* In a state of the invariant, a step finds the lines as the kernels need them.
LEMMA InvReady ==
  ASSUME GdnInv
  PROVE  LinesReady
  <1>1. progress \in [LayerRequests -> Int]
    <2>1. progress \in [LayerRequests -> -1 .. MaxTokens]
      BY DEF GdnInv
    <2>2. \A r \in LayerRequests : progress[r] \in Int
      BY <2>1
    <2>3. QED
      BY <2>1, <2>2
  <1>2. QED
    BY <1>1 DEF GdnInv, LinesReady, StatesAreTheRequests

\* A step whose convolution is right and whose recurrence starts from the requests'
\* histories keeps the invariant.
LEMMA StepKeeps ==
  ASSUME GdnInv, NEW batch, NEW m, NEW counts, IsBatch(batch, m, counts),
         \A i \in 1 .. m : progress[batch[i]] + counts[i] <= MaxTokens,
         NEW c, NEW pad, NEW lensCpu, IsCallFor(c, batch, m, counts, pad, lensCpu),
         NEW done, IsConvolved(c, m, batch, Had(batch, m), conv, done),
         NEW from, AreHistories(m, batch, Had(batch, m), from),
         conv' = done.conv, ssm' = Stored(c, done.out, from),
         Advance(batch, counts, Recurred(c, done.out, from))
  PROVE  GdnInv'
  <1> DEFINE rows == Recurred(c, done.out, from)
             had == Had(batch, m)
  <1>call. /\ IsCall(c, m, batch, had, conv)
        /\ \A i \in 1 .. m : /\ SeqLen(c, i) = counts[i] /\ c.starts[i] = Offset(counts, i)
                             /\ c.lines[i] = line[batch[i]] /\ had[i] = progress[batch[i]]
    BY DEF IsCallFor, Had
  <1>done. IsConvolved(c, m, batch, had, conv, done) /\ AreHistories(m, batch, had, from)
    OBVIOUS
  <1> HIDE DEF had
  <1>1. /\ m \in Nat /\ m # 0 /\ batch \in [1 .. m -> Running] /\ counts \in [1 .. m -> Nat \ {0}]
        /\ \A i, j \in 1 .. m : batch[i] = batch[j] => i = j
        /\ \A i \in 1 .. m : batch[i] \in LayerRequests /\ batch[i] \in Running /\ counts[i] \in Nat \ {0}
                             /\ had[i] = progress[batch[i]]
    BY <1>call DEF IsBatch, Running
  <1>2. AreWindows(c, m, batch, had, done.out)
    BY <1>done, Zenon DEF AreWindows, IsConvolved
  <1>3. /\ layer \in Layers /\ progress \in [LayerRequests -> -1 .. MaxTokens] /\ progress \in [LayerRequests -> Int]
        /\ line \in [LayerRequests -> 0 .. NumLines - 1]
        /\ DOMAIN conv = CacheLines /\ DOMAIN ssm = CacheLines
    BY InvReady DEF GdnInv, LinesReady
  <1>4. /\ DOMAIN ssm' = CacheLines
        /\ \A i \in 1 .. m : ssm'[line[batch[i]]] = TrueHistory(batch[i], progress[batch[i]] + counts[i])
        /\ \A l \in CacheLines : (\A i \in 1 .. m : line[batch[i]] # l) => ssm'[l] = ssm[l]
    <2> DEFINE st == Stored(c, done.out, from)
    <2>1. IsStored(c, m, batch, had, st)
      BY <1>call, <1>done, <1>2, <1>3, StoredIs
    <2>2. ssm' = st
      OBVIOUS
    <2> HIDE DEF st
    <2>3. \A i \in 1 .. m : c.lines[i] = line[batch[i]]
                            /\ had[i] + SeqLen(c, i) = progress[batch[i]] + counts[i]
      BY <1>call, <1>1
    <2>4. \A i \in 1 .. m : st[line[batch[i]]] = TrueHistory(batch[i], progress[batch[i]] + counts[i])
      BY <2>1, <2>3 DEF IsStored
    <2>5. \A l \in CacheLines : (\A i \in 1 .. m : line[batch[i]] # l) => st[l] = ssm[l]
      BY <2>1, <2>3 DEF IsStored
    <2>6. DOMAIN st = CacheLines
      BY <2>1 DEF IsStored
    <2>7. QED
      BY <2>2, <2>4, <2>5, <2>6
  <1>5. /\ DOMAIN conv' = CacheLines
        /\ \A i \in 1 .. m : conv'[line[batch[i]]] = Tail(TrueWindow(batch[i], progress[batch[i]] + counts[i]))
        /\ \A l \in CacheLines : (\A i \in 1 .. m : line[batch[i]] # l) => conv'[l] = conv[l]
    <2> DEFINE cv == done.conv
    <2>1. /\ DOMAIN cv = CacheLines
          /\ \A i \in 1 .. m : cv[c.lines[i]] = Tail(TrueWindow(batch[i], had[i] + SeqLen(c, i)))
          /\ \A l \in CacheLines : (\A i \in 1 .. m : c.lines[i] # l) => cv[l] = conv[l]
      BY <1>done DEF IsConvolved
    <2>2. conv' = cv
      OBVIOUS
    <2> HIDE DEF cv
    <2>3. \A i \in 1 .. m : c.lines[i] = line[batch[i]]
                            /\ had[i] + SeqLen(c, i) = progress[batch[i]] + counts[i]
      BY <1>call, <1>1
    <2>4. \A i \in 1 .. m : cv[line[batch[i]]] = Tail(TrueWindow(batch[i], progress[batch[i]] + counts[i]))
      BY <2>1, <2>3
    <2>5. \A l \in CacheLines : (\A i \in 1 .. m : line[batch[i]] # l) => cv[l] = conv[l]
      BY <2>1, <2>3
    <2>6. QED
      BY <2>1, <2>2, <2>4, <2>5
  <1>6. IsAdvanced(batch, m, counts)
    <2>0. AreHistoryRows(c, m, batch, had, rows)
      BY <1>call, <1>done, <1>2, RecurredIs
    <2> HIDE DEF rows
    <2>1. Len(rows) \in Nat \ {0}
      <3> DEFINE M == Len(c.lines)
      <3>1. /\ M \in Nat /\ m \in 0 .. M
            /\ \A i \in 1 .. M + 1 : c.starts[i] \in Nat
            /\ \A i \in 1 .. M : SeqLen(c, i) \in Nat \ {0}
        BY <1>call DEF IsCall
      <3>2. Len(rows) = c.starts[M + 1]
        BY <2>0 DEF AreHistoryRows
      <3>3. M \in 1 .. M /\ M \in 1 .. M + 1 /\ M + 1 \in 1 .. M + 1
        BY <1>1, <3>1
      <3>4. SeqLen(c, M) = c.starts[M + 1] - c.starts[M]
        BY DEF SeqLen
      <3> HIDE DEF M
      <3>5. c.starts[M] \in Nat /\ c.starts[M + 1] \in Nat /\ SeqLen(c, M) \in Nat \ {0}
        BY <3>1, <3>3
      <3>6. QED
        BY <3>2, <3>4, <3>5
    <2>2. \A i \in 1 .. m : \A k \in 1 .. counts[i] :
            rows[Offset(counts, i) + k] = TrueHistory(batch[i], progress[batch[i]] + k)
      BY <1>call, <1>1, <2>0 DEF AreHistoryRows
    <2>3. \A r \in Running : emitted[r] = TrueOutput(r, progress[r])
      BY DEF GdnInv
    <2>4. Advance(batch, counts, rows)
      BY DEF rows
    <2>5. QED
      BY <1>3, <2>1, <2>2, <2>3, <2>4, AdvanceIs
  <1>7. /\ progress' = [r \in LayerRequests |-> progress'[r]] /\ emitted' = [r \in LayerRequests |-> emitted'[r]]
        /\ \A i \in 1 .. m : /\ progress'[batch[i]] = progress[batch[i]] + counts[i]
                             /\ emitted'[batch[i]] = TrueOutput(batch[i], progress[batch[i]] + counts[i])
        /\ \A r \in LayerRequests : (\A i \in 1 .. m : batch[i] # r)
             => progress'[r] = progress[r] /\ emitted'[r] = emitted[r]
        /\ beyond' \subseteq {Zero}
        /\ layer' = layer /\ line' = line
    BY <1>6 DEF IsAdvanced
  \* A running request is a row of the batch, or nothing about it has changed.
  <1>8. \A r \in LayerRequests : (\E i \in 1 .. m : batch[i] = r) \/ (\A i \in 1 .. m : batch[i] # r)
    OBVIOUS
  <1>9. progress' \in [LayerRequests -> -1 .. MaxTokens]
    <2>1. ASSUME NEW r \in LayerRequests PROVE progress'[r] \in -1 .. MaxTokens
      <3>1. CASE \E i \in 1 .. m : batch[i] = r
        <4>1. PICK i \in 1 .. m : batch[i] = r
          BY <3>1
        <4>2. progress'[r] = progress[r] + counts[i] /\ progress[r] + counts[i] <= MaxTokens
              /\ counts[i] \in Nat /\ progress[r] \in -1 .. MaxTokens
          BY <1>1, <1>3, <1>7, <4>1
        <4>3. MaxTokens \in Nat
          BY LayerAssumption DEF LayerAssumption
        <4>4. QED
          BY <4>2, <4>3
      <3>2. CASE \A i \in 1 .. m : batch[i] # r
        BY <1>3, <1>7, <3>2
      <3>3. QED
        BY <3>1, <3>2
    <2>2. QED
      BY <1>7, <2>1
  <1>10. \A r \in LayerRequests : r \in Running <=> progress'[r] >= 0
    <2> SUFFICES ASSUME NEW r \in LayerRequests PROVE r \in Running <=> progress'[r] >= 0
      OBVIOUS
    <2>1. CASE \E i \in 1 .. m : batch[i] = r
      <3>1. PICK i \in 1 .. m : batch[i] = r
        BY <2>1
      <3>2. progress'[r] = progress[r] + counts[i] /\ counts[i] \in Nat /\ r \in Running
            /\ progress[r] \in Int
        BY <1>1, <1>3, <1>7, <3>1
      <3>3. QED
        BY <3>2 DEF Running
    <2>2. CASE \A i \in 1 .. m : batch[i] # r
      BY <1>7, <2>2 DEF Running
    <2>3. QED
      BY <2>1, <2>2
  <1>11. Running' = Running
    BY <1>10 DEF Running
  <1>12. \A r \in Running : line[r] \in CacheLines
    BY DEF GdnInv
  <1>13. ASSUME NEW r \in Running
         PROVE  \/ \E i \in 1 .. m : batch[i] = r
                \/ /\ \A i \in 1 .. m : batch[i] # r /\ line[batch[i]] # line[r]
                   /\ progress'[r] = progress[r] /\ emitted'[r] = emitted[r]
                   /\ conv'[line[r]] = conv[line[r]] /\ ssm'[line[r]] = ssm[line[r]]
    <2>1. CASE \A i \in 1 .. m : batch[i] # r
      <3>1. \A i \in 1 .. m : line[batch[i]] # line[r]
        BY <1>1, <2>1 DEF GdnInv
      <3>2. r \in LayerRequests
        BY DEF Running
      <3>3. QED
        BY <1>4, <1>5, <1>7, <1>12, <2>1, <3>1, <3>2
    <2>2. QED
      BY <2>1
  <1>14. ASSUME NEW r \in Running
         PROVE  /\ progress'[r] > 0 => conv'[line[r]] = Tail(TrueWindow(r, progress'[r]))
                /\ progress'[r] > 0 => ssm'[line[r]] = TrueHistory(r, progress'[r])
                /\ emitted'[r] = TrueOutput(r, progress'[r])
    <2>1. CASE \E i \in 1 .. m : batch[i] = r
      <3>1. PICK i \in 1 .. m : batch[i] = r
        BY <2>1
      <3>2. QED
        BY <1>4, <1>5, <1>7, <3>1
    <2>2. CASE /\ progress'[r] = progress[r] /\ emitted'[r] = emitted[r]
               /\ conv'[line[r]] = conv[line[r]] /\ ssm'[line[r]] = ssm[line[r]]
      BY <2>2 DEF GdnInv, StatesAreTheRequests, GeneralPathTakesOver
    <2>3. QED
      BY <1>13, <2>1, <2>2
  <1>15. GeneralPathTakesOver'
    BY <1>7, <1>11, <1>14 DEF GeneralPathTakesOver, TrueWindow
  <1>16. StatesAreTheRequests'
    BY <1>7, <1>11, <1>14, <1>15 DEF StatesAreTheRequests, TrueHistory, TrueWindow
  <1>17. (\A r \in Running : emitted[r] = TrueOutput(r, progress[r]))'
    <2>1. \A r, n : TrueWindow(r, n)' = TrueWindow(r, n)
      BY <1>7 DEF TrueWindow
    <2>2. \A r, n : TrueHistory(r, n)' = TrueHistory(r, n)
      BY <2>1 DEF TrueHistory
    <2>3. \A r, n : TrueOutput(r, n)' = TrueOutput(r, n)
      BY <2>2 DEF TrueOutput
    <2>4. QED
      BY <1>11, <1>14, <2>3
  <1>18. (\A r \in LayerRequests : progress[r] = -1 => emitted[r] = <<>>)'
    <2> SUFFICES ASSUME NEW r \in LayerRequests, progress'[r] = -1 PROVE emitted'[r] = <<>>
      OBVIOUS
    <2>1. r \notin Running
      BY <1>10
    <2>2. \A i \in 1 .. m : batch[i] # r
      BY <1>1, <2>1
    <2>3. QED
      BY <1>7, <2>2 DEF GdnInv
  <1>19. (\A l \in CacheLines : DOMAIN conv[l] = 1 .. layer.width - 1)'
    <2> SUFFICES ASSUME NEW l \in CacheLines PROVE DOMAIN conv'[l] = 1 .. layer.width - 1
      BY <1>7 DEF CacheLines
    <2>1. CASE \A i \in 1 .. m : line[batch[i]] # l
      BY <1>5, <2>1 DEF GdnInv
    <2>2. CASE \E i \in 1 .. m : line[batch[i]] = l
      <3>1. PICK i \in 1 .. m : line[batch[i]] = l
        BY <2>2
      <3> DEFINE n == progress[batch[i]] + counts[i]
      <3>2. conv'[l] = Tail(TrueWindow(batch[i], n)) /\ n \in Int
        <4>1. conv'[l] = Tail(TrueWindow(batch[i], n))
          BY <1>5, <3>1
        <4>2. progress[batch[i]] \in Int /\ counts[i] \in Int
          BY <1>1, <1>3
        <4>3. QED
          BY <4>1, <4>2
      <3> HIDE DEF n
      <3>3. layer.width \in 2 .. 5
        BY <1>3, LayerIs
      <3>4. Tail(TrueWindow(batch[i], n))
              = [j \in 1 .. layer.width - 1 |-> TokenOf(batch[i], n - layer.width + j + 1)]
        BY <3>2, <3>3, Tails
      <3>5. QED
        BY <3>2, <3>4
    <2>3. QED
      BY <2>1, <2>2
  <1>20. /\ (\A r \in Running : line[r] \in CacheLines)'
         /\ (\A r, q \in Running : r # q => line[r] # line[q])'
    BY <1>7, <1>11 DEF GdnInv, CacheLines
  <1>21. (DOMAIN conv = CacheLines /\ DOMAIN ssm = CacheLines)'
    BY <1>4, <1>5 DEF CacheLines
  <1>22. QED
    BY <1>3, <1>7, <1>9, <1>16, <1>17, <1>18, <1>19, <1>20, <1>21 DEF GdnInv

----------------------------------------------------------------------------
(* The actions.                                                            *)

\* A batch is an order of some of the running requests.
LEMMA RowsOfBatch ==
  ASSUME NEW S \in (SUBSET Running) \ {{}}, NEW batch \in SetToSeqs(S)
  PROVE  /\ Len(batch) \in Nat \ {0} /\ batch \in [1 .. Len(batch) -> Running]
         /\ \A i, j \in 1 .. Len(batch) : batch[i] = batch[j] => i = j
  <1>1. S \subseteq LayerRequests /\ S # {} /\ S \subseteq Running
    <2>1. S \subseteq Running /\ S # {}
      OBVIOUS
    <2>2. Running \subseteq LayerRequests
      BY DEF Running
    <2>3. QED
      BY <2>1, <2>2
  <1>2. IsFiniteSet(S)
    BY <1>1, LayerAssumption, FS_Subset DEF LayerAssumption
  <1>3. Cardinality(S) \in Nat /\ Cardinality(S) # 0
    BY <1>1, <1>2, FS_CardinalityType, FS_EmptySet
  <1> DEFINE m == Cardinality(S)
  <1>4. batch \in [1 .. m -> S] /\ \A i, j \in 1 .. m : i # j => batch[i] # batch[j]
    BY DEF SetToSeqs
  <1> HIDE DEF m
  <1>5. m \in Nat /\ m # 0
    BY <1>3 DEF m
  <1>6. Len(batch) = m
    BY <1>4, <1>5, AsSeq
  <1>7. batch \in [1 .. m -> Running]
    BY <1>1, <1>4
  <1>8. QED
    BY <1>4, <1>5, <1>6, <1>7

\* A running request has consumed a number of tokens, and its line holds their history
\* if it has begun.
LEMMA RunningIs ==
  ASSUME GdnInv, NEW r \in Running
  PROVE  /\ progress[r] \in Nat /\ r \in LayerRequests
         /\ progress[r] > 0 => ssm[line[r]] = TrueHistory(r, progress[r])
         /\ TrueHistory(r, 0) = <<>>
  <1>1. progress \in [LayerRequests -> -1 .. MaxTokens] /\ StatesAreTheRequests
    BY DEF GdnInv
  <1>2. r \in LayerRequests /\ progress[r] >= 0
    BY DEF Running
  <1>3. MaxTokens \in Nat
    BY LayerAssumption DEF LayerAssumption
  <1>4. progress[r] \in Nat
    <2>1. progress[r] \in -1 .. MaxTokens
      BY <1>1, <1>2
    <2>2. QED
      BY <1>2, <1>3, <2>1
  <1>5. TrueHistory(r, 0) = <<>>
    <2>1. 1 .. 0 = {}
      OBVIOUS
    <2>2. QED
      BY <2>1 DEF TrueHistory
  <1>6. QED
    BY <1>1, <1>2, <1>4, <1>5 DEF StatesAreTheRequests

\* A prefill, by mate or by the recurrent kernel.
LEMMA PrefillKeeps ==
  ASSUME GdnInv, NEW batch, NEW m, NEW counts \in [1 .. m -> 1 .. MaxTokens], IsBatch(batch, m, counts),
         \A i \in 1 .. m : progress[batch[i]] + counts[i] <= MaxTokens,
         NEW padding \in {<<>>, << 1 >>}, NEW mateRaises \in BOOLEAN,
         Prefill(batch, counts, counts \o padding, mateRaises)
  PROVE  GdnInv'
  <1> DEFINE lens == counts \o padding
             c == Call(batch, counts, 0, lens)
             done == Fwd(c, conv, layer)
             from == [i \in Rows(c) |->
                       IF mateRaises THEN RecurrentStart(c, i) ELSE MateStart(c, i)]
             had == Had(batch, m)
  <1>1. conv' = done.conv /\ ssm' = Stored(c, done.out, from)
        /\ Advance(batch, counts, Recurred(c, done.out, from))
    BY DEF Prefill
  <1>2. LinesReady
    BY InvReady
  <1>3. m \in Nat /\ m # 0 /\ \A i \in 1 .. m : batch[i] \in Running
    BY DEF IsBatch
  <1>4. \A i \in 1 .. m : had[i] = progress[batch[i]]
    BY DEF Had
  <1>5. \A i \in Rows(c) : from[i] = IF c.init[i] THEN ssm[c.lines[i]] ELSE <<>>
    BY DEF RecurrentStart, MateStart
  <1>6. c = Call(batch, counts, 0, lens)
    OBVIOUS
  <1>7. 0 \in 0 .. 1 /\ m + 0 = m
    BY <1>3
  <1> HIDE DEF c, had, from
  <1>call. IsCallFor(c, batch, m, counts, 0, lens)
    BY <1>2, <1>6, <1>7, CallIs
  <1>8. /\ IsCall(c, m, batch, had, conv) /\ Len(c.lines) = m + 0
        /\ \A i \in 1 .. m : /\ SeqLen(c, i) = counts[i]
                             /\ c.starts[i] = Offset(counts, i)
                             /\ c.lines[i] = line[batch[i]]
                             /\ c.init[i] = Begun(batch[i])
        /\ c.lensCpu = lens
    BY <1>call DEF IsCallFor, had
  <1>9. MaxSeqLen(c) \in Nat \ {0} /\ \A i \in 1 .. m : SeqLen(c, i) <= MaxSeqLen(c)
    <2> DEFINE b == MaxTokens
    <2>1. b \in Nat /\ counts \in [1 .. m -> 1 .. b]
      BY LayerAssumption DEF LayerAssumption
    <2>2. m = Len(c.lines)
      BY <1>7, <1>8
    <2>3. \A i \in 1 .. m : SeqLen(c, i) = counts[i]
      BY <1>8
    <2>4. c.lensCpu = counts \o padding /\ IsCall(c, m, batch, had, conv)
      BY <1>8
    <2> HIDE DEF b, lens
    <2>5. QED
      BY <1>3, <2>1, <2>2, <2>3, <2>4, LongestIs
  <1>10. IsConvolved(c, m, batch, had, conv, done)
    <2>1. m = Len(c.lines) /\ layer \in Layers
      BY <1>2, <1>7, <1>8 DEF LinesReady
    <2>2. QED
      BY <1>8, <1>9, <2>1, FwdIs
  <1>11. AreHistories(m, batch, had, from)
    <2> SUFFICES ASSUME NEW i \in 1 .. m PROVE from[i] = TrueHistory(batch[i], had[i])
      BY DEF AreHistories
    <2>1. i \in Rows(c)
      BY <1>8, CallRows
    <2>2. from[i] = IF progress[batch[i]] > 0 THEN ssm[line[batch[i]]] ELSE <<>>
      BY <1>5, <1>8, <2>1 DEF Begun
    <2> DEFINE r == batch[i]
    <2>3. r \in Running /\ had[i] = progress[r]
      BY <1>3, <1>4
    <2> HIDE DEF r
    <2>4. /\ progress[r] \in Nat /\ TrueHistory(r, 0) = <<>>
          /\ progress[r] > 0 => ssm[line[r]] = TrueHistory(r, progress[r])
      BY <2>3, RunningIs
    <2>5. progress[r] = 0 \/ progress[r] > 0
      BY <2>4
    <2>6. QED
      BY <2>2, <2>3, <2>4, <2>5 DEF r
  <1> HIDE DEF done
  <1>12. QED
    BY <1>1, <1>call, <1>10, <1>11, StepKeeps DEF had

\* A decode, unless both of its kernels raise.
LEMMA DecodeKeeps ==
  ASSUME GdnInv, NEW batch, NEW m, NEW ones, ones = [i \in 1 .. m |-> 1], IsBatch(batch, m, ones),
         \A i \in 1 .. m : progress[batch[i]] \in 1 .. MaxTokens - 1,
         NEW pad \in 0 .. 1,
         DecodeStep(batch, pad, FALSE)
  PROVE  GdnInv'
  <1> DEFINE c == Call(batch, ones, pad, ones)
             done == Update(c, conv)
             from == [i \in Rows(c) |->
                       IF c.lines[i] = NullBlock THEN << Junk >> ELSE ssm[c.lines[i]]]
             had == Had(batch, m)
  <1>1. m \in Nat /\ m # 0 /\ batch \in [1 .. m -> Running] /\ \A i \in 1 .. m : batch[i] \in Running
    BY DEF IsBatch
  <1>2. LinesReady
    BY InvReady
  <1>3. Len(batch) = m
    BY <1>1, AsSeq
  <1>4. conv' = done.conv /\ ssm' = Stored(c, done.out, from)
        /\ Advance(batch, ones, Recurred(c, done.out, from))
    BY <1>3 DEF DecodeStep
  <1>5. \A i \in Rows(c) : from[i] = IF c.lines[i] = NullBlock THEN << Junk >> ELSE ssm[c.lines[i]]
    OBVIOUS
  <1>6. c = Call(batch, ones, pad, ones)
    OBVIOUS
  <1>7. \A i \in 1 .. m : had[i] = progress[batch[i]] /\ had[i] > 0 /\ ones[i] = 1
                          /\ progress[batch[i]] + ones[i] <= MaxTokens
    <2>1. MaxTokens \in Nat
      BY LayerAssumption DEF LayerAssumption
    <2>2. QED
      BY <2>1 DEF Had
  <1> HIDE DEF c, had, from
  <1>call. IsCallFor(c, batch, m, ones, pad, ones)
    BY <1>2, <1>6, CallIs
  <1>8. /\ IsCall(c, m, batch, had, conv) /\ Len(c.lines) = m + pad
        /\ \A i \in 1 .. m : /\ SeqLen(c, i) = ones[i]
                             /\ c.starts[i] = Offset(ones, i)
                             /\ c.lines[i] = line[batch[i]]
        /\ \A i \in 1 .. m + pad : i > m => SeqLen(c, i) = 1
        /\ {"width", "x", "starts", "lines", "init", "padSlot"} \subseteq DOMAIN c
    BY <1>call DEF IsCallFor, had
  <1>9. IsConvolved(c, m, batch, had, conv, done)
    <2>1. \A i \in 1 .. Len(c.lines) : SeqLen(c, i) = 1
      <3>1. \A i \in 1 .. m + pad : i \in 1 .. m \/ i > m
        BY <1>1
      <3>2. QED
        BY <1>7, <1>8, <3>1
    <2>2. layer \in Layers /\ \A i \in 1 .. m : had[i] > 0
      BY <1>2, <1>7 DEF LinesReady
    <2>3. QED
      BY <1>8, <2>1, <2>2, UpdateIs
  <1>10. AreHistories(m, batch, had, from)
    <2> SUFFICES ASSUME NEW i \in 1 .. m PROVE from[i] = TrueHistory(batch[i], had[i])
      BY DEF AreHistories
    <2>1. i \in Rows(c) /\ c.lines[i] \in CacheLines /\ c.lines[i] # NullBlock
      BY <1>8, CallRows, StartedAre
    <2> DEFINE r == batch[i]
    <2>2. r \in Running /\ had[i] = progress[r] /\ progress[r] > 0 /\ c.lines[i] = line[r]
      BY <1>1, <1>7, <1>8
    <2> HIDE DEF r
    <2>3. ssm[line[r]] = TrueHistory(r, progress[r])
      BY <2>2, RunningIs
    <2>4. QED
      BY <1>5, <2>1, <2>2, <2>3 DEF r
  <1> HIDE DEF done
  <1>11. QED
    BY <1>4, <1>7, <1>call, <1>9, <1>10, StepKeeps DEF had

----------------------------------------------------------------------------
(* The proof.                                                              *)

\* At the start nothing runs.
LEMMA LayerInitHolds ==
  ASSUME LayerInit
  PROVE  GdnInv
  <1>1. NumLines \in Nat \ {0} /\ MaxTokens \in Nat
    BY TuningAssumption, LayerAssumption DEF TuningAssumption, LayerAssumption
  <1>2. /\ layer \in Layers
        /\ progress = [r \in LayerRequests |-> -1]
        /\ line = [r \in LayerRequests |-> NullBlock]
        /\ conv = [l \in CacheLines |-> [j \in 1 .. layer.width - 1 |-> Junk]]
        /\ ssm = [l \in CacheLines |-> << Junk >>]
        /\ emitted = [r \in LayerRequests |-> <<>>]
        /\ beyond = {}
    BY DEF LayerInit
  <1>3. Running = {}
    BY <1>2 DEF Running
  <1>4. progress \in [LayerRequests -> -1 .. MaxTokens]
    <2>1. -1 \in -1 .. MaxTokens
      BY <1>1
    <2>2. QED
      BY <1>2, <2>1
  <1>5. line \in [LayerRequests -> 0 .. NumLines - 1]
    <2>1. NullBlock \in 0 .. NumLines - 1
      BY <1>1 DEF NullBlock
    <2>2. QED
      BY <1>2, <2>1
  <1>6. DOMAIN conv = CacheLines /\ DOMAIN ssm = CacheLines
        /\ \A l \in CacheLines : DOMAIN conv[l] = 1 .. layer.width - 1
    BY <1>2
  <1>7. StatesAreTheRequests
    BY <1>3 DEF StatesAreTheRequests, GeneralPathTakesOver
  <1>8. emitted = [r \in LayerRequests |-> emitted[r]] /\ (\A r \in LayerRequests : emitted[r] = <<>>)
        /\ beyond \subseteq {Zero}
    BY <1>2
  <1>9. QED
    BY <1>2, <1>3, <1>4, <1>5, <1>6, <1>7, <1>8 DEF GdnInv

\* A line that is handed out may hold anything, for its request has not begun.
LEMMA AdmitKeeps ==
  ASSUME GdnInv, NEW r \in LayerRequests, Admit(r)
  PROVE  GdnInv'
  <1>1. PICK l \in FreeLines : /\ line' = [line EXCEPT ![r] = l]
                               /\ progress' = [progress EXCEPT ![r] = 0]
    BY DEF Admit
  <1>2. /\ progress[r] = -1
        /\ layer' = layer /\ conv' = conv /\ ssm' = ssm /\ emitted' = emitted /\ beyond' = beyond
    BY DEF Admit
  <1>3. /\ progress \in [LayerRequests -> -1 .. MaxTokens] /\ line \in [LayerRequests -> 0 .. NumLines - 1]
        /\ MaxTokens \in Nat /\ NumLines \in Nat
    BY TuningAssumption, LayerAssumption DEF TuningAssumption, LayerAssumption, GdnInv
  <1>4. l \in CacheLines /\ (\A q \in Running : line[q] # l) /\ l \in 0 .. NumLines - 1
    <2>1. l \in CacheLines /\ \A q \in Running : line[q] # l
      BY DEF FreeLines
    <2>2. QED
      BY <1>3, <2>1 DEF CacheLines
  <1>5. r \notin Running
    BY <1>2 DEF Running
  <1>6. /\ progress'[r] = 0 /\ line'[r] = l
        /\ \A q \in LayerRequests \ {r} : progress'[q] = progress[q] /\ line'[q] = line[q]
    BY <1>1, <1>3
  <1>7. Running' = Running \cup {r}
    BY <1>6 DEF Running
  <1>8. \A q \in Running : q \in LayerRequests \ {r}
    BY <1>5 DEF Running
  <1>9. /\ progress' \in [LayerRequests -> -1 .. MaxTokens]
        /\ line' \in [LayerRequests -> 0 .. NumLines - 1]
    <2>1. 0 \in -1 .. MaxTokens
      BY <1>3
    <2>2. QED
      BY <1>1, <1>3, <1>4, <2>1
  <1>10. (\A q \in Running : line[q] \in CacheLines)'
    BY <1>4, <1>6, <1>7, <1>8 DEF GdnInv, CacheLines
  <1>11. (\A p, q \in Running : p # q => line[p] # line[q])'
    BY <1>4, <1>6, <1>7, <1>8 DEF GdnInv
  <1>12. GeneralPathTakesOver'
    <2>1. ASSUME NEW q \in Running', progress'[q] > 0
          PROVE  conv'[line'[q]] = Tail(TrueWindow(q, progress[q]))
      BY <1>2, <1>6, <1>7, <1>8, <2>1 DEF GdnInv, StatesAreTheRequests, GeneralPathTakesOver
    <2>2. ASSUME NEW q \in Running', progress'[q] > 0
          PROVE  progress'[q] = progress[q]
      BY <1>6, <1>7, <1>8, <2>2
    <2>3. QED
      BY <1>2, <2>1, <2>2 DEF GeneralPathTakesOver, TrueWindow
  <1>13. StatesAreTheRequests'
    <2>1. ASSUME NEW q \in Running', progress'[q] > 0
          PROVE  ssm'[line'[q]] = TrueHistory(q, progress[q])
      BY <1>2, <1>6, <1>7, <1>8, <2>1 DEF GdnInv, StatesAreTheRequests
    <2>2. ASSUME NEW q \in Running', progress'[q] > 0
          PROVE  progress'[q] = progress[q]
      BY <1>6, <1>7, <1>8, <2>2
    <2>3. QED
      BY <1>2, <1>12, <2>1, <2>2 DEF StatesAreTheRequests, TrueHistory, TrueWindow
  <1>14. (\A q \in Running : emitted[q] = TrueOutput(q, progress[q]))'
    <2>1. \A q, n : TrueWindow(q, n)' = TrueWindow(q, n)
      BY <1>2 DEF TrueWindow
    <2>2. \A q, n : TrueHistory(q, n)' = TrueHistory(q, n)
      BY <2>1 DEF TrueHistory
    <2>3. \A q, n : TrueOutput(q, n)' = TrueOutput(q, n)
      BY <2>2 DEF TrueOutput
    <2>4. emitted[r] = <<>>
      BY <1>2 DEF GdnInv
    <2>5. TrueOutput(r, 0) = <<>>
      <3>1. 1 .. 0 = {}
        OBVIOUS
      <3>2. QED
        BY <3>1 DEF TrueOutput
    <2>6. \A q \in Running : emitted'[q] = TrueOutput(q, progress'[q])
      BY <1>2, <1>6, <1>8 DEF GdnInv
    <2>7. emitted'[r] = TrueOutput(r, progress'[r])
      BY <1>2, <1>6, <2>4, <2>5
    <2>8. QED
      BY <1>7, <2>3, <2>6, <2>7
  <1>15. (\A q \in LayerRequests : progress[q] = -1 => emitted[q] = <<>>)'
    BY <1>2, <1>6 DEF GdnInv
  <1>16. /\ emitted' = [q \in LayerRequests |-> emitted'[q]] /\ beyond' \subseteq {Zero}
         /\ layer' \in Layers
         /\ DOMAIN conv' = CacheLines' /\ DOMAIN ssm' = CacheLines'
         /\ \A h \in CacheLines' : DOMAIN conv'[h] = 1 .. layer'.width - 1
    BY <1>2 DEF GdnInv, CacheLines
  <1>17. QED
    BY <1>9, <1>10, <1>11, <1>13, <1>14, <1>15, <1>16 DEF GdnInv

\* A request that ends takes its line and its rows out of account.
LEMMA ReleaseKeeps ==
  ASSUME GdnInv, NEW r \in LayerRequests, Release(r)
  PROVE  GdnInv'
  <1>1. /\ progress' = [progress EXCEPT ![r] = -1]
        /\ line' = [line EXCEPT ![r] = NullBlock]
        /\ emitted' = [emitted EXCEPT ![r] = <<>>]
        /\ layer' = layer /\ conv' = conv /\ ssm' = ssm /\ beyond' = beyond
    BY DEF Release
  <1>2. /\ progress \in [LayerRequests -> -1 .. MaxTokens] /\ line \in [LayerRequests -> 0 .. NumLines - 1]
        /\ MaxTokens \in Nat /\ NumLines \in Nat \ {0}
        /\ emitted = [q \in LayerRequests |-> emitted[q]]
    BY TuningAssumption, LayerAssumption DEF TuningAssumption, LayerAssumption, GdnInv
  <1>3. /\ progress'[r] = -1 /\ emitted'[r] = <<>>
        /\ \A q \in LayerRequests \ {r} : progress'[q] = progress[q] /\ line'[q] = line[q] /\ emitted'[q] = emitted[q]
    BY <1>1, <1>2
  <1>4. Running' = Running \ {r}
    BY <1>3 DEF Running
  <1>5. \A q \in Running' : q \in Running /\ q \in LayerRequests \ {r}
    BY <1>4 DEF Running
  <1>6. /\ progress' \in [LayerRequests -> -1 .. MaxTokens]
        /\ line' \in [LayerRequests -> 0 .. NumLines - 1]
    <2>1. -1 \in -1 .. MaxTokens /\ NullBlock \in 0 .. NumLines - 1
      BY <1>2 DEF NullBlock
    <2>2. QED
      BY <1>1, <1>2, <2>1
  <1>7. (\A q \in Running : line[q] \in CacheLines)'
    BY <1>3, <1>5 DEF GdnInv, CacheLines
  <1>8. (\A p, q \in Running : p # q => line[p] # line[q])'
    BY <1>3, <1>5 DEF GdnInv
  <1>9. \A q \in Running' : /\ progress'[q] = progress[q] /\ line'[q] = line[q] /\ emitted'[q] = emitted[q]
                            /\ conv'[line'[q]] = conv[line[q]] /\ ssm'[line'[q]] = ssm[line[q]]
    BY <1>1, <1>3, <1>5
  <1>10. GeneralPathTakesOver'
    <2>1. ASSUME NEW q \in Running', progress'[q] > 0
          PROVE  conv'[line'[q]] = Tail(TrueWindow(q, progress[q]))
      BY <1>5, <1>9, <2>1 DEF GdnInv, StatesAreTheRequests, GeneralPathTakesOver
    <2>2. QED
      BY <1>1, <1>9, <2>1 DEF GeneralPathTakesOver, TrueWindow
  <1>11. StatesAreTheRequests'
    <2>1. ASSUME NEW q \in Running', progress'[q] > 0
          PROVE  ssm'[line'[q]] = TrueHistory(q, progress[q])
      BY <1>5, <1>9, <2>1 DEF GdnInv, StatesAreTheRequests
    <2>2. QED
      BY <1>1, <1>9, <1>10, <2>1 DEF StatesAreTheRequests, TrueHistory, TrueWindow
  <1>12. (\A q \in Running : emitted[q] = TrueOutput(q, progress[q]))'
    <2>1. \A q, n : TrueWindow(q, n)' = TrueWindow(q, n)
      BY <1>1 DEF TrueWindow
    <2>2. \A q, n : TrueHistory(q, n)' = TrueHistory(q, n)
      BY <2>1 DEF TrueHistory
    <2>3. \A q, n : TrueOutput(q, n)' = TrueOutput(q, n)
      BY <2>2 DEF TrueOutput
    <2>4. \A q \in Running' : emitted'[q] = TrueOutput(q, progress'[q])
      BY <1>5, <1>9 DEF GdnInv
    <2>5. QED
      BY <2>3, <2>4
  <1>13. (\A q \in LayerRequests : progress[q] = -1 => emitted[q] = <<>>)'
    BY <1>3 DEF GdnInv
  <1>14. /\ emitted' = [q \in LayerRequests |-> emitted'[q]] /\ beyond' \subseteq {Zero}
         /\ layer' \in Layers
         /\ DOMAIN conv' = CacheLines' /\ DOMAIN ssm' = CacheLines'
         /\ \A h \in CacheLines' : DOMAIN conv'[h] = 1 .. layer'.width - 1
    <2>1. emitted' = [q \in LayerRequests |-> emitted'[q]]
      BY <1>1, <1>2
    <2>2. QED
      BY <1>1, <2>1 DEF GdnInv, CacheLines
  <1>15. QED
    BY <1>6, <1>7, <1>8, <1>11, <1>12, <1>13, <1>14 DEF GdnInv

\* A step of the model runner.
LEMMA ModelStepKeeps ==
  ASSUME FallbackMayRaise = FALSE, GdnInv, LayerStep
  PROVE  GdnInv'
  <1>0. PICK batch \in UNION {SetToSeqs(S) : S \in (SUBSET Running) \ {{}}} :
          \/ \E counts \in Counts(batch), mateRaises \in BOOLEAN, padding \in {<<>>, << 1 >>} :
               Prefill(batch, counts, counts \o padding, mateRaises)
          \/ \E pad \in 0 .. 1 :
               /\ \A i \in 1 .. Len(batch) : progress[batch[i]] \in 1 .. MaxTokens - 1
               /\ DecodeStep(batch, pad, FALSE)
    BY DEF LayerStep
  <1>1. PICK S \in (SUBSET Running) \ {{}} : batch \in SetToSeqs(S)
    OBVIOUS
  <1> DEFINE m == Len(batch)
             ones == [i \in 1 .. m |-> 1]
  <1>2. m \in Nat \ {0} /\ batch \in [1 .. m -> Running]
        /\ \A i, j \in 1 .. m : batch[i] = batch[j] => i = j
    BY <1>1, RowsOfBatch
  <1>3. CASE \E counts \in Counts(batch), mateRaises \in BOOLEAN, padding \in {<<>>, << 1 >>} :
               Prefill(batch, counts, counts \o padding, mateRaises)
    <2>1. PICK counts \in Counts(batch), mateRaises \in BOOLEAN, padding \in {<<>>, << 1 >>} :
            Prefill(batch, counts, counts \o padding, mateRaises)
      BY <1>3
    <2>2. /\ counts \in [1 .. m -> 1 .. MaxTokens]
          /\ \A i \in 1 .. m : progress[batch[i]] + counts[i] <= MaxTokens
      BY DEF Counts
    <2> HIDE DEF m
    <2>3. counts \in [1 .. m -> Nat \ {0}]
      <3>1. \A n \in 1 .. MaxTokens : n \in Nat \ {0}
        BY LayerAssumption DEF LayerAssumption
      <3>2. QED
        BY <2>2, <3>1
    <2>4. IsBatch(batch, m, counts)
      BY <1>2, <2>3 DEF IsBatch
    <2>5. QED
      BY <2>1, <2>2, <2>4, PrefillKeeps
  <1>4. CASE \E pad \in 0 .. 1 :
               /\ \A i \in 1 .. m : progress[batch[i]] \in 1 .. MaxTokens - 1
               /\ DecodeStep(batch, pad, FALSE)
    <2>1. PICK pad \in 0 .. 1 : /\ \A i \in 1 .. m : progress[batch[i]] \in 1 .. MaxTokens - 1
                                /\ DecodeStep(batch, pad, FALSE)
      BY <1>4
    <2> HIDE DEF m
    <2>2. ones \in [1 .. m -> Nat \ {0}] /\ ones = [i \in 1 .. m |-> 1]
      OBVIOUS
    <2> HIDE DEF ones
    <2>3. IsBatch(batch, m, ones)
      BY <1>2, <2>2 DEF IsBatch
    <2>4. QED
      BY <2>1, <2>2, <2>3, DecodeKeeps
  <1>5. QED
    BY <1>0, <1>3, <1>4

\* Every step.
LEMMA NextKeeps ==
  ASSUME FallbackMayRaise = FALSE, GdnInv, [LayerNext]_layerVars
  PROVE  GdnInv'
  <1>1. CASE UNCHANGED layerVars
    <2>1. /\ layer' = layer /\ progress' = progress /\ line' = line /\ conv' = conv
          /\ ssm' = ssm /\ emitted' = emitted /\ beyond' = beyond
      BY <1>1 DEF layerVars
    <2>2. Running' = Running /\ CacheLines' = CacheLines
      BY <2>1 DEF Running, CacheLines
    <2>3. \A q, n : TrueWindow(q, n)' = TrueWindow(q, n)
      BY <2>1 DEF TrueWindow
    <2>4. GeneralPathTakesOver'
      <3>1. ASSUME NEW q \in Running, progress[q] > 0
            PROVE  conv[line[q]] = Tail(TrueWindow(q, progress[q]))
        BY <3>1 DEF GdnInv, StatesAreTheRequests, GeneralPathTakesOver
      <3>2. QED
        BY <2>1, <2>2, <3>1 DEF GeneralPathTakesOver, TrueWindow
    <2>5. StatesAreTheRequests'
      <3>1. ASSUME NEW q \in Running, progress[q] > 0
            PROVE  ssm[line[q]] = TrueHistory(q, progress[q])
        BY <3>1 DEF GdnInv, StatesAreTheRequests
      <3>2. QED
        BY <2>1, <2>2, <2>4, <3>1 DEF StatesAreTheRequests, TrueHistory, TrueWindow
    <2>6. \A q, n : TrueHistory(q, n)' = TrueHistory(q, n)
      BY <2>3 DEF TrueHistory
    <2>7. \A q, n : TrueOutput(q, n)' = TrueOutput(q, n)
      BY <2>6 DEF TrueOutput
    <2>8. (\A r \in Running : emitted[r] = TrueOutput(r, progress[r]))'
      BY <2>1, <2>2, <2>7 DEF GdnInv
    <2>9. QED
      BY <2>1, <2>2, <2>5, <2>8 DEF GdnInv
  <1>2. CASE LayerStep
    BY <1>2, ModelStepKeeps
  <1>3. CASE \E r \in LayerRequests : Admit(r) \/ Release(r)
    BY <1>3, AdmitKeeps, ReleaseKeeps
  <1>4. QED
    BY <1>1, <1>2, <1>3 DEF LayerNext

(* The inductive invariant of the layer, for every form of it, any requests,  *)
(* cache lines and captured sizes, any thresholds of the kernels, and every   *)
(* cut of the requests into steps, as long as one of the kernels of a decode  *)
(* step works (_forward_core).                                                *)
THEOREM GdnInvariance ==
  ASSUME FallbackMayRaise = FALSE
  PROVE  LayerSpec => []GdnInv
  <1>1. LayerInit => GdnInv
    BY LayerInitHolds
  <1>2. GdnInv /\ [LayerNext]_layerVars => GdnInv'
    BY NextKeeps
  <1>3. QED
    BY <1>1, <1>2, PTL DEF LayerSpec

(* Running requests have cache lines of their own, never the null block, and  *)
(* every line keeps its columns.                                              *)
THEOREM GdnTypes ==
  ASSUME FallbackMayRaise = FALSE
  PROVE  LayerSpec => []TypeOK
  <1>1. GdnInv => TypeOK
    <2> SUFFICES ASSUME GdnInv PROVE TypeOK
      OBVIOUS
    <2>1. \A l \in CacheLines : l # NullBlock
      BY TuningAssumption DEF TuningAssumption, CacheLines, NullBlock
    <2>2. QED
      BY <2>1 DEF GdnInv, TypeOK
  <1>2. QED
    BY <1>1, GdnInvariance, PTL

(* A cache line holds exactly its request's last inputs and the history of    *)
(* all its tokens, whichever kernels ran and whoever had the line before      *)
(* (_forward_core_mate_prefill, _try_mate_decode).                            *)
THEOREM GdnStatesHold ==
  ASSUME FallbackMayRaise = FALSE
  PROVE  LayerSpec => []StatesAreTheRequests
  <1>1. GdnInv => StatesAreTheRequests
    BY DEF GdnInv
  <1>2. QED
    BY <1>1, GdnInvariance, PTL

(* Every output row is made of exactly its token's history, and the rows of   *)
(* the buffer beyond the batch are zero (_allocate_gdn_output).               *)
THEOREM GdnOutputsHold ==
  ASSUME FallbackMayRaise = FALSE
  PROVE  LayerSpec => []OutputsAreTheRequests
  <1>1. GdnInv => OutputsAreTheRequests
    BY DEF GdnInv, OutputsAreTheRequests, TrueOutput
  <1>2. QED
    BY <1>1, GdnInvariance, PTL
=============================================================================
