---------------------------- MODULE MoePreprocess ----------------------------
(***************************************************************************)
(* The grouped DeepGEMM path of a mixture-of-experts layer: the kernels    *)
(* that bring each token's row next to the rows of the same expert         *)
(* (deep_gemm_contig_preprocess.py), the grouped GEMM, and the kernel that *)
(* brings the results back (post_reorder.py).                              *)
(*                                                                         *)
(* A slot is one expert choice of one token.  Kernels run one after        *)
(* another on the stream; the threads of a kernel run in any order, up to  *)
(* its barriers (sync_threads), and meet in shared memory and in atomics.  *)
(* A row's data is the token it was copied from.  Buffers are allocated    *)
(* without being cleared.                                                  *)
(***************************************************************************)
EXTENDS Integers, FiniteSets, FiniteSetsExt

CONSTANTS
  MaxTokens,            \* bound: tokens of a call
  TopK,                 \* experts chosen per token
  NumExperts,           \* local experts
  BlockM,               \* rows per block of the grouped GEMM
  SlotsPerBlock         \* slots one thread block counts

ASSUME MoeAssumption ==
  /\ {MaxTokens, TopK, NumExperts, SlotsPerBlock} \subseteq Nat \ {0}
  /\ BlockM \in Nat \ {0, 1}

VARIABLES
  topkIds,              \* the router's choice of each slot
  manyTokens,           \* 512 or more: with the few of the model, a choice
  kernel,               \* the kernel running
  todo,                 \* the slots its threads have not come to
  ended,                \* its thread blocks that have ended
  local,                \* counts in a thread block's shared memory
  counts,               \* slots per expert
  at,                   \* steps each thread of the scan has finished
  prefix,               \* the scan's shared array
  addend,               \* what a thread has read in this round
  cursor,               \* the next row of each expert
  mIndices,             \* the expert each row is for
  src2dst,              \* the row of each slot
  rows,                 \* the token each row was copied from
  output                \* what each token's result is made of

counting == <<local, counts>>
scanning == <<at, prefix, addend>>
placing == <<mIndices, src2dst, rows>>
call == <<topkIds, manyTokens>>
vars == <<call, kernel, todo, ended, counting, scanning, cursor, placing, output>>

Junk == 99              \* what memory holds that nobody has written
None == -1

Experts == 0 .. NumExperts - 1
Slots == DOMAIN topkIds
Tokens == {s \div TopK : s \in Slots}
SlotsOf(token) == {s \in Slots : s \div TopK = token}
IsLocal(s) == topkIds[s] \in Experts

Aligned(n) == ((n + BlockM - 1) \div BlockM) * BlockM

\* Faulty variant: no room for the blocks that are not full.
AllTokensUnpadded(slots) == Aligned(slots)

\* Rows of the permuted buffers: room for every expert's last block.
AllTokens(slots) == Aligned(slots + NumExperts * (BlockM - 1))

Rows == 0 .. AllTokens(Cardinality(Slots)) - 1

CountBlocks == {s \div SlotsPerBlock : s \in Slots}
OneCountBlock == Cardinality(Slots) <= SlotsPerBlock

\* 1 << n
TwoTo[n \in Nat] == IF n = 0 THEN 1 ELSE 2 * TwoTo[n - 1]

Rounds == CHOOSE k \in 0 .. NumExperts :
            TwoTo[k] >= NumExperts /\ \A j \in 0 .. k - 1 : TwoTo[j] < NumExperts
Threads == 0 .. TwoTo[Rounds] - 1

\* The router chooses each expert at most once for a token; -1 is any expert that is
\* not on this rank.
RouterChoices(tokens) ==
  {ids \in [0 .. tokens * TopK - 1 -> Experts \cup {None}] :
     \A s, u \in DOMAIN ids :
       s # u /\ s \div TopK = u \div TopK /\ ids[s] = ids[u] => ids[s] = None}

Init ==
  /\ \E tokens \in 1 .. MaxTokens :
       topkIds \in RouterChoices(tokens)
  /\ manyTokens \in BOOLEAN
  /\ kernel = "start"
  /\ todo = {}
  /\ ended = {}
  /\ local = [b \in CountBlocks |-> [e \in Experts |-> 0]]
  /\ counts = [e \in Experts |-> Junk]
  /\ at = [t \in Threads |-> 0]
  /\ prefix = [t \in Threads |-> Junk]
  /\ addend = [t \in Threads |-> 0]
  /\ cursor = [e \in Experts |-> Junk]
  /\ mIndices = [r \in Rows |-> Junk]
  /\ src2dst = [s \in Slots |-> Junk]
  /\ rows = [r \in Rows |-> Junk]
  /\ output = [t \in Tokens |-> <<>>]

----------------------------------------------------------------------------
(* Counting the slots of each expert.                                      *)

\* More slots than one block counts: the counts are cleared first.
Clear ==
  /\ kernel = "start"
  /\ ~OneCountBlock
  /\ kernel' = "count"
  /\ counts' = [e \in Experts |-> 0]
  /\ todo' = Slots
  /\ UNCHANGED <<call, ended, local, scanning, cursor, placing, output>>

\* A thread adds its slot to the counts of its block, atomically.
CountSlot(s) ==
  /\ kernel \in {"count", "count_prefix"}
  /\ s \in todo
  /\ todo' = todo \ {s}
  /\ local' = IF IsLocal(s)
              THEN [local EXCEPT ![s \div SlotsPerBlock][topkIds[s]] = @ + 1] ELSE local
  /\ UNCHANGED <<call, kernel, ended, counts, scanning, cursor, placing, output>>

\* Past the barrier, a block's threads add its counts to the global ones.
FlushCounts(b) ==
  /\ kernel = "count"
  /\ b \notin ended
  /\ \A s \in todo : s \div SlotsPerBlock # b
  /\ counts' = [e \in Experts |-> counts[e] + local[b][e]]
  /\ ended' = ended \cup {b}
  /\ UNCHANGED <<call, kernel, todo, local, scanning, cursor, placing, output>>

\* Every row starts as the last expert's.
Fill ==
  /\ IF OneCountBlock THEN kernel = "start" ELSE kernel = "count" /\ ended = CountBlocks
  /\ kernel' = IF OneCountBlock THEN "count_prefix" ELSE "prefix"
  /\ todo' = IF OneCountBlock THEN Slots ELSE {}
  /\ ended' = {}
  /\ mIndices' = [r \in Rows |-> NumExperts - 1]
  /\ UNCHANGED <<call, counting, scanning, cursor, src2dst, rows, output>>

----------------------------------------------------------------------------
(* The prefix sum over the experts' aligned counts, one thread per expert: *)
(* each thread sets its element, then per round reads the element one step *)
(* to the left and adds it, and at last publishes its expert's first row.  *)
(* A barrier stands between any two of these.                              *)

CountOf(e) == IF kernel = "count_prefix" THEN local[0][e] ELSE counts[e]

LastStep == 2 * Rounds + 2
StepOf(round) == TwoTo[round - 1]

\* Faulty variant: no barrier between the reads of a round and its additions.
PastReadsOnly(t) == \A u \in Threads : at[u] >= at[t] - (at[t] % 2)

\* Every thread has come to the barrier this one waits at.
PastBarrier(t) == \A u \in Threads : at[u] >= at[t]

InScan(t, step) ==
  /\ kernel \in {"prefix", "count_prefix"}
  /\ todo = {}
  /\ at[t] = step - 1
  /\ PastBarrier(t)
  /\ at' = [at EXCEPT ![t] = step]
  /\ UNCHANGED <<call, kernel, todo, ended, local, src2dst, rows, output>>

SetElement(t) ==
  /\ InScan(t, 1)
  /\ prefix' = [prefix EXCEPT ![t] = IF t \in Experts THEN Aligned(CountOf(t)) ELSE 0]
  /\ counts' = IF t \in Experts THEN [counts EXCEPT ![t] = CountOf(t)] ELSE counts
  /\ UNCHANGED <<addend, cursor, mIndices>>

ReadLeft(t, round) ==
  /\ InScan(t, 2 * round)
  /\ addend' = [addend EXCEPT ![t] =
                  IF t >= StepOf(round) THEN prefix[t - StepOf(round)] ELSE 0]
  /\ UNCHANGED <<counts, prefix, cursor, mIndices>>

AddLeft(t, round) ==
  /\ InScan(t, 2 * round + 1)
  /\ prefix' = [prefix EXCEPT ![t] = @ + addend[t]]
  /\ UNCHANGED <<counts, addend, cursor, mIndices>>

\* Many tokens: the library's scan takes the place of the rounds.
LibraryScan ==
  /\ kernel = "prefix"
  /\ manyTokens
  /\ \A t \in Threads : at[t] = 1
  /\ at' = [t \in Threads |-> LastStep - 1]
  /\ prefix' = [t \in Threads |-> MapThenSumSet(LAMBDA u : prefix[u], 0 .. t)]
  /\ UNCHANGED <<call, kernel, todo, ended, counting, addend, cursor, placing, output>>

\* Faulty variant: the rows after the expert's own keep the fill's label.
NoPadding(e, start) == mIndices

\* The rows that complete an expert's last block are labelled as its own.
Padded(e, start) ==
  [r \in Rows |-> IF r \in start + CountOf(e) .. start + Aligned(CountOf(e)) - 1
                  THEN e ELSE mIndices[r]]

Publish(t) ==
  /\ InScan(t, LastStep)
  /\ IF t \in Experts
     THEN LET start == prefix[t] - Aligned(CountOf(t))
          IN  /\ cursor' = [cursor EXCEPT ![t] = start]
              /\ mIndices' = Padded(t, start)
     ELSE UNCHANGED <<cursor, mIndices>>
  /\ UNCHANGED <<counts, prefix, addend>>

\* The tree is one kernel, the choice of the scan is made before it starts.
ScanRound(t) ==
  /\ kernel = "prefix" => ~manyTokens
  /\ \E round \in 1 .. Rounds : ReadLeft(t, round) \/ AddLeft(t, round)

----------------------------------------------------------------------------
(* Placing the rows: one thread block per token, one thread per slot.      *)

StartCompact ==
  /\ kernel \in {"prefix", "count_prefix"}
  /\ \A t \in Threads : at[t] = LastStep
  /\ kernel' = "compact"
  /\ todo' = Slots
  /\ UNCHANGED <<call, ended, counting, scanning, cursor, placing, output>>

\* The slot takes its expert's next row, with an atomic add; a slot of another
\* rank's expert, or one past the end of the buffer, gets none.
Assign(s) ==
  /\ kernel = "compact"
  /\ s \in todo
  /\ todo' = todo \ {s}
  /\ LET e == topkIds[s]
         dst == cursor[e]
     IN  IF IsLocal(s)
         THEN /\ cursor' = [cursor EXCEPT ![e] = @ + 1]
              /\ src2dst' = [src2dst EXCEPT ![s] = IF dst \in Rows THEN dst ELSE None]
              /\ mIndices' = IF dst \in Rows THEN [mIndices EXCEPT ![dst] = e] ELSE mIndices
         ELSE /\ src2dst' = [src2dst EXCEPT ![s] = None]
              /\ UNCHANGED <<cursor, mIndices>>
  /\ UNCHANGED <<call, kernel, ended, counting, scanning, rows, output>>

\* Faulty variant: the rows are copied before every slot of the token has its row.
SomeAssigned(token) == \E s \in SlotsOf(token) : s \notin todo

AllAssigned(token) == \A s \in SlotsOf(token) : s \notin todo

\* Past the barrier, the block copies its token to the rows of the token's slots.
CopyToken(token) ==
  /\ kernel = "compact"
  /\ token \in Tokens \ ended
  /\ AllAssigned(token)
  /\ ended' = ended \cup {token}
  /\ rows' = [r \in Rows |->
                IF \E s \in SlotsOf(token) : src2dst[s] = r THEN token ELSE rows[r]]
  /\ UNCHANGED <<call, kernel, todo, counting, scanning, cursor, mIndices, src2dst, output>>

----------------------------------------------------------------------------
(* The grouped GEMM takes the expert of a block from its first row.        *)

GemmExpert(r) == mIndices[(r \div BlockM) * BlockM]

Gemm ==
  /\ kernel = "compact"
  /\ todo = {}
  /\ ended = Tokens
  /\ kernel' = "combine"
  /\ ended' = {}
  /\ UNCHANGED <<call, todo, counting, scanning, cursor, placing, output>>

\* A token's result adds up the rows of its slots that have one.
Combine(token) ==
  /\ kernel = "combine"
  /\ token \in Tokens \ ended
  /\ ended' = ended \cup {token}
  /\ output' = [output EXCEPT ![token] =
                  [s \in {u \in SlotsOf(token) : src2dst[u] # None} |->
                     <<rows[src2dst[s]], GemmExpert(src2dst[s])>>]]
  /\ UNCHANGED <<call, kernel, todo, counting, scanning, cursor, placing>>

Finished == kernel = "combine" /\ ended = Tokens

Next ==
  \/ Clear \/ Fill \/ LibraryScan \/ StartCompact \/ Gemm
  \/ \E s \in Slots : CountSlot(s) \/ Assign(s)
  \/ \E b \in CountBlocks : FlushCounts(b)
  \/ \E t \in Threads : SetElement(t) \/ ScanRound(t) \/ Publish(t)
  \/ \E token \in Tokens : CopyToken(token) \/ Combine(token)
  \/ Finished /\ UNCHANGED vars

Spec == Init /\ [][Next]_vars

----------------------------------------------------------------------------
\* Rows, labels and counts stay in range: no expert's cursor or block leaves the
\* buffers that were sized before any of the counts was known.
TypeOK ==
  /\ kernel \in {"start", "count", "count_prefix", "prefix", "compact", "combine"}
  /\ todo \subseteq Slots
  /\ ended \subseteq Tokens \cup CountBlocks
  /\ \A e \in Experts :
       /\ counts[e] \in 0 .. Cardinality(Slots) \cup {Junk}
       /\ cursor[e] \in Rows \cup {Cardinality(Rows), Junk}
  /\ \A t \in Threads : at[t] \in 0 .. LastStep
  /\ \A r \in Rows :
       mIndices[r] \in Experts \cup {Junk} /\ rows[r] \in Tokens \cup {Junk}
  /\ \A s \in Slots : src2dst[s] \in Rows \cup {None, Junk}

\* In whatever order the threads take their rows, no two slots get the same one, and
\* every slot of a local expert gets one.
RowsApart ==
  kernel \in {"compact", "combine"} =>
    \A s \in Slots \ todo :
      /\ IsLocal(s) => src2dst[s] \in Rows
      /\ \A u \in Slots \ (todo \cup {s}) :
           src2dst[u] \in Rows => src2dst[u] # src2dst[s]

\* What the grouped GEMM requires: every block of rows, the padded and the unused ones
\* included, is labelled with one expert throughout.
BlocksUniform ==
  kernel = "combine" => \A r \in Rows : mIndices[r] = GemmExpert(r)

\* The layer computes what it should: each token's result is made of its own row through
\* each local expert the router chose for it, and of nothing else.
TokensReachTheirExperts ==
  Finished =>
    \A token \in Tokens :
      output[token] =
        [s \in {u \in SlotsOf(token) : IsLocal(u)} |-> <<token, topkIds[s]>>]
=============================================================================
