--------------------------- MODULE CausalConv1d ---------------------------
(* The causal convolution in front of the gated delta rule, as computed by *)
(* the kernels of jit_kernel/tilelang/causal_conv1d.py.                    *)
(*                                                                         *)
(* A call packs the new tokens of several sequences into one x and names,  *)
(* for each, the cache line that holds the last width - 1 inputs of the    *)
(* tokens before them and whether that line holds anything.  The output of *)
(* a token is the weighted sum of its own input and of the width - 1       *)
(* inputs before it.  Weights, bias and activation are the same on every   *)
(* path, so an output is represented by its window: the inputs that were   *)
(* added, oldest first.  Five kernels compute it; which one runs depends   *)
(* on the shapes.                                                          *)
EXTENDS Integers, Sequences, FiniteSets, SequencesExt

CONSTANTS
  Zero,       \* the input before the first token
  Junk,       \* memory nobody has written
  NumLines,   \* cache lines 0 .. NumLines - 1
  Tuning      \* the thresholds and block sizes of _causal_conv1d_fwd_impl

TuningAssumption ==
  /\ NumLines \in Nat \ {0}
  /\ \A b \in {"plain", "mid", "many", "few", "long"} : Tuning[b] \in Nat \ {0}
  /\ Tuning.midFrom <= Tuning.midEnd /\ Tuning.midEnd < Tuning.longFrom
  /\ Tuning.batched \in Nat /\ Tuning.manyFrom \in Nat
ASSUME TuningAssumption

PadSlot == -1
NullBlock == 0

(* A call: width, x, the start of every row in x (0-based, with the end of *)
(* the last), each row's cache line and whether it continues one, the row  *)
(* lengths the host believes, and the line number that marks a padding row.*)
Rows(c) == 1 .. Len(c.lines)
SeqLen(c, i) == c.starts[i + 1] - c.starts[i]
Input(c, i, p) == c.x[c.starts[i] + p + 1]
StateLen(c) == c.width - 1

Usable(c, i) == c.lines[i] # c.padSlot /\ c.lines[i] < NumLines

(* The columns a thread starts from: those of the cache line for the first *)
(* chunk of a row, the inputs just before the chunk for a later one.       *)
Columns(c, i, offset, state) ==
  IF offset = 0
  THEN [j \in 1 .. StateLen(c) |-> IF c.init[i] THEN state[j] ELSE Zero]
  ELSE [j \in 1 .. StateLen(c) |-> Input(c, i, offset - c.width + j)]

\* The window of token p after the columns have moved along from offset.
Window(c, i, offset, p, state) ==
  LET seen == Columns(c, i, offset, state)
                \o [k \in 1 .. p - offset + 1 |-> Input(c, i, offset + k - 1)]
  IN  SubSeq(seen, Len(seen) - c.width + 1, Len(seen))

(* The line after the call: the last inputs, or the old ones moved up.     *)
StateAfter(c, i, state) ==
  LET n   == SeqLen(c, i)
      cut == StateLen(c) - n
  IN  [j \in 1 .. StateLen(c) |->
        IF n >= StateLen(c) THEN Input(c, i, n - StateLen(c) + j - 1)
        ELSE IF j > cut THEN Input(c, i, j - 1 - cut)
        ELSE IF c.init[i] THEN state[j + n] ELSE Zero]

(* The same for width 4, written out by the first kernel of the split.     *)
HeadStateAfter(c, i, state) ==
  LET n == SeqLen(c, i) IN
  CASE n >= 3 -> << Input(c, i, n - 3), Input(c, i, n - 2), Input(c, i, n - 1) >>
    [] n = 1 /\ c.init[i]  -> << state[2], state[3], Input(c, i, 0) >>
    [] n = 1 /\ ~c.init[i] -> << Zero, Zero, Input(c, i, 0) >>
    [] OTHER -> << IF c.init[i] THEN state[3] ELSE Zero, Input(c, i, 0), Input(c, i, 1) >>

\* The lines once every row in the domain of after has left its own behind.
Lines(c, lines, after) ==
  [l \in DOMAIN lines |->
    IF \E i \in DOMAIN after : c.lines[i] = l
    THEN after[CHOOSE i \in DOMAIN after : c.lines[i] = l] ELSE lines[l]]

RowOf(c, t) == CHOOSE i \in Rows(c) : c.starts[i] < t /\ t <= c.starts[i + 1]

(* The outputs of a launch over the chunks given: token t of x is written  *)
(* by the chunk it lies in, if that chunk is launched and its row usable.  *)
Outputs(c, conv, chunks, block) ==
  [t \in 1 .. Len(c.x) |->
    LET i     == RowOf(c, t)
        p     == t - 1 - c.starts[i]
        chunk == p \div block
    IN  IF chunk \in chunks /\ Usable(c, i)
        THEN Window(c, i, chunk * block, p, conv[c.lines[i]])
        ELSE Junk]

Chunks(tokens, block) == 0 .. ((tokens + block - 1) \div block) - 1

Started(c) == {i \in Rows(c) : SeqLen(c, i) > 0 /\ Usable(c, i)}

Shifted(c, conv) == Lines(c, conv, [i \in Started(c) |-> StateAfter(c, i, conv[c.lines[i]])])

(* musa_causal_conv1d_fwd, any width.                                      *)
General(c, conv, maxLen, block) ==
  [conv |-> IF maxLen > 0 THEN Shifted(c, conv) ELSE conv,
   out  |-> Outputs(c, conv, Chunks(maxLen, block), block)]

(* musa_causal_conv1d_fwd_width4: width 4, one row; the columns and the    *)
(* line are handled as above, for several channels per thread.             *)
Vec(c, conv, block) == General(c, conv, 1, block)

(* musa_causal_conv1d_prefill_width4 is launched for the first chunk of    *)
(* every row and alone touches the lines; the body kernel has the rest.    *)
Split(c, conv, maxLen, block) ==
  LET body == IF maxLen > block
              THEN {k + 1 : k \in Chunks(maxLen - block, block)} ELSE {}
  IN  [conv |-> Lines(c, conv, [i \in Started(c) |-> HeadStateAfter(c, i, conv[c.lines[i]])]),
       out  |-> Outputs(c, conv, Chunks(block, block) \cup body, block)]

(* musa_causal_conv1d_decode_width4_batched: row i is token i.  A row it   *)
(* may not touch gets its input as output.                                 *)
Decode(c, conv) ==
  LET Cols(i) == [j \in 1 .. 3 |-> IF c.init[i] THEN conv[c.lines[i]][j] ELSE Zero]
      usable == {i \in Rows(c) : Usable(c, i)}
  IN  [conv |-> Lines(c, conv, [i \in usable |-> << Cols(i)[2], Cols(i)[3], c.x[i] >>]),
       out  |-> [i \in Rows(c) |->
                  IF Usable(c, i) THEN Cols(i) \o << c.x[i] >> ELSE << c.x[i] >>]]

-----------------------------------------------------------------------------
\* A faulty variant: the first row's length stands for all.
MaxSeqLenOfFirst(c) ==
  IF SumFunction(c.lensCpu) # Len(c.x) THEN Len(c.x) ELSE Head(c.lensCpu)

(* _check_inputs: the host's lengths bound the launch, unless they do not  *)
(* add up to the tokens there are.                                         *)
MaxSeqLen(c) ==
  IF SumFunction(c.lensCpu) # Len(c.x) THEN Len(c.x) ELSE Max(ToSet(c.lensCpu))

\* query_start_loc.numel()
Numel(c) == Len(c.starts)

BlockM(c) ==
  LET max == MaxSeqLen(c) IN
  IF c.width # 4 \/ max < Tuning.midFrom THEN Tuning.plain
  ELSE IF max <= Tuning.midEnd THEN Tuning.mid
  ELSE IF max >= Tuning.longFrom THEN Tuning.long
  ELSE IF Numel(c) > Tuning.manyFrom THEN Tuning.many ELSE Tuning.few

(* _should_use_width4_prefill_split, for a layer that prefers it.          *)
UseSplit(c, layer) ==
  c.width = 4 /\ layer.split /\ MaxSeqLen(c) >= Tuning.longFrom /\ Len(c.lines) > 1

(* _causal_conv1d_fwd_impl chooses the kernel.                             *)
Fwd(c, conv, layer) ==
  LET oneEach == c.width = 4 /\ layer.wide /\ MaxSeqLen(c) = 1 IN
  IF oneEach /\ Numel(c) > Tuning.batched THEN Decode(c, conv)
  ELSE IF UseSplit(c, layer) THEN Split(c, conv, MaxSeqLen(c), BlockM(c))
  ELSE IF oneEach /\ Numel(c) = 2 THEN Vec(c, conv, BlockM(c))
  ELSE General(c, conv, MaxSeqLen(c), BlockM(c))
=============================================================================
