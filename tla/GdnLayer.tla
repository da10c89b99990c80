----------------------------- MODULE GdnLayer -----------------------------
(* The recurrent state of a gated delta net layer on MUSA                  *)
(* (MusaQwenGatedDeltaNetAttention._forward_core).                         *)
(*                                                                         *)
(* Each running request owns a cache line: a few inputs for the causal     *)
(* convolution and the state of the recurrence.  A step takes some of the  *)
(* requests, with any number of their next tokens, and brings both parts   *)
(* of their lines forward by one of several kernels; which one depends on  *)
(* the shapes, the layer and on what raises.  However a request is cut     *)
(* into steps, its tokens must see exactly the tokens before them.         *)
(*                                                                         *)
(* The recurrence is represented by its history: the windows consumed, in  *)
(* order.  The scheduler, which hands out lines and takes them back, is    *)
(* external; it never clears a line.  The null block is not represented:   *)
(* padding rows share it and nobody reads it for a request.                *)
(*                                                                         *)
(* The fused decode path is off unless VLLM_MUSA_ENABLE_MATE_GDN_DECODE is *)
(* "1", and its TileLang convolution unless                                *)
(* VLLM_MUSA_ENABLE_TILELANG_CAUSAL_CONV is (127-132).  Without the first, *)
(* _try_mate_decode returns before it touches anything (287), and the      *)
(* upstream layer takes the step with its own kernels, which represented   *)
(* like this is a step of a layer without tilelang in which nothing        *)
(* raises.  FallbackMayRaise is about a process with the first.            *)
EXTENDS CausalConv1d

CONSTANTS
  LayerRequests,    \* as opposed to the requests of Sampler
  MaxTokens,        \* bound on the tokens of a request
  MaxAdmissions,    \* bound on the times a line is handed out
  Layers,           \* the layers explored
  CaptureSizes,     \* token counts graphs were captured for
  FallbackMayRaise  \* whether, in the fused decode path, the recurrent kernel may raise too

LayerAssumption ==
  /\ IsFiniteSet(LayerRequests)
  /\ MaxTokens \in Nat \ {0} /\ MaxAdmissions \in Nat
  /\ \A y \in Layers : /\ y.width \in 2 .. 5
                       /\ {y.wide, y.split, y.tilelang} \subseteq BOOLEAN
                       /\ y.split => y.wide
                       \* a chunk after the first reads its columns from x
                       /\ \A b \in {"plain", "mid", "many", "few", "long"} : Tuning[b] >= y.width - 1
  /\ CaptureSizes \subseteq Nat \ {0}
  /\ FallbackMayRaise \in BOOLEAN
ASSUME LayerAssumption

VARIABLES
  layer,       \* fixed at the start
  progress,    \* tokens of each request consumed; -1: not running
  line,        \* the request's cache line
  conv,        \* conv_state, by line
  ssm,         \* ssm_state, by line
  admissions,
  emitted,     \* the rows of core_attn_out each request's tokens got, in order
  beyond       \* what the last step's buffer holds beyond the rows of its batch

layerVars == << layer, progress, line, conv, ssm, admissions, emitted, beyond >>

Running == {r \in LayerRequests : progress[r] >= 0}
CacheLines == 1 .. NumLines - 1

\* A faulty variant: any line is handed out.
FreeLinesAny == CacheLines

FreeLines == CacheLines \ {line[r] : r \in Running}

LayerInit ==
  /\ layer \in Layers
  /\ progress = [r \in LayerRequests |-> -1]
  /\ line = [r \in LayerRequests |-> NullBlock]
  /\ conv = [l \in CacheLines |-> [j \in 1 .. layer.width - 1 |-> Junk]]
  /\ ssm = [l \in CacheLines |-> << Junk >>]
  /\ admissions = 0
  /\ emitted = [r \in LayerRequests |-> <<>>]
  /\ beyond = {}

-----------------------------------------------------------------------------
(* The scheduler.                                                          *)
Admit(r) ==
  /\ progress[r] = -1 /\ admissions < MaxAdmissions
  /\ \E l \in FreeLines :
       /\ line' = [line EXCEPT ![r] = l]
       /\ progress' = [progress EXCEPT ![r] = 0]
  /\ admissions' = admissions + 1
  /\ UNCHANGED << layer, conv, ssm, emitted, beyond >>

\* The request has ended or is preempted, to be computed again from its start.
Release(r) ==
  /\ progress[r] > 0
  /\ progress' = [progress EXCEPT ![r] = -1]
  /\ line' = [line EXCEPT ![r] = NullBlock]
  /\ emitted' = [emitted EXCEPT ![r] = <<>>]
  /\ UNCHANGED << layer, conv, ssm, admissions, beyond >>

-----------------------------------------------------------------------------
(* The metadata of a batch: rows in some order, `counts` tokens each, and  *)
(* `pad` rows of one token that belong to nobody, on the null block.       *)
Tokens(batch, counts) ==
  FlattenSeq([i \in 1 .. Len(batch) |->
    [k \in 1 .. counts[i] |-> << batch[i], progress[batch[i]] + k >>]])

\* has_initial_state
Begun(r) == progress[r] > 0

Call(batch, counts, pad, lensCpu) ==
  [width   |-> layer.width,
   x       |-> Tokens(batch, counts) \o [k \in 1 .. pad |-> Junk],
   starts  |-> [i \in 1 .. Len(batch) + pad + 1 |->
                 SumFunctionOnSet([j \in 1 .. Len(batch) + pad |->
                                    IF j <= Len(batch) THEN counts[j] ELSE 1], 1 .. i - 1)],
   lines   |-> [i \in 1 .. Len(batch) + pad |->
                 IF i <= Len(batch) THEN line[batch[i]] ELSE NullBlock],
   init    |-> [i \in 1 .. Len(batch) + pad |-> i > Len(batch) \/ Begun(batch[i])],
   lensCpu |-> lensCpu,
   padSlot |-> PadSlot]

(* The recurrence of row i over the windows of its tokens, from `from`:    *)
(* the history after each token, which is also what its output is made of. *)
Histories(c, windows, i, from) ==
  [k \in 1 .. SeqLen(c, i) |-> from \o SubSeq(windows, c.starts[i] + 1, c.starts[i] + k)]

\* ssm after the rows' final histories are stored at their lines.
Stored(c, windows, from) ==
  Lines(c, ssm, [i \in Rows(c) |-> from[i] \o SubSeq(windows, c.starts[i] + 1, c.starts[i + 1])])

Recurred(c, windows, from) ==
  FlattenSeq([i \in Rows(c) |-> Histories(c, windows, i, from[i])])

(* _allocate_gdn_output: the rows of a captured size between the next      *)
(* smaller one and itself are zeroed, the others are left as allocated.    *)
Allocated(tokens) ==
  LET above == {s \in CaptureSizes : s >= tokens}
      below(s) == Max({0} \cup {t \in CaptureSizes : t < s})
  IN  IF above = {} THEN [k \in 1 .. tokens |-> Zero]
      ELSE LET size == Min(above)
           IN  [k \in 1 .. size |->
                 IF size - below(size) > 1 /\ k > below(size) THEN Zero ELSE Junk]

(* The end of a step: rows is what it wrote to the front of the buffer.    *)
Advance(batch, counts, rows) ==
  LET place(r) == CHOOSE i \in 1 .. Len(batch) : batch[i] = r
      first(r) == SumFunctionOnSet(counts, 1 .. place(r) - 1)
      buffer == Allocated(Len(rows))
  IN  /\ progress' = [r \in LayerRequests |->
                       IF r \in ToSet(batch) THEN progress[r] + counts[place(r)] ELSE progress[r]]
      /\ emitted' = [r \in LayerRequests |->
                      IF r \in ToSet(batch)
                      THEN emitted[r] \o SubSeq(rows, first(r) + 1, first(r) + counts[place(r)])
                      ELSE emitted[r]]
      /\ beyond' = {buffer[k] : k \in Len(rows) + 1 .. Len(buffer)}
      /\ UNCHANGED << layer, line, admissions >>

-----------------------------------------------------------------------------
(* _forward_core_mate_prefill.  Mate starts from a copy of the lines,      *)
(* zeroed for the rows that begin, and scatters the final states; if it    *)
(* raises, the lines of those rows are zeroed in place and the recurrent   *)
(* kernel runs on them.  The convolution is not repeated.                  *)
MateStart(c, i) == IF c.init[i] THEN ssm[c.lines[i]] ELSE <<>>

\* A faulty variant: the recurrent kernel gets the lines as they are.
RecurrentStartUncleared(c, i) == ssm[c.lines[i]]

RecurrentStart(c, i) == IF c.init[i] THEN ssm[c.lines[i]] ELSE <<>>

Prefill(batch, counts, lensCpu, mateRaises) ==
  LET c == Call(batch, counts, 0, lensCpu)
      done == Fwd(c, conv, layer)
      from == [i \in Rows(c) |->
                IF mateRaises THEN RecurrentStart(c, i) ELSE MateStart(c, i)]
  IN  /\ conv' = done.conv
      /\ ssm' = Stored(c, done.out, from)
      /\ Advance(batch, counts, Recurred(c, done.out, from))

(* musa_tilelang_causal_conv1d_update, or the upstream kernel for what it  *)
(* declines: every line is taken to hold its request's inputs, and the     *)
(* null block is left alone.                                               *)
Update(c, old) ==
  LET d == [c EXCEPT !.init = [i \in Rows(c) |-> TRUE], !.padSlot = NullBlock]
  IN  IF c.width = 4 /\ layer.tilelang THEN Decode(d, old)
      ELSE [conv |-> Shifted(d, old),
            out  |-> [i \in Rows(d) |->
                       IF Usable(d, i) THEN Window(d, i, 0, 0, old[d.lines[i]])
                       ELSE << d.x[i] >>]]

(* _try_mate_decode.  Mate, in place or on gathered lines, and after it    *)
(* the recurrent kernel take the convolved rows.  If both raise, the       *)
(* upstream layer starts again from the rows it was given; the upstream    *)
(* update kernel has overwritten them with its output.                     *)
DecodeStep(batch, pad, allRaise) ==
  LET ones == [i \in 1 .. Len(batch) |-> 1]
      c == Call(batch, ones, pad, ones)
      once == Update(c, conv)
      rows == IF c.width = 4 /\ layer.tilelang THEN c.x ELSE once.out
      done == IF allRaise THEN Update([c EXCEPT !.x = rows], once.conv) ELSE once
      from == [i \in Rows(c) |->
                IF c.lines[i] = NullBlock THEN << Junk >> ELSE ssm[c.lines[i]]]
  IN  /\ conv' = done.conv
      /\ ssm' = Stored(c, done.out, from)
      /\ Advance(batch, ones, Recurred(c, done.out, from))

-----------------------------------------------------------------------------
(* A step of the model runner.  The batch is a prefill if any of its rows  *)
(* has several tokens or begins; only a decode is padded to a captured     *)
(* size.  The host's lengths may describe a padded batch instead.          *)
Counts(batch) == {f \in [1 .. Len(batch) -> 1 .. MaxTokens] :
                    \A i \in 1 .. Len(batch) : progress[batch[i]] + f[i] <= MaxTokens}

LayerStep ==
  \E batch \in UNION {SetToSeqs(S) : S \in (SUBSET Running) \ {{}}} :
    \/ \E counts \in Counts(batch), mateRaises \in BOOLEAN, padding \in {<<>>, << 1 >>} :
         /\ \E i \in 1 .. Len(batch) : counts[i] > 1 \/ progress[batch[i]] = 0
         /\ Prefill(batch, counts, counts \o padding, mateRaises)
    \/ \E pad \in 0 .. 1, allRaise \in {FALSE, FallbackMayRaise} :
         /\ \A i \in 1 .. Len(batch) : progress[batch[i]] \in 1 .. MaxTokens - 1
         /\ DecodeStep(batch, pad, allRaise)

LayerNext == LayerStep \/ \E r \in LayerRequests : Admit(r) \/ Release(r)

LayerSpec == LayerInit /\ [][LayerNext]_layerVars

-----------------------------------------------------------------------------
(* Properties.                                                             *)

TypeOK ==
  /\ layer \in Layers
  /\ progress \in [LayerRequests -> -1 .. MaxTokens]
  /\ line \in [LayerRequests -> 0 .. NumLines - 1]
  /\ \A r, q \in Running : line[r] # NullBlock /\ (r # q => line[r] # line[q])
  /\ \A l \in CacheLines : DOMAIN conv[l] = 1 .. layer.width - 1

\* What the window of the n-th token of r is, by definition.
TokenOf(r, n) == IF n > 0 THEN << r, n >> ELSE Zero
TrueWindow(r, n) == [j \in 1 .. layer.width |-> TokenOf(r, n - layer.width + j)]
TrueHistory(r, n) == [k \in 1 .. n |-> TrueWindow(r, k)]

(* The line's inputs are the last ones of the request's tokens.  Checked   *)
(* on its own with FallbackMayRaise: the general decode path takes over    *)
(* where the fused update, enabled by its environment variable, failed     *)
(* (qwen_gdn_linear_attn.py 463-468).                                      *)
GeneralPathTakesOver ==
  \A r \in Running : progress[r] > 0 => conv[line[r]] = Tail(TrueWindow(r, progress[r]))

(* However its tokens were cut into steps and whichever kernels ran, the   *)
(* line of a request that has begun holds its last inputs and the history  *)
(* of all its tokens, and nothing of the line's earlier owner              *)
(* (the states of _forward_core).                                          *)
StatesAreTheRequests ==
  /\ GeneralPathTakesOver
  /\ \A r \in Running : progress[r] > 0 => ssm[line[r]] = TrueHistory(r, progress[r])

(* Every output row of a running request is made of exactly its token's    *)
(* history, and a buffer of captured size holds zeros beyond the rows of   *)
(* the batch, never memory nobody wrote (_allocate_gdn_output).            *)
OutputsAreTheRequests ==
  /\ \A r \in Running : emitted[r] = [k \in 1 .. progress[r] |-> TrueHistory(r, k)]
  /\ beyond \subseteq {Zero}
=============================================================================
