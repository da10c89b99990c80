--------------------------- MODULE CarCollective ---------------------------
(***************************************************************************)
(* The data movement of the custom all-reduce kernels: every rank copies   *)
(* its input into its own staging buffer and launches the same sequence of *)
(* kernels on its stream; the blocks read the peers' staging buffers and   *)
(* the reduced chunks in the peers' signal allocations over IPC, and only  *)
(* the barriers keep a rank from reading too early or overwriting memory a *)
(* peer still reads.                                                       *)
(*                                                                         *)
(* A contribution is a pair <<rank, operation>>: a buffer holds            *)
(* contributions instead of numbers, so a sum is the set of what was added *)
(* and a stale or torn input is visible in the result.                     *)
(***************************************************************************)
EXTENDS Integers

CONSTANTS
  Ranks,                \* the ranks of the communicator
  MaxGrid,              \* bound: blocks of the largest kernel (36 in the code)
  MaxOps                \* bound: collectives in a run

ASSUME CollectiveAssumption ==
  /\ MaxGrid \in Nat \ {0}
  /\ MaxOps \in Nat \ {0}

Blocks == 0 .. MaxGrid - 1

\* Offsets stand for the elements of a chunk; block b of a grid handles the
\* offsets congruent to b, as in the strided loops of the kernels.
Offsets == 0 .. MaxGrid - 1
Handled(b, grid) == {x \in Offsets : x % grid = b}

\* "one": 1-stage all-reduce and fused RMSNorm; "two": 2-stage, 2-shot and
\* fused 2-shot; "gather": the three all-gather kernels.
Kinds == {"one", "two", "gather"}
Operations == [kind : Kinds, grid : 1 .. MaxGrid]

Contributions == Ranks \X (0 .. MaxOps)

VARIABLES
  program,              \* the collectives all ranks issue, in this order
  op,                   \* op[r]: the collective at the head of rank r's stream
  phase,                \* phase[r]: what of it runs: "copy", "start", "body", "end", "done"
  step,                 \* step[r][b]: where block b of the running kernel is
  arrived, left,        \* the barrier of each block row, see RankBarrier
  staging,              \* staging[r]: the operation whose input is staged on r
  scratch,              \* scratch[r][x]: the reduced chunk of rank r behind its Signal
  unread,               \* unread[r][b]: peers block b of rank r has still to read
  acc,                  \* acc[r][b]: what block b has added up so far
  out                   \* out[r][q][x]: chunk q of the output of rank r

vars == <<program, op, phase, step, arrived, left, staging, scratch, unread, acc, out>>
barrierVars == <<arrived, left>>
dataVars == <<staging, scratch, unread, acc, out>>

Row(b) == INSTANCE RankBarrier WITH arrived <- arrived[b], left <- left[b]

Current(r) == program[op[r]]
Grid(r) == Current(r).grid
Running(r) == op[r] <= MaxOps

NoOutput == [q \in Ranks |-> [x \in Offsets |-> {}]]

Init ==
  /\ program \in [1 .. MaxOps -> Operations]
  /\ op = [r \in Ranks |-> 1]
  /\ phase = [r \in Ranks |-> "copy"]
  /\ step = [r \in Ranks |-> [b \in Blocks |-> "idle"]]
  /\ arrived = [b \in Blocks |-> [r \in Ranks |-> 0]]
  /\ left = [b \in Blocks |-> [r \in Ranks |-> 0]]
  /\ staging = [r \in Ranks |-> 0]
  /\ scratch = [r \in Ranks |-> [x \in Offsets |-> {}]]
  /\ unread = [r \in Ranks |-> [b \in Blocks |-> {}]]
  /\ acc = [r \in Ranks |-> [b \in Blocks |-> {}]]
  /\ out = [r \in Ranks |-> NoOutput]

----------------------------------------------------------------------------
\* Start blocks 0 .. n - 1 of a kernel of rank r at the given step.
Launch(r, n, first) ==
  step' = [step EXCEPT ![r] = [b \in Blocks |-> IF b < n THEN first ELSE "idle"]]

KernelOver(r) == \A b \in Blocks : step[r][b] = "idle"

\* The peers a block reads in the body: the all-gather takes this rank's shard
\* from its own input, not from the staging buffer.
Sources(r) == IF Current(r).kind = "gather" THEN Ranks \ {r} ELSE Ranks

\* musaMemcpyAsync of the input into this rank's staging buffer, followed on
\* the same stream by the kernel (for the all-gather, by its start barrier,
\* which is one block).
Copy(r) ==
  /\ Running(r) /\ phase[r] = "copy"
  /\ staging' = [staging EXCEPT ![r] = op[r]]
  /\ IF Current(r).kind = "gather"
     THEN /\ phase' = [phase EXCEPT ![r] = "start"]
          /\ Launch(r, 1, "arrive")
     ELSE /\ phase' = [phase EXCEPT ![r] = "body"]
          /\ Launch(r, Grid(r), "arrive")
  /\ UNCHANGED <<program, op, arrived, left, scratch, unread, acc, out>>

\* Faulty variant, used only to show that the properties can fail: the flag of
\* the second barrier is never stored.
ArriveStartOnly(r, b) ==
  /\ step[r][b] \in {"arrive", "arriveEnd"}
  /\ Row(b)!MayArrive(r)
  /\ arrived' = IF step[r][b] = "arrive" THEN [arrived EXCEPT ![b][r] = @ + 1] ELSE arrived
  /\ step' = [step EXCEPT ![r][b] = IF @ = "arrive" THEN "wait" ELSE "waitEnd"]
  /\ UNCHANGED <<program, op, phase, left, dataVars>>

\* A block reaches a barrier of its row: the start barrier, or the one after
\* its reads.
ArriveBarrier(r, b) ==
  /\ step[r][b] \in {"arrive", "arriveEnd"}
  /\ Row(b)!MayArrive(r)
  /\ arrived' = [arrived EXCEPT ![b][r] = @ + 1]
  /\ step' = [step EXCEPT ![r][b] = IF @ = "arrive" THEN "wait" ELSE "waitEnd"]
  /\ UNCHANGED <<program, op, phase, left, dataVars>>

\* Faulty variant: the block does not wait for its peers before it reads.
PassStartAlone(r, b) ==
  /\ step[r][b] = "wait"
  /\ left' = [left EXCEPT ![b][r] = @ + 1]
  /\ IF phase[r] = "start"
     THEN /\ step' = [step EXCEPT ![r][b] = "idle"]
          /\ UNCHANGED <<unread, acc>>
     ELSE /\ step' = [step EXCEPT ![r][b] = "read"]
          /\ unread' = [unread EXCEPT ![r][b] = Sources(r)]
          /\ acc' = [acc EXCEPT ![r][b] = {}]
  /\ UNCHANGED <<program, op, phase, arrived, staging, scratch, out>>

\* The start barrier lets the block read its peers' staging buffers; for the
\* all-gather it is a kernel of its own.
PassStart(r, b) ==
  /\ step[r][b] = "wait"
  /\ Row(b)!MayLeave(r)
  /\ left' = [left EXCEPT ![b][r] = @ + 1]
  /\ IF phase[r] = "start"
     THEN /\ step' = [step EXCEPT ![r][b] = "idle"]
          /\ UNCHANGED <<unread, acc>>
     ELSE /\ step' = [step EXCEPT ![r][b] = "read"]
          /\ unread' = [unread EXCEPT ![r][b] = Sources(r)]
          /\ acc' = [acc EXCEPT ![r][b] = {}]
  /\ UNCHANGED <<program, op, phase, arrived, staging, scratch, out>>

\* The block reads its elements of one peer's input.
ReadInput(r, b, p) ==
  /\ step[r][b] = "read"
  /\ p \in unread[r][b]
  /\ unread' = [unread EXCEPT ![r][b] = @ \ {p}]
  /\ IF Current(r).kind = "gather"
     THEN /\ out' = [out EXCEPT ![r][p] = [x \in Offsets |->
                       IF x \in Handled(b, Grid(r)) THEN {<<p, staging[p]>>} ELSE @[x]]]
          /\ UNCHANGED acc
     ELSE /\ acc' = [acc EXCEPT ![r][b] = @ \cup {<<p, staging[p]>>}]
          /\ UNCHANGED out
  /\ UNCHANGED <<program, op, phase, step, barrierVars, staging, scratch>>

\* Faulty variant: the 1-stage kernel ends without its second barrier.
FinishReduceNoEnd(r, b) ==
  LET mine == Handled(b, Grid(r)) IN
  /\ step[r][b] = "read"
  /\ unread[r][b] = {}
  /\ Current(r).kind = "one"
  /\ out' = [out EXCEPT ![r] = [q \in Ranks |-> [x \in Offsets |->
               IF x \in mine THEN acc[r][b] ELSE @[q][x]]]]
  /\ step' = [step EXCEPT ![r][b] = "idle"]
  /\ UNCHANGED <<program, op, phase, barrierVars, staging, scratch, unread, acc>>

\* All inputs read.  1-stage: the sum is the output of every chunk.  2-stage:
\* the sum of this rank's chunk goes to the scratch area behind its Signal.
\* All-gather: the block writes its own shard and ends.
FinishReduce(r, b) ==
  LET mine == Handled(b, Grid(r)) IN
  /\ step[r][b] = "read"
  /\ unread[r][b] = {}
  /\ CASE Current(r).kind = "one" ->
            /\ out' = [out EXCEPT ![r] = [q \in Ranks |-> [x \in Offsets |->
                         IF x \in mine THEN acc[r][b] ELSE @[q][x]]]]
            /\ step' = [step EXCEPT ![r][b] = "arriveEnd"]
            /\ UNCHANGED scratch
       [] Current(r).kind = "two" ->
            /\ scratch' = [scratch EXCEPT ![r] = [x \in Offsets |->
                             IF x \in mine THEN acc[r][b] ELSE @[x]]]
            /\ step' = [step EXCEPT ![r][b] = "arriveEnd"]
            /\ UNCHANGED out
       [] OTHER ->
            /\ out' = [out EXCEPT ![r][r] = [x \in Offsets |->
                         IF x \in mine THEN {<<r, op[r]>>} ELSE @[x]]]
            /\ step' = [step EXCEPT ![r][b] = "idle"]
            /\ UNCHANGED scratch
  /\ UNCHANGED <<program, op, phase, barrierVars, staging, unread, acc>>

\* Faulty variant: the second barrier does not wait.
PassEndAlone(r, b) ==
  /\ step[r][b] = "waitEnd"
  /\ left' = [left EXCEPT ![b][r] = @ + 1]
  /\ IF Current(r).kind = "two"
     THEN /\ step' = [step EXCEPT ![r][b] = "collect"]
          /\ unread' = [unread EXCEPT ![r][b] = Ranks]
     ELSE /\ step' = [step EXCEPT ![r][b] = "idle"]
          /\ UNCHANGED unread
  /\ UNCHANGED <<program, op, phase, arrived, staging, scratch, acc, out>>

\* The second barrier: it ends the 1-stage kernel and the all-gather, and in
\* the 2-stage kernels it opens the peers' scratch areas.
PassEnd(r, b) ==
  /\ step[r][b] = "waitEnd"
  /\ Row(b)!MayLeave(r)
  /\ left' = [left EXCEPT ![b][r] = @ + 1]
  /\ IF Current(r).kind = "two"
     THEN /\ step' = [step EXCEPT ![r][b] = "collect"]
          /\ unread' = [unread EXCEPT ![r][b] = Ranks]
     ELSE /\ step' = [step EXCEPT ![r][b] = "idle"]
          /\ UNCHANGED unread
  /\ UNCHANGED <<program, op, phase, arrived, staging, scratch, acc, out>>

\* 2-stage: the block copies its part of peer p's reduced chunk to the output.
Collect(r, b, p) ==
  LET mine == Handled(b, Grid(r)) IN
  /\ step[r][b] = "collect"
  /\ p \in unread[r][b]
  /\ unread' = [unread EXCEPT ![r][b] = @ \ {p}]
  /\ out' = [out EXCEPT ![r][p] = [x \in Offsets |->
               IF x \in mine THEN scratch[p][x] ELSE @[x]]]
  /\ step' = [step EXCEPT ![r][b] = IF unread[r][b] = {p} THEN "idle" ELSE @]
  /\ UNCHANGED <<program, op, phase, barrierVars, staging, scratch, acc>>

\* The stream moves on when every block of the kernel has ended.  The
\* all-gather launches its copy kernel after the start barrier, and its end
\* barrier after the copy.
NextKernel(r) ==
  /\ Running(r) /\ KernelOver(r)
  /\ \/ /\ phase[r] = "start"
        /\ phase' = [phase EXCEPT ![r] = "body"]
        /\ Launch(r, Grid(r), "read")
        /\ unread' = [unread EXCEPT ![r] =
                        [b \in Blocks |-> IF b < Grid(r) THEN Sources(r) ELSE {}]]
     \/ /\ phase[r] = "body" /\ Current(r).kind = "gather"
        /\ phase' = [phase EXCEPT ![r] = "end"]
        /\ Launch(r, 1, "arriveEnd")
        /\ UNCHANGED unread
     \/ /\ phase[r] = "end" \/ (phase[r] = "body" /\ Current(r).kind # "gather")
        /\ phase' = [phase EXCEPT ![r] = "done"]
        /\ UNCHANGED <<step, unread>>
  /\ UNCHANGED <<program, op, barrierVars, staging, scratch, acc, out>>

\* Faulty variant: the next collective is issued without waiting for this one.
RetireAtOnce(r) ==
  /\ op' = [op EXCEPT ![r] = @ + 1]
  /\ phase' = [phase EXCEPT ![r] = "copy"]
  /\ out' = [out EXCEPT ![r] = NoOutput]
  /\ acc' = [acc EXCEPT ![r] = [b \in Blocks |-> {}]]
  /\ UNCHANGED <<program, step, barrierVars, staging, scratch, unread>>

\* The output has been used by the following kernels of the stream; the next
\* collective begins.
Retire(r) ==
  /\ Running(r) /\ phase[r] = "done"
  /\ op' = [op EXCEPT ![r] = @ + 1]
  /\ phase' = [phase EXCEPT ![r] = "copy"]
  /\ out' = [out EXCEPT ![r] = NoOutput]
  /\ acc' = [acc EXCEPT ![r] = [b \in Blocks |-> {}]]
  /\ UNCHANGED <<program, step, barrierVars, staging, scratch, unread>>

Finished ==
  /\ \A r \in Ranks : ~Running(r)
  /\ UNCHANGED vars

BlockStep(r, b) ==
  \/ ArriveBarrier(r, b) \/ PassStart(r, b) \/ FinishReduce(r, b) \/ PassEnd(r, b)
  \/ \E p \in Ranks : ReadInput(r, b, p) \/ Collect(r, b, p)

StreamStep(r) == Copy(r) \/ NextKernel(r) \/ Retire(r)

Next ==
  \/ \E r \in Ranks : StreamStep(r)
  \/ \E r \in Ranks, b \in Blocks : BlockStep(r, b)
  \/ Finished

Spec == Init /\ [][Next]_vars

\* The device runs the stream of every rank and keeps every resident block
\* running.
Fairness ==
  \A r \in Ranks :
    /\ WF_vars(StreamStep(r))
    /\ \A b \in Blocks : WF_vars(BlockStep(r, b))

FairSpec == Spec /\ Fairness

----------------------------------------------------------------------------
Steps == {"idle", "arrive", "wait", "read", "arriveEnd", "waitEnd", "collect"}

TypeOK ==
  /\ program \in [1 .. MaxOps -> Operations]
  /\ op \in [Ranks -> 1 .. MaxOps + 1]
  /\ phase \in [Ranks -> {"copy", "start", "body", "end", "done"}]
  /\ step \in [Ranks -> [Blocks -> Steps]]
  /\ arrived \in [Blocks -> [Ranks -> Nat]]
  /\ left \in [Blocks -> [Ranks -> Nat]]
  /\ staging \in [Ranks -> 0 .. MaxOps]
  /\ scratch \in [Ranks -> [Offsets -> SUBSET Contributions]]
  /\ unread \in [Ranks -> [Blocks -> SUBSET Ranks]]
  /\ acc \in [Ranks -> [Blocks -> SUBSET Contributions]]
  /\ out \in [Ranks -> [Ranks -> [Offsets -> SUBSET Contributions]]]

\* When a collective is done on a rank, every element of its output is made of
\* the inputs all ranks gave to that very collective: no stale staging buffer,
\* no input of the next call, no chunk a peer had not finished.
ResultCorrect ==
  \A r \in Ranks : phase[r] = "done" =>
    \A q \in Ranks, x \in Offsets :
      out[r][q][x] = IF Current(r).kind = "gather"
                     THEN {<<q, op[r]>>}
                     ELSE {<<p, op[r]>> : p \in Ranks}

\* A rank never copies a new input over a staging buffer some block of a peer
\* has still to read.
StagingNotOverwritten ==
  [][\A p \in Ranks : staging'[p] # staging[p] =>
       \A r \in Ranks, b \in Blocks :
         step[r][b] = "read" => p \notin unread[r][b]]_vars

\* A rank never writes a reduced chunk over elements that a block of a peer is
\* still to collect.
ScratchNotOverwritten ==
  [][\A p \in Ranks, x \in Offsets : scratch'[p][x] # scratch[p][x] =>
       \A r \in Ranks, b \in Blocks :
         (step[r][b] = "collect" /\ x \in Handled(b, Grid(r)))
           => p \notin unread[r][b]]_vars

\* Every rank gets through every collective of the program.
AllComplete == \A r \in Ranks : <>(op[r] = MaxOps + 1)

============================================================================
