--------------------------- MODULE SignalBarrier ---------------------------
(***************************************************************************)
(* multi_rank_barrier of custom_all_reduce.mu for one block index: every   *)
(* rank runs one thread per peer; a thread increments its own counter,     *)
(* stores the new flag into the peer's slot of the flag's parity and spins *)
(* until its own slot of that parity holds exactly that flag.              *)
(*                                                                         *)
(* Blocks never touch each other's rows of the Signal structure, so one    *)
(* row is the whole protocol.  The flag is a 32 bit counter in the code    *)
(* and wraps; here it wraps at FlagModulus.                                *)
(***************************************************************************)
EXTENDS Integers

CONSTANTS
  Ranks,                \* the ranks of the communicator
  FlagModulus,          \* 2^32 in the code: FlagType is uint32_t
  MaxRounds             \* bound: barriers each rank goes through

ASSUME FlagAssumption ==
  /\ FlagModulus \in Nat
  /\ FlagModulus >= 4
  /\ FlagModulus % 2 = 0

ASSUME BoundAssumption == MaxRounds \in Nat

VARIABLES
  selfCounter,          \* selfCounter[r][t]: Signal.self_counter of rank r, thread t
  peerCounter,          \* peerCounter[r][s][p]: slot s of rank r, written by rank p
  pc,                   \* pc[r][t]: where thread t of rank r is in the barrier
  round                 \* round[r]: barriers rank r has got through

vars == <<selfCounter, peerCounter, pc, round>>

Flags == 0 .. FlagModulus - 1
Steps == {"arrive", "publish", "spin", "passed"}

\* A faulty variant, used only to show that the properties can fail: one slot
\* instead of two.
OneSlot(flag) == 0

\* The parity slot a flag is stored in: peer_counter[flag & 1].
Slot(flag) == flag % 2

\* The flag after an increment of the 32 bit counter.
Bumped(flag) == (flag + 1) % FlagModulus

\* _make_shared_buffer fills the Signal of every rank with zeros.
Init ==
  /\ selfCounter = [r \in Ranks |-> [t \in Ranks |-> 0]]
  /\ peerCounter = [r \in Ranks |-> [s \in {0, 1} |-> [p \in Ranks |-> 0]]]
  /\ pc = [r \in Ranks |-> [t \in Ranks |-> "arrive"]]
  /\ round = [r \in Ranks |-> 0]

\* atomicAdd(&self_counter[block][t], 1) + 1
Bump(r, t) ==
  /\ pc[r][t] = "arrive"
  /\ round[r] < MaxRounds
  /\ selfCounter' = [selfCounter EXCEPT ![r][t] = Bumped(@)]
  /\ pc' = [pc EXCEPT ![r][t] = "publish"]
  /\ UNCHANGED <<peerCounter, round>>

\* Faulty variant: the flag goes into the slot of the previous barrier's parity.
PublishOtherSlot(r, t) ==
  /\ pc[r][t] = "publish"
  /\ peerCounter' =
       [peerCounter EXCEPT ![t][1 - Slot(selfCounter[r][t])][r] = selfCounter[r][t]]
  /\ pc' = [pc EXCEPT ![r][t] = "spin"]
  /\ UNCHANGED <<selfCounter, round>>

\* atomicExch of the flag into the slot peer t keeps for rank r
Publish(r, t) ==
  /\ pc[r][t] = "publish"
  /\ peerCounter' =
       [peerCounter EXCEPT ![t][Slot(selfCounter[r][t])][r] = selfCounter[r][t]]
  /\ pc' = [pc EXCEPT ![r][t] = "spin"]
  /\ UNCHANGED <<selfCounter, round>>

\* Faulty variant: any non-zero flag in the slot ends the spin loop.
PassNonZero(r, t) ==
  /\ pc[r][t] = "spin"
  /\ peerCounter[r][Slot(selfCounter[r][t])][t] # 0
  /\ pc' = [pc EXCEPT ![r][t] = "passed"]
  /\ UNCHANGED <<selfCounter, peerCounter, round>>

\* the spin loop ends when the local slot equals the flag
Pass(r, t) ==
  /\ pc[r][t] = "spin"
  /\ peerCounter[r][Slot(selfCounter[r][t])][t] = selfCounter[r][t]
  /\ pc' = [pc EXCEPT ![r][t] = "passed"]
  /\ UNCHANGED <<selfCounter, peerCounter, round>>

\* Faulty variant: the block goes on when one thread has passed, as it would
\* without the __syncthreads_lm that ends the barrier.
JoinOnFirst(r) ==
  /\ \E t \in Ranks : pc[r][t] = "passed"
  /\ pc' = [pc EXCEPT ![r] = [t \in Ranks |-> "arrive"]]
  /\ round' = [round EXCEPT ![r] = @ + 1]
  /\ UNCHANGED <<selfCounter, peerCounter>>

\* The threads of the block join (__syncthreads_lm, or the end of the kernel
\* and the start of the next one on the stream) before the next barrier.
Join(r) ==
  /\ \A t \in Ranks : pc[r][t] = "passed"
  /\ pc' = [pc EXCEPT ![r] = [t \in Ranks |-> "arrive"]]
  /\ round' = [round EXCEPT ![r] = @ + 1]
  /\ UNCHANGED <<selfCounter, peerCounter>>

\* every kernel the ranks were given has run
Finished ==
  /\ \A r \in Ranks : round[r] = MaxRounds
  /\ UNCHANGED vars

ThreadStep(r, t) == Bump(r, t) \/ Publish(r, t) \/ Pass(r, t)

Next ==
  \/ \E r, t \in Ranks : ThreadStep(r, t)
  \/ \E r \in Ranks : Join(r)
  \/ Finished

Spec == Init /\ [][Next]_vars

\* A resident block's threads keep executing, so a thread that can step does: a
\* spinning thread re-reads its slot for ever.
Fairness ==
  /\ \A r, t \in Ranks : WF_vars(ThreadStep(r, t))
  /\ \A r \in Ranks : WF_vars(Join(r))

FairSpec == Spec /\ Fairness

----------------------------------------------------------------------------
\* How many flags thread t of rank r has taken from its counter and how many
\* it has stored at the peer, counted without the wrap of the flag.
Taken(r, t) == round[r] + (IF pc[r][t] = "arrive" THEN 0 ELSE 1)
Stored(r, t) == round[r] + (IF pc[r][t] \in {"spin", "passed"} THEN 1 ELSE 0)

TypeOK ==
  /\ selfCounter \in [Ranks -> [Ranks -> Flags]]
  /\ peerCounter \in [Ranks -> [{0, 1} -> [Ranks -> Flags]]]
  /\ pc \in [Ranks -> [Ranks -> Steps]]
  /\ round \in [Ranks -> Nat]

\* A thread gets through the spin loop of a barrier only after its peer has
\* stored the flag of that same barrier: neither the leftover of two barriers
\* ago in the reused slot nor a wrapped counter lets it through early.
NoEarlyPass ==
  \A r, t \in Ranks : pc[r][t] = "passed" => Stored(t, r) >= round[r] + 1

\* The wait is for equality, so a peer that runs ahead must not replace a flag
\* that is still waited for: a flag stored for the barrier rank r is in, or is
\* about to enter, is in its slot until the thread of r has seen it.
FlagNotOverwritten ==
  \A r, t \in Ranks :
    (pc[r][t] # "passed" /\ Stored(t, r) >= round[r] + 1)
      => LET flag == (round[r] + 1) % FlagModulus
         IN peerCounter[r][Slot(flag)][t] = flag

\* Every rank gets through every barrier it was given: no flag is lost and
\* nobody spins for ever.
EveryRoundCompletes == \A r \in Ranks : <>(round[r] = MaxRounds)

----------------------------------------------------------------------------
\* Refinement of RankBarrier: a rank has arrived once one of its threads has
\* taken the flag, and leaves when its threads join.
Arrived == [r \in Ranks |->
  round[r] + (IF \E t \in Ranks : pc[r][t] # "arrive" THEN 1 ELSE 0)]

Abstract == INSTANCE RankBarrier WITH arrived <- Arrived, left <- round

\* The signal barrier implements the abstract barrier: no rank leaves a
\* barrier that some rank has not reached.
AbstractSpec == Abstract!Spec

\* The inductive invariant: counters and slots are determined by how many
\* flags were taken and stored, and the ranks keep each other in step.
CountersMatch ==
  \A r, t \in Ranks : selfCounter[r][t] = Taken(r, t) % FlagModulus

SlotsMatch ==
  \A r, t \in Ranks :
    LET n == Stored(t, r)
    IN /\ peerCounter[r][n % 2][t] = n % FlagModulus
       /\ peerCounter[r][(n + 1) % 2][t] =
            (IF n = 0 THEN 0 ELSE (n - 1) % FlagModulus)

InStep ==
  \A r, t \in Ranks :
    /\ Stored(t, r) >= round[r]
    /\ pc[r][t] = "passed" => Stored(t, r) >= round[r] + 1

BarrierInv == TypeOK /\ CountersMatch /\ SlotsMatch /\ InStep

============================================================================
