---------------------------- MODULE RankBarrier ----------------------------
(***************************************************************************)
(* What one block row of the multi-rank barrier of the custom all-reduce   *)
(* kernels promises: nobody leaves barrier k before every rank has reached *)
(* it.  The abstract side of the refinement in SignalBarrier, and the      *)
(* barrier the data-movement model CarCollective is built on.              *)
(***************************************************************************)
EXTENDS Naturals

CONSTANT Ranks          \* the ranks of the communicator

VARIABLES
  arrived,              \* arrived[r]: barriers rank r has reached
  left                  \* left[r]: barriers rank r has got through

barrierVars == <<arrived, left>>

TypeOK ==
  /\ arrived \in [Ranks -> Nat]
  /\ left \in [Ranks -> Nat]

Init ==
  /\ arrived = [r \in Ranks |-> 0]
  /\ left = [r \in Ranks |-> 0]

\* A rank enters a barrier only after it has left the one before.
MayArrive(r) == arrived[r] = left[r]

\* It leaves once every rank has entered that barrier.
MayLeave(r) ==
  /\ arrived[r] = left[r] + 1
  /\ \A p \in Ranks : arrived[p] >= arrived[r]

Arrive(r) ==
  /\ MayArrive(r)
  /\ arrived' = [arrived EXCEPT ![r] = @ + 1]
  /\ UNCHANGED left

Leave(r) ==
  /\ MayLeave(r)
  /\ left' = [left EXCEPT ![r] = @ + 1]
  /\ UNCHANGED arrived

Next == \E r \in Ranks : Arrive(r) \/ Leave(r)

Spec == Init /\ [][Next]_barrierVars

============================================================================
