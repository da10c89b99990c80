------------------------------ MODULE CarInit ------------------------------
(***************************************************************************)
(* Construction of MusaJitCustomAllreduce on every rank: the contract is   *)
(* compared, two shared buffers are allocated and exchanged as IPC         *)
(* handles, the kernels are compiled, and a MIN reduction of "available"   *)
(* decides for all ranks.  A local failure is caught on its rank, which    *)
(* then goes straight to that reduction.                                   *)
(*                                                                         *)
(* The ranks match collectives by their order on the process group only: a *)
(* collective completes when every rank has entered one of the same kind   *)
(* at the same position.                                                   *)
(***************************************************************************)
EXTENDS Integers, Sequences, FiniteSets

CONSTANTS
  Ranks,                \* the ranks of the group
  SupportedSizes,       \* _SUPPORTED_WORLD_SIZES
  Fingerprints,         \* values of _graph_staging_plan_fingerprint
  FailurePoints         \* steps of the construction that may raise on a rank

Buffers == {"meta", "data"}

\* The steps of the construction that run local code, "start" up to the plan
\* consensus.
FailureSteps == {"start", "metaAlloc", "metaOpen", "dataAlloc", "dataOpen", "compile", "tensors"}

ASSUME InitAssumption ==
  /\ SupportedSizes \subseteq Nat
  /\ FailurePoints \subseteq FailureSteps

VARIABLES
  fingerprint,          \* fingerprint[r]: the graph contract of rank r
  pc,                   \* pc[r]: the next step of rank r, or its verdict
  entered,              \* entered[r]: the collectives rank r has entered, in order
  allocated,            \* allocated[r]: rank r's own live shared buffers
  opened,               \* opened[r]: <<buffer, peer>> mappings rank r holds
  available,            \* available[r]: _jit_available of rank r at the reduction
  failed                \* failed[r]: a local step of rank r has raised

vars == <<fingerprint, pc, entered, allocated, opened, available, failed>>
resourceVars == <<allocated, opened>>

Verdicts == {"enabled", "disabled", "crashed"}

Init ==
  /\ fingerprint \in [Ranks -> Fingerprints]
  /\ pc = [r \in Ranks |-> "start"]
  /\ entered = [r \in Ranks |-> <<>>]
  /\ allocated = [r \in Ranks |-> {}]
  /\ opened = [r \in Ranks |-> {}]
  /\ available = [r \in Ranks |-> FALSE]
  /\ failed = [r \in Ranks |-> FALSE]

----------------------------------------------------------------------------
Goto(r, next) == pc' = [pc EXCEPT ![r] = next]

\* Rank r enters its next collective on the group and blocks in it.
EnterCollective(r, kind) == entered' = [entered EXCEPT ![r] = Append(@, kind)]

Position(r) == Len(entered[r])

\* The collective rank r is blocked in is complete.
Complete(r) ==
  \A q \in Ranks :
    /\ Len(entered[q]) >= Position(r)
    /\ entered[q][Position(r)] = entered[r][Position(r)]

\* It can never complete: at its position a peer is in another collective or
\* has ended without one.
Mismatched(r) ==
  \E q \in Ranks :
    IF Len(entered[q]) >= Position(r)
    THEN entered[q][Position(r)] # entered[r][Position(r)]
    ELSE pc[q] \in Verdicts

\* The steps from here on enter the availability reduction of the wrapper.
EnterAvailability(r) ==
  /\ Goto(r, "availabilityWait")
  /\ EnterCollective(r, "min")

Release(r) ==
  /\ allocated' = [allocated EXCEPT ![r] = {}]
  /\ opened' = [opened EXCEPT ![r] = {}]

\* Up to the plan consensus: an unsupported world size leaves the communicator
\* disabled.
Start(r) ==
  /\ pc[r] = "start"
  /\ IF Cardinality(Ranks) \in SupportedSizes
     THEN /\ Goto(r, "planWait")
          /\ EnterCollective(r, "plan")
     ELSE EnterAvailability(r)
  /\ UNCHANGED <<fingerprint, resourceVars, available, failed>>

\* Faulty variant, used only to show that the properties can fail: a rank only
\* compares its contract with that of one chosen peer.
ComparePlansOnePeer(r) ==
  /\ pc[r] = "planWait" /\ Complete(r)
  /\ IF fingerprint[CHOOSE q \in Ranks : TRUE] = fingerprint[r]
     THEN /\ Goto(r, "metaAlloc")
          /\ UNCHANGED entered
     ELSE EnterAvailability(r)
  /\ UNCHANGED <<fingerprint, resourceVars, available, failed>>

\* _validate_graph_staging_plan_consensus: the broadcasts of all ranks have
\* come; ranks with different contracts all raise, before any allocation.
ComparePlans(r) ==
  /\ pc[r] = "planWait" /\ Complete(r)
  /\ IF \A q \in Ranks : fingerprint[q] = fingerprint[r]
     THEN /\ Goto(r, "metaAlloc")
          /\ UNCHANGED entered
     ELSE EnterAvailability(r)
  /\ UNCHANGED <<fingerprint, resourceVars, available, failed>>

AllocStep(b) == IF b = "meta" THEN "metaAlloc" ELSE "dataAlloc"
GatherStep(b) == IF b = "meta" THEN "metaWait" ELSE "dataWait"
OpenStep(b) == IF b = "meta" THEN "metaOpen" ELSE "dataOpen"
AfterOpen(b) == IF b = "meta" THEN "dataAlloc" ELSE "compile"

\* _make_shared_buffer up to the exchange: malloc, memset, IPC handle, and the
\* rank goes into all_gather_object.
Allocate(r, b) ==
  /\ pc[r] = AllocStep(b)
  /\ allocated' = [allocated EXCEPT ![r] = @ \cup {b}]
  /\ EnterCollective(r, "gather")
  /\ Goto(r, GatherStep(b))
  /\ UNCHANGED <<fingerprint, opened, available, failed>>

\* The handles of all ranks have come.
Gathered(r, b) ==
  /\ pc[r] = GatherStep(b) /\ Complete(r)
  /\ Goto(r, OpenStep(b))
  /\ UNCHANGED <<fingerprint, entered, resourceVars, available, failed>>

\* The second half of _make_shared_buffer: every peer's handle is opened.
OpenPeers(r, b) ==
  /\ pc[r] = OpenStep(b)
  /\ opened' = [opened EXCEPT ![r] = @ \cup ({b} \X (Ranks \ {r}))]
  /\ Goto(r, AfterOpen(b))
  /\ UNCHANGED <<fingerprint, entered, allocated, available, failed>>

\* jit_ar.ensure_compiled
Compile(r) ==
  /\ pc[r] = "compile"
  /\ Goto(r, "tensors")
  /\ UNCHANGED <<fingerprint, entered, resourceVars, available, failed>>

\* The pointer tensors and the registration; the communicator is enabled and
\* the wrapper reduces "available".
Register(r) ==
  /\ pc[r] = "tensors"
  /\ available' = [available EXCEPT ![r] = TRUE]
  /\ EnterAvailability(r)
  /\ UNCHANGED <<fingerprint, resourceVars, failed>>

\* A local step raises.  _make_shared_buffer and the handler in __init__ close
\* every mapping and free both buffers, and the communicator stays disabled;
\* after the handler's scope the exception reaches the wrapper, which drops
\* the object, and close() does the same.
Fail(r) ==
  /\ pc[r] \in FailurePoints
  /\ failed' = [failed EXCEPT ![r] = TRUE]
  /\ Release(r)
  /\ EnterAvailability(r)
  /\ UNCHANGED <<fingerprint, available>>

\* A collective that cannot complete ends in the group's timeout: in the plan
\* consensus and in the exchange of the handles it is caught like any failure, in
\* the availability reduction it leaves the constructor.
TimeOut(r) ==
  /\ pc[r] \in {"planWait", "metaWait", "dataWait", "availabilityWait"}
  /\ Mismatched(r)
  /\ \/ /\ pc[r] # "availabilityWait"
        /\ Release(r)
        /\ EnterAvailability(r)
        /\ UNCHANGED available
     \/ /\ pc[r] = "availabilityWait"
        /\ Goto(r, "crashed")
        /\ Release(r)
        /\ available' = [available EXCEPT ![r] = FALSE]
        /\ UNCHANGED entered
  /\ UNCHANGED <<fingerprint, failed>>

\* Faulty variant: the rank's own result decides.
DecideAlone(r) ==
  /\ pc[r] = "availabilityWait" /\ Complete(r)
  /\ IF available[r]
     THEN /\ Goto(r, "enabled")
          /\ UNCHANGED resourceVars
     ELSE /\ Goto(r, "disabled")
          /\ Release(r)
  /\ UNCHANGED <<fingerprint, entered, available, failed>>

\* Faulty variant: the communicator that is not used is not closed.
DecideNoClose(r) ==
  /\ pc[r] = "availabilityWait" /\ Complete(r)
  /\ Goto(r, IF \A q \in Ranks : available[q] THEN "enabled" ELSE "disabled")
  /\ UNCHANGED <<fingerprint, entered, resourceVars, available, failed>>

\* The MIN of all ranks is there: unless every rank is available the wrapper
\* closes its communicator.
Decide(r) ==
  /\ pc[r] = "availabilityWait" /\ Complete(r)
  /\ IF \A q \in Ranks : available[q]
     THEN /\ Goto(r, "enabled")
          /\ UNCHANGED resourceVars
     ELSE /\ Goto(r, "disabled")
          /\ Release(r)
  /\ UNCHANGED <<fingerprint, entered, available, failed>>

Finished ==
  /\ \A r \in Ranks : pc[r] \in Verdicts
  /\ UNCHANGED vars

RankStep(r) ==
  \/ Start(r) \/ ComparePlans(r) \/ Compile(r) \/ Register(r)
  \/ Fail(r) \/ TimeOut(r) \/ Decide(r)
  \/ \E b \in Buffers : Allocate(r, b) \/ Gathered(r, b) \/ OpenPeers(r, b)

Next == (\E r \in Ranks : RankStep(r)) \/ Finished

Spec == Init /\ [][Next]_vars

\* Every rank's constructor runs on, and a completed or timed out collective
\* returns.
Fairness == \A r \in Ranks : WF_vars(RankStep(r))

FairSpec == Spec /\ Fairness

----------------------------------------------------------------------------
\* An enabled rank's kernels may run at once: it holds a mapping of both
\* buffers of every peer, the peer has not freed them and works under the same
\* graph contract, and no peer has been told that the communicator is off.
EnabledMapped ==
  \A r, q \in Ranks :
    pc[r] = "enabled" =>
      /\ pc[q] \notin {"disabled", "crashed"}
      /\ fingerprint[q] = fingerprint[r]
      /\ allocated[q] = Buffers
      /\ q # r => Buffers \X {q} \subseteq opened[r]

\* Wherever the construction stopped, a rank without the communicator holds no
\* device memory and no mapping of a peer's memory.
NothingLeft ==
  \A r \in Ranks :
    pc[r] \in {"disabled", "crashed"} => allocated[r] = {} /\ opened[r] = {}

\* A rank failed before it had entered both exchanges of handles.
FailedEarly == \E r \in Ranks : failed[r] /\ Len(entered[r]) < 4

\* As long as no rank fails before the exchanges of handles, every rank's
\* constructor returns with a verdict: contracts that differ and failures after
\* the last exchange leave no rank waiting for a peer or for a timeout.
EveryRankDecides ==
  []~FailedEarly => \A r \in Ranks : <>(pc[r] \in {"enabled", "disabled"})

\* "disabled because a peer rank failed initialization": a failure on one rank
\* leads every rank to run without the communicator.
PeerFailureDisables ==
  \A r, q \in Ranks : failed[r] ~> (pc[q] = "disabled")

============================================================================
