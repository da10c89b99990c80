---------------------------- MODULE CarInitProofs ----------------------------
(***************************************************************************)
(* The construction of the communicator for every set of ranks: an enabled *)
(* rank finds every peer's buffers mapped and alive, and a rank without    *)
(* the communicator holds nothing.  The argument: the availability         *)
(* reduction is the last collective a rank enters, so once it is complete  *)
(* for one rank it is complete for all, no rank can time out in it, and    *)
(* all see the same values.                                                *)
(***************************************************************************)
EXTENDS CarInit, TLAPS

PCs == FailureSteps \cup Verdicts \cup
         {"start", "planWait", "metaWait", "dataWait", "availabilityWait"}

\* The steps before the availability reduction that come after the contract.
AfterPlan == (FailureSteps \ {"start"}) \cup {"metaWait", "dataWait"}

InitTypes ==
  /\ fingerprint \in [Ranks -> Fingerprints]
  /\ pc \in [Ranks -> PCs]
  /\ entered \in [Ranks -> Seq({"plan", "gather", "min"})]
  /\ allocated \in [Ranks -> SUBSET Buffers]
  /\ opened \in [Ranks -> SUBSET (Buffers \X Ranks)]
  /\ available \in [Ranks -> BOOLEAN]
  /\ failed \in [Ranks -> BOOLEAN]

SameContract(r) == \A q \in Ranks : fingerprint[q] = fingerprint[r]

AtAvailability(r) == pc[r] = "availabilityWait" \/ pc[r] \in Verdicts

\* A rank enters the availability reduction last.
MinIsLast ==
  \A r \in Ranks :
    /\ AtAvailability(r) => Len(entered[r]) > 0 /\ entered[r][Len(entered[r])] = "min"
    /\ \A i \in 1 .. Len(entered[r]) :
         entered[r][i] = "min" => AtAvailability(r) /\ i = Len(entered[r])

\* What a rank holds at each step of the construction.
Holds ==
  \A r \in Ranks :
    /\ pc[r] \in AfterPlan => SameContract(r)
    /\ pc[r] \in {"metaWait", "metaOpen", "dataAlloc"} => "meta" \in allocated[r]
    /\ pc[r] \in {"dataWait", "dataOpen", "compile", "tensors"} => allocated[r] = Buffers
    /\ pc[r] \in {"dataAlloc", "dataWait", "dataOpen", "compile", "tensors"} =>
         {"meta"} \X (Ranks \ {r}) \subseteq opened[r]
    /\ pc[r] \in {"compile", "tensors"} => {"data"} \X (Ranks \ {r}) \subseteq opened[r]

\* A rank that is available is at the reduction and has all it needs, until
\* the verdict.
AvailableIsReady ==
  \A r \in Ranks : available[r] =>
    /\ AtAvailability(r)
    /\ SameContract(r)
    /\ pc[r] \in {"availabilityWait", "enabled"} =>
         allocated[r] = Buffers /\ Buffers \X (Ranks \ {r}) \subseteq opened[r]
    /\ pc[r] # "crashed"

\* Once a rank is enabled, every rank is available and in or past the same
\* reduction.
EnabledTogether ==
  \A r \in Ranks : pc[r] = "enabled" =>
    \A q \in Ranks :
      /\ available[q]
      /\ pc[q] \in {"availabilityWait", "enabled"}
      /\ Len(entered[q]) = Len(entered[r])

\* A rank is disabled because some rank is not available, now and for good.
DisabledForAReason ==
  \A r \in Ranks : pc[r] = "disabled" =>
    \E q \in Ranks : AtAvailability(q) /\ ~available[q]

\* The inductive invariant.
InitInv ==
  /\ InitTypes
  /\ MinIsLast
  /\ Holds
  /\ AvailableIsReady
  /\ EnabledTogether
  /\ DisabledForAReason
  /\ NothingLeft

\* A rank that has just entered a collective has it at its last position.
LEMMA AppendedLast ==
  ASSUME NEW s \in Seq({"plan", "gather", "min"}), NEW k \in {"plan", "gather", "min"}
  PROVE  /\ Append(s, k) \in Seq({"plan", "gather", "min"})
         /\ Len(Append(s, k)) = Len(s) + 1 /\ Len(s) \in Nat
         /\ Append(s, k)[Len(s) + 1] = k
         /\ \A i \in 1 .. Len(s) : Append(s, k)[i] = s[i]
  OBVIOUS

\* A rank past its verdict, or in the reduction with everyone, stays there: a
\* complete reduction cannot time out.
LEMMA CompleteTogether ==
  ASSUME InitInv, NEW r \in Ranks, pc[r] = "availabilityWait", Complete(r)
  PROVE  \A q \in Ranks : AtAvailability(q) /\ Len(entered[q]) = Len(entered[r])
  <1>1. /\ Len(entered[r]) \in Nat /\ Len(entered[r]) > 0
        /\ entered[r][Len(entered[r])] = "min"
    BY DEF InitInv, InitTypes, MinIsLast, AtAvailability
  <1> SUFFICES ASSUME NEW q \in Ranks
               PROVE  AtAvailability(q) /\ Len(entered[q]) = Len(entered[r])
    OBVIOUS
  <1>2. /\ Len(entered[q]) \in Nat /\ Len(entered[q]) >= Len(entered[r])
        /\ entered[q][Len(entered[r])] = "min"
    BY <1>1 DEF Complete, Position, InitInv, InitTypes
  <1>3. Len(entered[r]) \in 1 .. Len(entered[q])
    BY <1>1, <1>2
  <1>4. QED
    BY <1>2, <1>3 DEF InitInv, MinIsLast

\* With a rank enabled no rank can time out.
LEMMA EnabledNoTimeOut ==
  ASSUME InitInv, NEW r \in Ranks, pc[r] = "enabled", NEW p \in Ranks, TimeOut(p)
  PROVE  FALSE
  <1>1. \A q \in Ranks : /\ Len(entered[q]) = Len(entered[r]) /\ AtAvailability(q)
                         /\ pc[q] \in {"availabilityWait", "enabled"}
    BY DEF InitInv, EnabledTogether, AvailableIsReady
  <1>2. \A q \in Ranks : entered[q][Len(entered[r])] = "min"
    BY <1>1 DEF InitInv, MinIsLast
  <1>3. Len(entered[r]) \in Nat
    BY DEF InitInv, InitTypes
  <1>4. ~Mismatched(p)
    BY <1>1, <1>2, <1>3 DEF Mismatched, Position
  <1>5. QED
    BY <1>4 DEF TimeOut

\* The parts of the invariant about rank r alone.
RankInv(r) ==
  /\ AtAvailability(r) => Len(entered[r]) > 0 /\ entered[r][Len(entered[r])] = "min"
  /\ \A i \in 1 .. Len(entered[r]) :
       entered[r][i] = "min" => AtAvailability(r) /\ i = Len(entered[r])
  /\ pc[r] \in AfterPlan => SameContract(r)
  /\ pc[r] \in {"metaWait", "metaOpen", "dataAlloc"} => "meta" \in allocated[r]
  /\ pc[r] \in {"dataWait", "dataOpen", "compile", "tensors"} => allocated[r] = Buffers
  /\ pc[r] \in {"dataAlloc", "dataWait", "dataOpen", "compile", "tensors"} =>
       {"meta"} \X (Ranks \ {r}) \subseteq opened[r]
  /\ pc[r] \in {"compile", "tensors"} => {"data"} \X (Ranks \ {r}) \subseteq opened[r]
  /\ available[r] =>
       /\ AtAvailability(r)
       /\ SameContract(r)
       /\ pc[r] \in {"availabilityWait", "enabled"} =>
            allocated[r] = Buffers /\ Buffers \X (Ranks \ {r}) \subseteq opened[r]
       /\ pc[r] # "crashed"
  /\ pc[r] \in {"disabled", "crashed"} => allocated[r] = {} /\ opened[r] = {}

LEMMA InvByRank ==
  InitInv <=> /\ InitTypes /\ EnabledTogether /\ DisabledForAReason
              /\ \A r \in Ranks : RankInv(r)
  BY DEF InitInv, MinIsLast, Holds, AvailableIsReady, NothingLeft, RankInv

\* Rank r is the only one that moves.
OnlyMoves(r) ==
  /\ fingerprint' = fingerprint
  /\ \A q \in Ranks \ {r} :
       /\ pc'[q] = pc[q] /\ entered'[q] = entered[q]
       /\ allocated'[q] = allocated[q] /\ opened'[q] = opened[q]
       /\ available'[q] = available[q]

LEMMA OthersKeep ==
  ASSUME InitInv, NEW r \in Ranks, OnlyMoves(r), InitTypes', RankInv(r)',
         EnabledTogether', DisabledForAReason'
  PROVE  InitInv'
  <1>1. ASSUME NEW q \in Ranks PROVE RankInv(q)'
    <2>1. CASE q = r
      BY <2>1
    <2>2. CASE q # r
      <3>1. RankInv(q)
        BY InvByRank
      <3>2. /\ pc'[q] = pc[q] /\ entered'[q] = entered[q]
            /\ allocated'[q] = allocated[q] /\ opened'[q] = opened[q]
            /\ available'[q] = available[q] /\ fingerprint' = fingerprint
        BY <2>2 DEF OnlyMoves
      <3>3. QED
        BY <3>1, <3>2 DEF RankInv, AtAvailability, SameContract
    <2>3. QED
      BY <2>1, <2>2
  <1>2. QED
    BY <1>1 DEF InitInv, MinIsLast, Holds, AvailableIsReady, NothingLeft, RankInv

\* A step of a rank before the reduction: no rank is enabled, so none is after,
\* and the reasons of the disabled ones stay.
LEMMA EarlyStep ==
  ASSUME InitInv, NEW r \in Ranks, OnlyMoves(r), InitTypes', RankInv(r)',
         ~AtAvailability(r), pc'[r] \notin {"enabled", "disabled"}
  PROVE  InitInv'
  <1>1. \A q \in Ranks : pc[q] # "enabled"
    BY DEF InitInv, EnabledTogether, AtAvailability, Verdicts
  <1>2. \A q \in Ranks : pc'[q] # "enabled"
    BY <1>1 DEF OnlyMoves
  <1>3. EnabledTogether'
    BY <1>2 DEF EnabledTogether
  <1>4. DisabledForAReason'
    <2> SUFFICES ASSUME NEW q \in Ranks, pc'[q] = "disabled"
                 PROVE  \E p \in Ranks : AtAvailability(p)' /\ ~available'[p]
      BY DEF DisabledForAReason
    <2>1. pc[q] = "disabled"
      BY DEF OnlyMoves
    <2>2. PICK p \in Ranks : AtAvailability(p) /\ ~available[p]
      BY <2>1 DEF InitInv, DisabledForAReason
    <2>3. p # r
      BY <2>2
    <2>4. AtAvailability(p)' /\ ~available'[p]
      BY <2>2, <2>3 DEF OnlyMoves, AtAvailability
    <2>5. QED
      BY <2>4
  <1>5. QED
    BY <1>3, <1>4, OthersKeep

\* What entering a collective before the reduction adds.
LEMMA Entering ==
  ASSUME InitInv, NEW r \in Ranks, ~AtAvailability(r), NEW k \in {"plan", "gather", "min"},
         entered' = [entered EXCEPT ![r] = Append(@, k)]
  PROVE  /\ entered' \in [Ranks -> Seq({"plan", "gather", "min"})]
         /\ \A q \in Ranks \ {r} : entered'[q] = entered[q]
         /\ k = "min" => /\ Len(entered'[r]) > 0 /\ entered'[r][Len(entered'[r])] = "min"
                         /\ \A i \in 1 .. Len(entered'[r]) :
                              entered'[r][i] = "min" => i = Len(entered'[r])
         /\ k # "min" => \A i \in 1 .. Len(entered'[r]) : entered'[r][i] # "min"
  <1> DEFINE s == entered[r]
  <1>1. s \in Seq({"plan", "gather", "min"}) /\ entered'[r] = Append(s, k)
    BY DEF InitInv, InitTypes
  <1>2. \A i \in 1 .. Len(s) : s[i] # "min"
    BY DEF InitInv, MinIsLast
  <1>3. /\ Append(s, k) \in Seq({"plan", "gather", "min"})
        /\ Len(Append(s, k)) = Len(s) + 1 /\ Len(s) \in Nat
        /\ Append(s, k)[Len(s) + 1] = k
        /\ \A i \in 1 .. Len(s) : Append(s, k)[i] = s[i]
    BY <1>1, AppendedLast
  <1>4. entered' \in [Ranks -> Seq({"plan", "gather", "min"})]
    BY <1>3 DEF InitInv, InitTypes
  <1>5. \A q \in Ranks \ {r} : entered'[q] = entered[q]
    BY DEF InitInv, InitTypes
  <1>6. \A i \in 1 .. Len(s) + 1 : i \in 1 .. Len(s) \/ i = Len(s) + 1
    BY <1>3
  <1>7. QED
    BY <1>1, <1>2, <1>3, <1>4, <1>5, <1>6

\* Staying out of a collective before the reduction: no "min" yet.
LEMMA NotYet ==
  ASSUME InitInv, NEW r \in Ranks, ~AtAvailability(r)
  PROVE  /\ \A i \in 1 .. Len(entered[r]) : entered[r][i] # "min"
         /\ ~available[r]
         /\ entered \in [Ranks -> Seq({"plan", "gather", "min"})]
  BY DEF InitInv, InitTypes, MinIsLast, AvailableIsReady

\* A rank that gives up before the reduction: it enters it with nothing, or
\* with nothing allocated yet.
LEMMA GiveUp ==
  ASSUME InitInv, NEW r \in Ranks, ~AtAvailability(r),
         pc' = [pc EXCEPT ![r] = "availabilityWait"],
         entered' = [entered EXCEPT ![r] = Append(@, "min")],
         UNCHANGED <<fingerprint, available>>,
         allocated' \in [Ranks -> SUBSET Buffers],
         opened' \in [Ranks -> SUBSET (Buffers \X Ranks)],
         failed' \in [Ranks -> BOOLEAN],
         \A q \in Ranks \ {r} : allocated'[q] = allocated[q] /\ opened'[q] = opened[q]
  PROVE  InitInv'
  <1>1. /\ entered' \in [Ranks -> Seq({"plan", "gather", "min"})]
        /\ \A q \in Ranks \ {r} : entered'[q] = entered[q]
        /\ Len(entered'[r]) > 0 /\ entered'[r][Len(entered'[r])] = "min"
        /\ \A i \in 1 .. Len(entered'[r]) :
             entered'[r][i] = "min" => i = Len(entered'[r])
    BY Entering
  <1>2. pc' \in [Ranks -> PCs] /\ pc'[r] = "availabilityWait"
        /\ \A q \in Ranks \ {r} : pc'[q] = pc[q]
    BY DEF InitInv, InitTypes, PCs
  <1>3. InitTypes'
    BY <1>1, <1>2 DEF InitInv, InitTypes
  <1>4. OnlyMoves(r)
    BY <1>1, <1>2 DEF OnlyMoves
  <1>5. RankInv(r)'
    BY <1>1, <1>2, NotYet DEF RankInv, AtAvailability, AfterPlan, FailureSteps, Verdicts
  <1>6. QED
    BY <1>2, <1>3, <1>4, <1>5, EarlyStep

LEMMA StartPreserves ==
  ASSUME InitInv, NEW r \in Ranks, Start(r)
  PROVE  InitInv'
  <1>1. pc[r] = "start" /\ ~AtAvailability(r)
        /\ UNCHANGED <<fingerprint, allocated, opened, available, failed>>
    BY DEF Start, AtAvailability, Verdicts, resourceVars
  <1>2. CASE pc' = [pc EXCEPT ![r] = "planWait"] /\ entered' = [entered EXCEPT ![r] = Append(@, "plan")]
    <2>1. /\ entered' \in [Ranks -> Seq({"plan", "gather", "min"})]
          /\ \A q \in Ranks \ {r} : entered'[q] = entered[q]
          /\ \A i \in 1 .. Len(entered'[r]) : entered'[r][i] # "min"
      BY <1>1, <1>2, Entering
    <2>2. pc' \in [Ranks -> PCs] /\ pc'[r] = "planWait"
          /\ \A q \in Ranks \ {r} : pc'[q] = pc[q]
      BY <1>2 DEF InitInv, InitTypes, PCs
    <2>3. InitTypes' /\ OnlyMoves(r)
      BY <1>1, <2>1, <2>2 DEF InitInv, InitTypes, OnlyMoves
    <2>4. RankInv(r)'
      BY <1>1, <2>1, <2>2, NotYet DEF RankInv, AtAvailability, AfterPlan, FailureSteps, Verdicts
    <2>5. QED
      BY <1>1, <2>2, <2>3, <2>4, EarlyStep
  <1>3. CASE EnterAvailability(r)
    BY <1>1, <1>3, GiveUp DEF EnterAvailability, Goto, EnterCollective, InitInv, InitTypes
  <1>4. QED
    BY <1>2, <1>3 DEF Start, Goto, EnterCollective

LEMMA ComparePlansPreserves ==
  ASSUME InitInv, NEW r \in Ranks, ComparePlans(r)
  PROVE  InitInv'
  <1>1. pc[r] = "planWait" /\ ~AtAvailability(r)
        /\ UNCHANGED <<fingerprint, allocated, opened, available, failed>>
    BY DEF ComparePlans, AtAvailability, Verdicts, resourceVars
  <1>2. CASE pc' = [pc EXCEPT ![r] = "metaAlloc"] /\ entered' = entered /\ SameContract(r)
    <2>1. pc' \in [Ranks -> PCs] /\ pc'[r] = "metaAlloc"
          /\ \A q \in Ranks \ {r} : pc'[q] = pc[q]
      BY <1>2 DEF InitInv, InitTypes, PCs, FailureSteps
    <2>2. InitTypes' /\ OnlyMoves(r)
      BY <1>1, <1>2, <2>1 DEF InitInv, InitTypes, OnlyMoves
    <2>3. RankInv(r)'
      BY <1>1, <1>2, <2>1, NotYet DEF RankInv, AtAvailability, SameContract, Verdicts
    <2>4. QED
      BY <1>1, <2>1, <2>2, <2>3, EarlyStep
  <1>3. CASE EnterAvailability(r)
    BY <1>1, <1>3, GiveUp DEF EnterAvailability, Goto, EnterCollective, InitInv, InitTypes
  <1>4. QED
    BY <1>2, <1>3 DEF ComparePlans, Goto, SameContract

LEMMA AllocatePreserves ==
  ASSUME InitInv, NEW r \in Ranks, NEW b \in Buffers, Allocate(r, b)
  PROVE  InitInv'
  <1>1. /\ pc[r] = AllocStep(b) /\ ~AtAvailability(r) /\ pc[r] \in AfterPlan
        /\ UNCHANGED <<fingerprint, opened, available, failed>>
    BY DEF Allocate, AllocStep, Buffers, AtAvailability, Verdicts, AfterPlan, FailureSteps
  <1>2. /\ entered' \in [Ranks -> Seq({"plan", "gather", "min"})]
        /\ \A q \in Ranks \ {r} : entered'[q] = entered[q]
        /\ \A i \in 1 .. Len(entered'[r]) : entered'[r][i] # "min"
    BY <1>1, Entering DEF Allocate, EnterCollective
  <1>3. pc' \in [Ranks -> PCs] /\ pc'[r] = GatherStep(b)
        /\ \A q \in Ranks \ {r} : pc'[q] = pc[q]
    BY DEF Allocate, Goto, GatherStep, InitInv, InitTypes, PCs
  <1>4. /\ allocated' \in [Ranks -> SUBSET Buffers]
        /\ allocated'[r] = allocated[r] \cup {b}
        /\ \A q \in Ranks \ {r} : allocated'[q] = allocated[q]
    BY DEF Allocate, InitInv, InitTypes
  <1>5. InitTypes' /\ OnlyMoves(r)
    BY <1>1, <1>2, <1>3, <1>4 DEF InitInv, InitTypes, OnlyMoves
  <1>6. /\ SameContract(r) /\ ~available[r]
        /\ b = "data" => "meta" \in allocated[r] /\ {"meta"} \X (Ranks \ {r}) \subseteq opened[r]
    BY <1>1, NotYet DEF InitInv, Holds, AllocStep
  <1>7. RankInv(r)'
    <2>1. CASE b = "meta"
      BY <1>1, <1>2, <1>3, <1>4, <1>6, <2>1
      DEF RankInv, AtAvailability, SameContract, Verdicts, GatherStep
    <2>2. CASE b = "data"
      BY <1>1, <1>2, <1>3, <1>4, <1>6, <2>2
      DEF RankInv, AtAvailability, SameContract, Verdicts, GatherStep, Buffers, InitInv, InitTypes
    <2>3. QED
      BY <2>1, <2>2 DEF Buffers
  <1>8. QED
    BY <1>1, <1>3, <1>5, <1>7, EarlyStep DEF GatherStep

LEMMA GatheredPreserves ==
  ASSUME InitInv, NEW r \in Ranks, NEW b \in Buffers, Gathered(r, b)
  PROVE  InitInv'
  <1>1. /\ pc[r] = GatherStep(b) /\ ~AtAvailability(r) /\ pc[r] \in AfterPlan
        /\ UNCHANGED <<fingerprint, entered, allocated, opened, available, failed>>
    BY DEF Gathered, GatherStep, Buffers, AtAvailability, Verdicts, AfterPlan, resourceVars
  <1>2. pc' \in [Ranks -> PCs] /\ pc'[r] = OpenStep(b)
        /\ \A q \in Ranks \ {r} : pc'[q] = pc[q]
    BY DEF Gathered, Goto, OpenStep, InitInv, InitTypes, PCs, FailureSteps
  <1>3. InitTypes' /\ OnlyMoves(r)
    BY <1>1, <1>2 DEF InitInv, InitTypes, OnlyMoves
  <1>4. RankInv(r)'
    <2>1. RankInv(r) /\ ~available[r] /\ \A i \in 1 .. Len(entered[r]) : entered[r][i] # "min"
      BY <1>1, InvByRank, NotYet
    <2>2. CASE b = "meta"
      BY <1>1, <1>2, <2>1, <2>2 DEF RankInv, AtAvailability, SameContract, Verdicts, GatherStep, OpenStep
    <2>3. CASE b = "data"
      BY <1>1, <1>2, <2>1, <2>3 DEF RankInv, AtAvailability, SameContract, Verdicts, GatherStep, OpenStep
    <2>4. QED
      BY <2>2, <2>3 DEF Buffers
  <1>5. QED
    BY <1>1, <1>2, <1>3, <1>4, EarlyStep DEF OpenStep

LEMMA OpenPeersPreserves ==
  ASSUME InitInv, NEW r \in Ranks, NEW b \in Buffers, OpenPeers(r, b)
  PROVE  InitInv'
  <1>1. /\ pc[r] = OpenStep(b) /\ ~AtAvailability(r) /\ pc[r] \in AfterPlan
        /\ UNCHANGED <<fingerprint, entered, allocated, available, failed>>
    BY DEF OpenPeers, OpenStep, Buffers, AtAvailability, Verdicts, AfterPlan, FailureSteps
  <1>2. pc' \in [Ranks -> PCs] /\ pc'[r] = AfterOpen(b)
        /\ \A q \in Ranks \ {r} : pc'[q] = pc[q]
    BY DEF OpenPeers, Goto, AfterOpen, InitInv, InitTypes, PCs, FailureSteps
  <1>3. /\ opened' \in [Ranks -> SUBSET (Buffers \X Ranks)]
        /\ opened'[r] = opened[r] \cup ({b} \X (Ranks \ {r}))
        /\ \A q \in Ranks \ {r} : opened'[q] = opened[q]
    <2>1. {b} \X (Ranks \ {r}) \subseteq Buffers \X Ranks
      OBVIOUS
    <2>2. QED
      BY <2>1 DEF OpenPeers, InitInv, InitTypes
  <1>4. InitTypes' /\ OnlyMoves(r)
    BY <1>1, <1>2, <1>3 DEF InitInv, InitTypes, OnlyMoves
  <1>5. RankInv(r)'
    <2>1. RankInv(r) /\ ~available[r] /\ \A i \in 1 .. Len(entered[r]) : entered[r][i] # "min"
      BY <1>1, InvByRank, NotYet
    <2>2. {b} \X (Ranks \ {r}) \subseteq opened'[r] /\ opened[r] \subseteq opened'[r]
      BY <1>3
    <2>3. CASE b = "meta"
      BY <1>1, <1>2, <2>1, <2>2, <2>3 DEF RankInv, AtAvailability, SameContract, Verdicts, OpenStep, AfterOpen
    <2>4. CASE b = "data"
      <3>1. {"meta"} \X (Ranks \ {r}) \subseteq opened[r] /\ allocated[r] = Buffers
        BY <1>1, <2>1, <2>4 DEF RankInv, OpenStep
      <3>2. {"meta"} \X (Ranks \ {r}) \subseteq opened'[r]
        BY <2>2, <3>1
      <3>3. QED
        BY <1>1, <1>2, <2>1, <2>2, <2>4, <3>1, <3>2
        DEF RankInv, AtAvailability, SameContract, Verdicts, OpenStep, AfterOpen
    <2>5. QED
      BY <2>3, <2>4 DEF Buffers
  <1>6. QED
    BY <1>1, <1>2, <1>4, <1>5, EarlyStep DEF AfterOpen

LEMMA CompilePreserves ==
  ASSUME InitInv, NEW r \in Ranks, Compile(r)
  PROVE  InitInv'
  <1>1. /\ pc[r] = "compile" /\ ~AtAvailability(r)
        /\ UNCHANGED <<fingerprint, entered, allocated, opened, available, failed>>
    BY DEF Compile, AtAvailability, Verdicts, resourceVars
  <1>2. pc' \in [Ranks -> PCs] /\ pc'[r] = "tensors"
        /\ \A q \in Ranks \ {r} : pc'[q] = pc[q]
    BY DEF Compile, Goto, InitInv, InitTypes, PCs, FailureSteps
  <1>3. InitTypes' /\ OnlyMoves(r)
    BY <1>1, <1>2 DEF InitInv, InitTypes, OnlyMoves
  <1>4. RankInv(r)'
    <2>1. RankInv(r) /\ ~available[r] /\ \A i \in 1 .. Len(entered[r]) : entered[r][i] # "min"
      BY <1>1, InvByRank, NotYet
    <2>2. QED
      BY <1>1, <1>2, <2>1 DEF RankInv, AtAvailability, SameContract, Verdicts, AfterPlan, FailureSteps
  <1>5. QED
    BY <1>1, <1>2, <1>3, <1>4, EarlyStep

LEMMA RegisterPreserves ==
  ASSUME InitInv, NEW r \in Ranks, Register(r)
  PROVE  InitInv'
  <1>1. /\ pc[r] = "tensors" /\ ~AtAvailability(r)
        /\ UNCHANGED <<fingerprint, allocated, opened, failed>>
    BY DEF Register, AtAvailability, Verdicts, resourceVars
  <1>2. /\ entered' \in [Ranks -> Seq({"plan", "gather", "min"})]
        /\ \A q \in Ranks \ {r} : entered'[q] = entered[q]
        /\ Len(entered'[r]) > 0 /\ entered'[r][Len(entered'[r])] = "min"
        /\ \A i \in 1 .. Len(entered'[r]) :
             entered'[r][i] = "min" => i = Len(entered'[r])
    BY <1>1, Entering DEF Register, EnterAvailability, EnterCollective
  <1>3. pc' \in [Ranks -> PCs] /\ pc'[r] = "availabilityWait"
        /\ \A q \in Ranks \ {r} : pc'[q] = pc[q]
    BY DEF Register, EnterAvailability, Goto, InitInv, InitTypes, PCs
  <1>4. available' \in [Ranks -> BOOLEAN]
        /\ \A q \in Ranks \ {r} : available'[q] = available[q]
    BY DEF Register, InitInv, InitTypes
  <1>5. InitTypes' /\ OnlyMoves(r)
    BY <1>1, <1>2, <1>3, <1>4 DEF InitInv, InitTypes, OnlyMoves
  <1>6. /\ SameContract(r) /\ allocated[r] = Buffers
        /\ Buffers \X (Ranks \ {r}) \subseteq opened[r]
    <2>1. /\ SameContract(r) /\ allocated[r] = Buffers
          /\ {"meta"} \X (Ranks \ {r}) \subseteq opened[r]
          /\ {"data"} \X (Ranks \ {r}) \subseteq opened[r]
      BY <1>1 DEF InitInv, Holds, AfterPlan, FailureSteps
    <2>2. QED
      BY <2>1 DEF Buffers
  <1>7. RankInv(r)'
    BY <1>1, <1>2, <1>3, <1>6 DEF RankInv, AtAvailability, SameContract, Verdicts, AfterPlan, FailureSteps
  <1>8. QED
    BY <1>1, <1>3, <1>5, <1>7, EarlyStep

LEMMA FailPreserves ==
  ASSUME InitInv, NEW r \in Ranks, Fail(r)
  PROVE  InitInv'
  <1>1. ~AtAvailability(r)
    BY InitAssumption DEF Fail, AtAvailability, FailureSteps, Verdicts
  <1>2. QED
    BY <1>1, GiveUp DEF Fail, Release, EnterAvailability, Goto, EnterCollective, InitInv, InitTypes

\* A rank that times out in an exchange gives up; one that times out in the
\* reduction ends without a verdict, and no rank was enabled.
LEMMA TimeOutPreserves ==
  ASSUME InitInv, NEW r \in Ranks, TimeOut(r)
  PROVE  InitInv'
  <1>1. CASE pc[r] \in {"planWait", "metaWait", "dataWait"}
    <2>1. ~AtAvailability(r)
      BY <1>1 DEF AtAvailability, Verdicts
    <2>2. QED
      BY <1>1, <2>1, GiveUp
      DEF TimeOut, Release, EnterAvailability, Goto, EnterCollective, InitInv, InitTypes
  <1>2. CASE pc[r] = "availabilityWait"
    <2>1. /\ UNCHANGED <<fingerprint, entered, failed>>
          /\ pc' = [pc EXCEPT ![r] = "crashed"]
          /\ allocated' = [allocated EXCEPT ![r] = {}]
          /\ opened' = [opened EXCEPT ![r] = {}]
          /\ available' = [available EXCEPT ![r] = FALSE]
      BY <1>2 DEF TimeOut, Release, Goto
    <2>2. InitTypes'
      BY <2>1 DEF InitInv, InitTypes, PCs, Verdicts
    <2>3. OnlyMoves(r)
      BY <2>1 DEF OnlyMoves, InitInv, InitTypes
    <2>4. /\ pc'[r] = "crashed" /\ ~available'[r] /\ allocated'[r] = {} /\ opened'[r] = {}
          /\ entered' = entered
      BY <2>1 DEF InitInv, InitTypes
    <2>5. RankInv(r)
      BY InvByRank
    <2>6. RankInv(r)'
      BY <1>2, <2>4, <2>5 DEF RankInv, AtAvailability, AfterPlan, FailureSteps, Verdicts
    <2>7. \A q \in Ranks : pc[q] # "enabled"
      BY EnabledNoTimeOut
    <2>8. EnabledTogether'
      BY <2>3, <2>4, <2>7 DEF EnabledTogether, OnlyMoves
    <2>9. DisabledForAReason'
      <3> SUFFICES ASSUME NEW q \in Ranks, pc'[q] = "disabled"
                   PROVE  \E p \in Ranks : AtAvailability(p)' /\ ~available'[p]
        BY DEF DisabledForAReason
      <3>1. pc[q] = "disabled"
        BY <2>3, <2>4 DEF OnlyMoves
      <3>2. PICK p \in Ranks : AtAvailability(p) /\ ~available[p]
        BY <3>1 DEF InitInv, DisabledForAReason
      <3>3. AtAvailability(p)' /\ ~available'[p]
        BY <2>3, <2>4, <3>2 DEF OnlyMoves, AtAvailability, Verdicts
      <3>4. QED
        BY <3>3
    <2>10. QED
      BY <2>2, <2>3, <2>6, <2>8, <2>9, OthersKeep
  <1>3. QED
    BY <1>1, <1>2 DEF TimeOut

\* The verdict: enabled only with all ranks available, which then find the
\* same; disabled for the sake of a rank that is at the reduction.
LEMMA DecidePreserves ==
  ASSUME InitInv, NEW r \in Ranks, Decide(r)
  PROVE  InitInv'
  <1>1. /\ pc[r] = "availabilityWait" /\ Complete(r)
        /\ UNCHANGED <<fingerprint, entered, available, failed>>
    BY DEF Decide
  <1>2. \A q \in Ranks : AtAvailability(q) /\ Len(entered[q]) = Len(entered[r])
    BY <1>1, CompleteTogether
  <1>3. RankInv(r)
    BY InvByRank
  <1>4. CASE \A q \in Ranks : available[q]
    <2>1. UNCHANGED <<allocated, opened>> /\ pc' = [pc EXCEPT ![r] = "enabled"]
      BY <1>4 DEF Decide, Goto, resourceVars
    <2>2. InitTypes'
      BY <1>1, <2>1 DEF InitInv, InitTypes, PCs, Verdicts
    <2>3. OnlyMoves(r) /\ pc'[r] = "enabled"
      BY <1>1, <2>1 DEF OnlyMoves, InitInv, InitTypes
    <2>4. RankInv(r)'
      BY <1>1, <1>3, <1>4, <2>1, <2>3
      DEF RankInv, AtAvailability, SameContract, AfterPlan, FailureSteps, Verdicts
    <2>5. \A q \in Ranks : pc[q] \in {"availabilityWait", "enabled"}
      <3>1. \A q \in Ranks : pc[q] # "disabled" /\ pc[q] # "crashed"
        BY <1>4 DEF InitInv, DisabledForAReason, AvailableIsReady
      <3>2. QED
        BY <1>2, <3>1 DEF AtAvailability, Verdicts
    <2>6. EnabledTogether'
      BY <1>1, <1>2, <1>4, <2>3, <2>5 DEF EnabledTogether, OnlyMoves
    <2>7. DisabledForAReason'
      BY <2>3, <2>5 DEF DisabledForAReason, OnlyMoves
    <2>8. QED
      BY <2>2, <2>3, <2>4, <2>6, <2>7, OthersKeep
  <1>5. CASE ~\A q \in Ranks : available[q]
    <2>1. /\ allocated' = [allocated EXCEPT ![r] = {}]
          /\ opened' = [opened EXCEPT ![r] = {}]
          /\ pc' = [pc EXCEPT ![r] = "disabled"]
      BY <1>5 DEF Decide, Goto, Release
    <2>2. InitTypes'
      BY <1>1, <2>1 DEF InitInv, InitTypes, PCs, Verdicts
    <2>3. /\ OnlyMoves(r) /\ pc'[r] = "disabled"
          /\ allocated'[r] = {} /\ opened'[r] = {}
      BY <1>1, <2>1 DEF OnlyMoves, InitInv, InitTypes
    <2>4. RankInv(r)'
      BY <1>1, <1>3, <2>3 DEF RankInv, AtAvailability, SameContract, AfterPlan, FailureSteps, Verdicts
    <2>5. \A q \in Ranks : pc[q] # "enabled"
      BY <1>5 DEF InitInv, EnabledTogether
    <2>6. EnabledTogether'
      BY <2>3, <2>5 DEF EnabledTogether, OnlyMoves
    <2>7. DisabledForAReason'
      <3>1. PICK p \in Ranks : ~available[p]
        BY <1>5
      <3>2. AtAvailability(p)' /\ ~available'[p]
        BY <1>1, <1>2, <2>3, <3>1 DEF OnlyMoves, AtAvailability, Verdicts
      <3>3. QED
        BY <3>2 DEF DisabledForAReason
    <2>8. QED
      BY <2>2, <2>3, <2>4, <2>6, <2>7, OthersKeep
  <1>6. QED
    BY <1>4, <1>5

\* The invariant holds in every run of the construction.
THEOREM InitInvariance == Spec => []InitInv
  <1>1. Init => InitInv
    <2> SUFFICES ASSUME Init PROVE InitInv
      OBVIOUS
    <2>1. InitTypes
      BY DEF Init, InitTypes, PCs
    <2>2. \A r \in Ranks : /\ pc[r] = "start" /\ entered[r] = <<>> /\ ~available[r]
      BY DEF Init
    <2>3. \A r \in Ranks : RankInv(r)
      BY <2>2 DEF RankInv, AtAvailability, AfterPlan, FailureSteps, Verdicts
    <2>4. EnabledTogether /\ DisabledForAReason
      BY <2>2 DEF EnabledTogether, DisabledForAReason
    <2>5. QED
      BY <2>1, <2>3, <2>4, InvByRank
  <1>2. InitInv /\ [Next]_vars => InitInv'
    <2> SUFFICES ASSUME InitInv, [Next]_vars PROVE InitInv'
      OBVIOUS
    <2>1. CASE UNCHANGED vars
      BY <2>1 DEF InitInv, InitTypes, MinIsLast, Holds, AvailableIsReady, EnabledTogether,
                  DisabledForAReason, NothingLeft, AtAvailability, SameContract, vars
    <2>2. QED
      BY <2>1, StartPreserves, ComparePlansPreserves, AllocatePreserves, GatheredPreserves,
         OpenPeersPreserves, CompilePreserves, RegisterPreserves, FailPreserves,
         TimeOutPreserves, DecidePreserves DEF Next, RankStep, Finished
  <1>3. QED
    BY <1>1, <1>2, PTL DEF Spec

\* A rank may use the communicator only when every peer's buffers are mapped,
\* alive and under the same contract, and no peer has been told otherwise.
THEOREM EnabledMappedHolds == Spec => []EnabledMapped
  <1>1. InitInv => EnabledMapped
    <2> SUFFICES ASSUME InitInv, NEW r \in Ranks, NEW q \in Ranks, pc[r] = "enabled"
                 PROVE  /\ pc[q] \notin {"disabled", "crashed"}
                        /\ fingerprint[q] = fingerprint[r]
                        /\ allocated[q] = Buffers
                        /\ q # r => Buffers \X {q} \subseteq opened[r]
      BY DEF EnabledMapped
    <2>1. /\ available[q] /\ available[r]
          /\ pc[q] \in {"availabilityWait", "enabled"}
      BY DEF InitInv, EnabledTogether
    <2>2. /\ allocated[q] = Buffers /\ SameContract(r)
          /\ Buffers \X (Ranks \ {r}) \subseteq opened[r]
      BY <2>1 DEF InitInv, AvailableIsReady
    <2>3. q # r => Buffers \X {q} \subseteq Buffers \X (Ranks \ {r})
      OBVIOUS
    <2>4. QED
      BY <2>1, <2>2, <2>3 DEF SameContract
  <1>2. QED
    BY <1>1, InitInvariance, PTL

\* A rank without the communicator holds no device memory and no mapping.
THEOREM NothingLeftHolds == Spec => []NothingLeft
  <1>1. InitInv => NothingLeft
    BY DEF InitInv
  <1>2. QED
    BY <1>1, InitInvariance, PTL
=============================================================================
