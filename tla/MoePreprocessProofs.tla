------------------------ MODULE MoePreprocessProofs ------------------------
(***************************************************************************)
(* The rows of the grouped GEMM: no two slots share one, every block has   *)
(* one expert, and every token comes back with what its own experts made   *)
(* of it.  For every number of tokens, experts and rows per block, and     *)
(* for every order the threads run in.                                     *)
(*                                                                         *)
(* The argument goes through the first row of each expert, Start(ids, e):  *)
(* the sum of the aligned counts of the experts before it.  The counting   *)
(* kernels find the counts, the scan finds the sums (after round k a       *)
(* thread has added up 2^k elements), each expert's cursor runs through    *)
(* the rows from Start(ids, e) on, and the sums leave enough of them.      *)
(***************************************************************************)
EXTENDS MoePreprocess, SumLemmas

----------------------------------------------------------------------------
(* Powers of two, and the number of rounds.                                *)

\* 1 << n doubles with every n.
LEMMA TwoToDoubles ==
  /\ TwoTo \in [Nat -> Nat]
  /\ TwoTo[0] = 1
  /\ \A n \in Nat : TwoTo[n + 1] = 2 * TwoTo[n]
  <1> DEFINE Step(g) == [n \in Nat |-> IF n = 0 THEN 1 ELSE 2 * g[n - 1]]
             double == [n \in Nat |-> [v \in Nat |-> 2 * v]]
  <1>1. double \in [Nat -> [Nat -> Nat]] /\ 1 \in Nat
    OBVIOUS
  <1>2. PICK g \in [Nat -> Nat] : g[0] = 1 /\ \A n \in Nat : g[n + 1] = double[n][g[n]]
    <2> HIDE DEF double
    <2>1. \E g \in [Nat -> Nat] : IsRecursion(g, 1, double)
      BY <1>1, RecursionExists
    <2>2. QED
      BY <2>1 DEF IsRecursion
  <1>3. \A n \in Nat : g[n + 1] = 2 * g[n]
    BY <1>2
  <1>4. ASSUME NEW n \in Nat PROVE g[n] = Step(g)[n]
    <2>1. CASE n = 0
      BY <1>2, <2>1
    <2>2. CASE n # 0
      <3>1. n - 1 \in Nat /\ (n - 1) + 1 = n
        BY <2>2
      <3>2. QED
        BY <1>3, <2>2, <3>1
    <2>3. QED
      BY <2>1, <2>2
  <1>5. g = Step(g)
    BY <1>4
  <1>6. TwoTo = Step(TwoTo)
    BY <1>5 DEF TwoTo
  <1> DEFINE T == {n \in Nat : TwoTo[n] = g[n]}
  <1>7. 0 \in T
    BY <1>2, <1>6
  <1>8. ASSUME NEW n \in Nat, n \in T PROVE n + 1 \in T
    <2>1. TwoTo[n + 1] = 2 * TwoTo[n]
      BY <1>6
    <2>2. QED
      BY <1>3, <1>8, <2>1
  <1>9. \A n \in Nat : n \in T
    <2> HIDE DEF T
    <2> QED BY <1>7, <1>8, SetInduction
  <1>10. TwoTo = g
    <2>1. TwoTo = [n \in Nat |-> TwoTo[n]]
      BY <1>6
    <2>2. QED
      BY <1>9, <2>1
  <1>11. QED
    BY <1>2, <1>3, <1>10

\* A power of two is at least 1 and more than its exponent.
LEMMA TwoToGrows == \A n \in Nat : TwoTo[n] \in Nat /\ TwoTo[n] >= n + 1
  <1> DEFINE T == {n \in Nat : TwoTo[n] \in Nat /\ TwoTo[n] >= n + 1}
  <1>1. 0 \in T
    BY TwoToDoubles
  <1>2. ASSUME NEW n \in Nat, n \in T PROVE n + 1 \in T
    BY <1>2, TwoToDoubles
  <1>3. \A n \in Nat : n \in T
    <2> HIDE DEF T
    <2> QED BY <1>1, <1>2, SetInduction
  <1>4. QED
    BY <1>3

\* The rounds are enough for one thread per expert.
LEMMA RoundsSuffice ==
  /\ NumExperts \in Nat \ {0}
  /\ Rounds \in Nat
  /\ TwoTo[Rounds] >= NumExperts
  /\ \A t \in Threads : t \in Nat /\ t + 1 <= TwoTo[Rounds]
  /\ Experts \subseteq Threads
  <1> DEFINE Enough == {k \in 0 .. NumExperts : TwoTo[k] >= NumExperts}
  <1>1. NumExperts \in Nat \ {0} /\ \A k \in 0 .. NumExperts : k \in Nat
    BY MoeAssumption
  <1>2. NumExperts \in Enough
    BY <1>1, TwoToGrows
  <1>3. PICK k \in Enough : \A j \in Enough : k <= j
    <2>1. Enough \subseteq Nat /\ Enough # {}
      BY <1>1, <1>2
    <2> HIDE DEF Enough
    <2>2. QED
      BY <2>1, LeastNumber
  <1>4. TwoTo[k] >= NumExperts /\ \A j \in 0 .. k - 1 : TwoTo[j] < NumExperts
    <2>1. \A j \in 0 .. k - 1 : j \in 0 .. NumExperts /\ ~(k <= j) /\ TwoTo[j] \in Nat
      BY <1>1, TwoToGrows
    <2>2. QED
      BY <1>1, <1>3, <2>1
  <1>5. Rounds \in 0 .. NumExperts /\ TwoTo[Rounds] >= NumExperts
    BY <1>4 DEF Rounds
  <1>6. TwoTo[Rounds] \in Nat
    BY <1>1, <1>5, TwoToGrows
  <1>7. QED
    BY <1>1, <1>5, <1>6 DEF Threads, Experts

----------------------------------------------------------------------------
(* The counts, and the first row of each expert.                           *)

\* A router's choice for at least one slot.
IsCall(ids) == \E n \in Nat \ {0} : ids \in [0 .. n - 1 -> Experts \cup {None}]

\* The slots of an expert, and how many they are.
SlotsAt(ids, e) == {s \in DOMAIN ids : ids[s] = e}
TotalOf(ids, e) == Cardinality(SlotsAt(ids, e))

\* What the scan adds up: the rows each expert is given.
Weight(ids) == [t \in Threads |-> IF t \in Experts THEN Aligned(TotalOf(ids, t)) ELSE 0]

\* The rows of the experts before t.
Start(ids, t) == SumOf(Weight(ids), 0 .. t - 1)

\* The slots of a call are numbered from 0, and each set of them can be counted.
LEMMA SlotsAreFinite ==
  ASSUME NEW ids, IsCall(ids)
  PROVE  /\ IsFiniteSet(DOMAIN ids)
         /\ Cardinality(DOMAIN ids) \in Nat \ {0}
         /\ DOMAIN ids = 0 .. Cardinality(DOMAIN ids) - 1
         /\ \A U \in SUBSET DOMAIN ids :
              IsFiniteSet(U) /\ Cardinality(U) \in Nat /\ Cardinality(U) <= Cardinality(DOMAIN ids)
  <1>1. PICK n \in Nat \ {0} : ids \in [0 .. n - 1 -> Experts \cup {None}]
    BY DEF IsCall
  <1>2. DOMAIN ids = 0 .. n - 1
    BY <1>1
  <1>3. IsFiniteSet(0 .. n - 1) /\ Cardinality(0 .. n - 1) = n
    BY FS_Interval
  <1>4. \A U \in SUBSET DOMAIN ids :
          IsFiniteSet(U) /\ Cardinality(U) \in Nat /\ Cardinality(U) <= Cardinality(DOMAIN ids)
    BY <1>2, <1>3, FS_Subset, FS_CardinalityType
  <1>5. QED
    BY <1>2, <1>3, <1>4

\* Aligned rounds up to whole blocks.
LEMMA AlignedIs ==
  ASSUME NEW n \in Nat
  PROVE  /\ Aligned(n) \in Nat
         /\ n <= Aligned(n) /\ Aligned(n) <= n + (BlockM - 1)
         /\ \E k \in Nat : Aligned(n) = k * BlockM
  <1>1. BlockM \in Nat \ {0}
    BY MoeAssumption
  <1> DEFINE q == (n + BlockM - 1) \div BlockM
  <1>2. q \in Nat
    BY <1>1
  <1>3. n <= q * BlockM /\ q * BlockM <= n + (BlockM - 1)
    BY <1>1
  <1>4. Aligned(n) = q * BlockM
    BY DEF Aligned
  <1> HIDE DEF q
  <1>5. q * BlockM \in Nat
    BY <1>1, <1>2
  <1>6. QED
    BY <1>2, <1>3, <1>4, <1>5

\* What an expert is given is room for its slots, in whole blocks.
LEMMA WeightIs ==
  ASSUME NEW ids, IsCall(ids)
  PROVE  /\ Weight(ids) \in [Threads -> Nat]
         /\ \A e \in Experts :
              /\ TotalOf(ids, e) \in Nat /\ TotalOf(ids, e) <= Cardinality(DOMAIN ids)
              /\ Weight(ids)[e] = Aligned(TotalOf(ids, e))
              /\ TotalOf(ids, e) <= Weight(ids)[e]
              /\ Weight(ids)[e] <= TotalOf(ids, e) + (BlockM - 1)
         /\ \A t \in Threads : \E k \in Nat : Weight(ids)[t] = k * BlockM
  <1>1. \A e : SlotsAt(ids, e) \in SUBSET DOMAIN ids
    BY DEF SlotsAt
  <1>2. \A e : TotalOf(ids, e) \in Nat /\ TotalOf(ids, e) <= Cardinality(DOMAIN ids)
    BY <1>1, SlotsAreFinite DEF TotalOf
  <1>3. \A e : Aligned(TotalOf(ids, e)) \in Nat
    BY <1>2, AlignedIs
  <1>4. BlockM \in Nat /\ 0 = 0 * BlockM
    BY MoeAssumption
  <1>5. ASSUME NEW t \in Threads PROVE \E k \in Nat : Weight(ids)[t] = k * BlockM
    <2>1. CASE t \in Experts
      BY <1>2, <2>1, AlignedIs DEF Weight
    <2>2. CASE t \notin Experts
      BY <1>4, <2>2 DEF Weight
    <2>3. QED
      BY <2>1, <2>2
  <1>6. Weight(ids) \in [Threads -> Nat]
    BY <1>3 DEF Weight
  <1>7. \A e \in Experts : Weight(ids)[e] = Aligned(TotalOf(ids, e))
    BY RoundsSuffice DEF Weight
  <1>8. QED
    BY <1>2, <1>5, <1>6, <1>7, AlignedIs

\* The first rows are sums: each expert begins where the rows of the one before end.
LEMMA StartIs ==
  ASSUME NEW ids, IsCall(ids)
  PROVE  /\ Start(ids, 0) = 0
         /\ \A t \in Threads : Start(ids, t + 1) = Start(ids, t) + Weight(ids)[t]
         /\ \A t \in 0 .. TwoTo[Rounds] : Start(ids, t) \in Nat
  <1> DEFINE W == Weight(ids)
  <1>1. W \in [Threads -> Nat]
    BY WeightIs
  <1> HIDE DEF W
  <1>2. SumOf(W, {}) = 0 /\ 0 .. 0 - 1 = {}
    BY SumEmpty
  <1>3. ASSUME NEW t \in Threads PROVE SumOf(W, 0 .. (t + 1) - 1) = W[t] + SumOf(W, 0 .. t - 1)
    <2>0. TwoTo[Rounds] \in Nat /\ t \in Nat /\ t + 1 <= TwoTo[Rounds]
      BY RoundsSuffice, TwoToGrows
    <2>1. 0 .. (t + 1) - 1 = 0 .. t /\ (0 .. t) \ {t} = 0 .. t - 1
          /\ t \in 0 .. t /\ 0 .. t \subseteq Threads
      BY <2>0 DEF Threads
    <2>2. IsFiniteSet(0 .. t)
      BY <2>0, FS_Interval
    <2>3. \A x \in 0 .. t : W[x] \in Int
      BY <1>1, <2>1
    <2>4. SumOf(W, 0 .. t) = W[t] + SumOf(W, (0 .. t) \ {t})
      BY <2>1, <2>2, <2>3, SumAdd
    <2>5. QED
      BY <2>1, <2>4
  <1> DEFINE T == {t \in Nat : t <= TwoTo[Rounds] => SumOf(W, 0 .. t - 1) \in Nat}
  <1>4. 0 \in T
    BY <1>2
  <1>5. ASSUME NEW t \in Nat, t \in T PROVE t + 1 \in T
    <2> SUFFICES ASSUME t + 1 <= TwoTo[Rounds] PROVE SumOf(W, 0 .. (t + 1) - 1) \in Nat
      OBVIOUS
    <2>1. TwoTo[Rounds] \in Nat
      BY RoundsSuffice, TwoToGrows
    <2>2. t \in Threads /\ t <= TwoTo[Rounds]
      BY <2>1 DEF Threads
    <2>3. W[t] \in Nat /\ SumOf(W, 0 .. t - 1) \in Nat
      BY <1>1, <1>5, <2>2
    <2>4. QED
      BY <1>3, <2>2, <2>3
  <1>6. \A t \in Nat : t \in T
    <2> HIDE DEF T
    <2> QED BY <1>4, <1>5, SetInduction
  <1>7. \A t \in Threads : t \in 0 .. TwoTo[Rounds] /\ TwoTo[Rounds] \in Nat
    BY RoundsSuffice, TwoToGrows DEF Threads
  <1>8. \A t \in Threads : Start(ids, t + 1) = Start(ids, t) + W[t]
    <2> SUFFICES ASSUME NEW t \in Threads PROVE Start(ids, t + 1) = Start(ids, t) + W[t]
      OBVIOUS
    <2>1. W[t] \in Nat /\ SumOf(W, 0 .. t - 1) \in Nat
      BY <1>1, <1>6, <1>7
    <2>2. SumOf(W, 0 .. (t + 1) - 1) = W[t] + SumOf(W, 0 .. t - 1)
      BY <1>3
    <2>3. QED
      BY <2>1, <2>2 DEF Start, W
  <1>9. QED
    BY <1>2, <1>6, <1>8 DEF Start, W

\* The first rows are in the order of the experts.
LEMMA StartGrows ==
  ASSUME NEW ids, IsCall(ids), NEW a \in Nat
  PROVE  \A b \in 0 .. TwoTo[Rounds] : a <= b => Start(ids, a) <= Start(ids, b)
  <1>1. TwoTo[Rounds] \in Nat
    BY RoundsSuffice, TwoToGrows
  <1> DEFINE T == {n \in Nat : a + n <= TwoTo[Rounds] => Start(ids, a) <= Start(ids, a + n)}
  <1>2. 0 \in T
    <2>1. a <= TwoTo[Rounds] => Start(ids, a) \in Nat
      BY <1>1, StartIs
    <2>2. a + 0 = a
      OBVIOUS
    <2>3. QED
      BY <2>1, <2>2
  <1>3. ASSUME NEW n \in Nat, n \in T PROVE n + 1 \in T
    <2> SUFFICES ASSUME a + (n + 1) <= TwoTo[Rounds] PROVE Start(ids, a) <= Start(ids, a + (n + 1))
      OBVIOUS
    <2>1. a + n \in Threads /\ (a + n) + 1 = a + (n + 1) /\ a + n <= TwoTo[Rounds]
      BY <1>1 DEF Threads
    <2>2. Start(ids, a + (n + 1)) = Start(ids, a + n) + Weight(ids)[a + n]
      BY <2>1, StartIs
    <2>3. Weight(ids)[a + n] \in Nat
      BY <2>1, WeightIs
    <2>4. Start(ids, a) \in Nat /\ Start(ids, a + n) \in Nat
      BY <1>1, <2>1, StartIs
    <2>5. QED
      BY <1>3, <2>1, <2>2, <2>3, <2>4
  <1>4. \A n \in Nat : n \in T
    <2> HIDE DEF T
    <2> QED BY <1>2, <1>3, SetInduction
  <1>5. ASSUME NEW b \in 0 .. TwoTo[Rounds], a <= b PROVE Start(ids, a) <= Start(ids, b)
    <2>1. b - a \in Nat /\ a + (b - a) = b /\ b <= TwoTo[Rounds]
      BY <1>1, <1>5
    <2>2. QED
      BY <1>4, <2>1
  <1>6. QED
    BY <1>5

\* Every expert begins with a block.
LEMMA StartIsWhole ==
  ASSUME NEW ids, IsCall(ids)
  PROVE  \A t \in 0 .. TwoTo[Rounds] : \E k \in Nat : Start(ids, t) = k * BlockM
  <1>1. TwoTo[Rounds] \in Nat /\ BlockM \in Nat
    BY RoundsSuffice, TwoToGrows, MoeAssumption
  <1> DEFINE T == {t \in Nat : t <= TwoTo[Rounds] => \E k \in Nat : Start(ids, t) = k * BlockM}
  <1>2. 0 \in T
    <2>1. 0 = 0 * BlockM
      BY <1>1
    <2>2. QED
      BY <2>1, StartIs
  <1>3. ASSUME NEW t \in Nat, t \in T PROVE t + 1 \in T
    <2> SUFFICES ASSUME t + 1 <= TwoTo[Rounds] PROVE \E k \in Nat : Start(ids, t + 1) = k * BlockM
      OBVIOUS
    <2>1. t \in Threads /\ t <= TwoTo[Rounds]
      BY <1>1 DEF Threads
    <2>2. PICK k \in Nat : Start(ids, t) = k * BlockM
      BY <1>3, <2>1
    <2>3. PICK m \in Nat : Weight(ids)[t] = m * BlockM
      BY <2>1, WeightIs
    <2>4. Start(ids, t + 1) = k * BlockM + m * BlockM
      BY <2>1, <2>2, <2>3, StartIs
    <2>5. k * BlockM + m * BlockM = (k + m) * BlockM /\ k + m \in Nat
      BY <1>1
    <2>6. QED
      BY <2>4, <2>5
  <1>4. \A t \in Nat : t \in T
    <2> HIDE DEF T
    <2> QED BY <1>2, <1>3, SetInduction
  <1>5. QED
    BY <1>1, <1>4

\* The slots of the experts before e.
Below(ids, e) == {s \in DOMAIN ids : ids[s] \in 0 .. e - 1}

\* The buffers have the rows for every expert, before any count is known.
LEMMA RoomForAll ==
  ASSUME NEW ids, IsCall(ids)
  PROVE  Start(ids, NumExperts) <= AllTokens(Cardinality(DOMAIN ids))
  <1> DEFINE N == Cardinality(DOMAIN ids)
             P == BlockM - 1
  <1>1. N \in Nat /\ P \in Nat /\ NumExperts \in Nat
    BY SlotsAreFinite, MoeAssumption
  <1>2. \A e : Below(ids, e) \in SUBSET DOMAIN ids /\ SlotsAt(ids, e) \in SUBSET DOMAIN ids
    BY DEF Below, SlotsAt
  <1>3. \A e : /\ IsFiniteSet(Below(ids, e)) /\ Cardinality(Below(ids, e)) \in Nat
               /\ Cardinality(Below(ids, e)) <= N
    BY <1>2, SlotsAreFinite
  <1>4. \A e : IsFiniteSet(SlotsAt(ids, e)) /\ TotalOf(ids, e) \in Nat
    BY <1>2, SlotsAreFinite DEF TotalOf
  <1> DEFINE T == {e \in Nat : e <= NumExperts =>
                     Start(ids, e) <= Cardinality(Below(ids, e)) + e * P}
  <1>5. 0 \in T
    <2>1. 0 * P = 0
      BY <1>1
    <2>2. QED
      BY <1>3, <2>1, StartIs
  <1>6. ASSUME NEW e \in Nat, e \in T PROVE e + 1 \in T
    <2> SUFFICES ASSUME e + 1 <= NumExperts
                 PROVE  Start(ids, e + 1) <= Cardinality(Below(ids, e + 1)) + (e + 1) * P
      OBVIOUS
    <2>1. e \in Experts /\ e \in Threads /\ e <= NumExperts /\ e \in 0 .. TwoTo[Rounds]
      BY <1>1, RoundsSuffice, TwoToGrows DEF Experts
    <2>2. Below(ids, e + 1) = Below(ids, e) \cup SlotsAt(ids, e)
          /\ Below(ids, e) \cap SlotsAt(ids, e) = {}
      <3>1. \A x : x \in 0 .. (e + 1) - 1 <=> x \in 0 .. e - 1 \/ x = e
        OBVIOUS
      <3>2. e \notin 0 .. e - 1
        OBVIOUS
      <3>3. QED
        BY <3>1, <3>2 DEF Below, SlotsAt
    <2>3. Cardinality(Below(ids, e + 1)) = Cardinality(Below(ids, e)) + TotalOf(ids, e)
      <3>1. Cardinality({}) = 0
        BY FS_EmptySet
      <3>2. Cardinality(Below(ids, e) \cup SlotsAt(ids, e)) =
              Cardinality(Below(ids, e)) + TotalOf(ids, e)
                - Cardinality(Below(ids, e) \cap SlotsAt(ids, e))
        BY <1>3, <1>4, FS_Union DEF TotalOf
      <3>3. Cardinality(Below(ids, e) \cap SlotsAt(ids, e)) = 0
        BY <2>2, <3>1
      <3>4. Cardinality(Below(ids, e + 1)) = Cardinality(Below(ids, e) \cup SlotsAt(ids, e))
        BY <2>2
      <3>5. Cardinality(Below(ids, e)) \in Nat /\ TotalOf(ids, e) \in Nat
        BY <1>3, <1>4
      <3>6. QED
        BY <3>2, <3>3, <3>4, <3>5
    <2>4. Start(ids, e + 1) = Start(ids, e) + Weight(ids)[e] /\ Start(ids, e) \in Nat
      BY <2>1, StartIs
    <2>5. Weight(ids)[e] \in Nat /\ Weight(ids)[e] <= TotalOf(ids, e) + P
      BY <2>1, WeightIs
    <2>6. Start(ids, e) <= Cardinality(Below(ids, e)) + e * P
      BY <1>6, <2>1
    <2>7. (e + 1) * P = e * P + P /\ e * P \in Nat
      BY <1>1
    <2> HIDE DEF P
    <2>8. QED
      BY <1>1, <1>3, <1>4, <2>3, <2>4, <2>5, <2>6, <2>7
  <1>7. \A e \in Nat : e \in T
    <2> HIDE DEF T
    <2> QED BY <1>5, <1>6, SetInduction
  <1>8. Start(ids, NumExperts) <= Cardinality(Below(ids, NumExperts)) + NumExperts * P
    BY <1>1, <1>7
  <1>9. NumExperts * P \in Nat
    BY <1>1
  <1>10. N + NumExperts * P \in Nat /\ N + NumExperts * P <= Aligned(N + NumExperts * P)
         /\ Aligned(N + NumExperts * P) \in Nat
    BY <1>1, <1>9, AlignedIs
  <1>11. Start(ids, NumExperts) \in Nat
    BY RoundsSuffice, TwoToGrows, StartIs
  <1>12. AllTokens(N) = Aligned(N + NumExperts * P)
    BY DEF AllTokens
  <1> HIDE DEF N, P
  <1>13. Start(ids, NumExperts) <= AllTokens(N)
    BY <1>1, <1>3, <1>8, <1>9, <1>10, <1>11, <1>12
  <1>14. QED
    BY <1>13 DEF N

----------------------------------------------------------------------------
(* The inductive invariant.                                                *)

Scans == {"count_prefix", "prefix"}
Placing == {"compact", "combine"}

\* The buffers hold values of their kinds.
BufferTypes ==
  /\ IsCall(topkIds)
  /\ kernel \in {"start", "count"} \cup Scans \cup Placing
  /\ todo \subseteq Slots
  /\ local \in [CountBlocks -> [Experts -> Nat]]
  /\ counts \in [Experts -> Int]
  /\ at \in [Threads -> 0 .. LastStep]
  /\ prefix \in [Threads -> Int]
  /\ addend \in [Threads -> Int]
  /\ cursor \in [Experts -> Int]
  /\ mIndices \in [Rows -> Experts \cup {Junk}]
  /\ src2dst \in [Slots -> Rows \cup {None, Junk}]
  /\ rows \in [Rows -> Tokens \cup {Junk}]
  /\ output = [t \in Tokens |-> output[t]]

\* The slots of an expert that a block has counted, and those that blocks that have
\* ended have added to the global counts.
Counted(b, e) == {s \in Slots \ todo : s \div SlotsPerBlock = b /\ topkIds[s] = e}
Flushed(e) == {s \in Slots : s \div SlotsPerBlock \in ended /\ topkIds[s] = e}

\* No slot is counted twice, and none is left out.
CountInv ==
  /\ kernel = "start" =>
       todo = {} /\ ended = {} /\ \A b \in CountBlocks, e \in Experts : local[b][e] = 0
  /\ kernel \in {"count", "count_prefix"} =>
       \A b \in CountBlocks, e \in Experts : local[b][e] = Cardinality(Counted(b, e))
  /\ kernel = "count" =>
       /\ ended \subseteq CountBlocks
       /\ \A s \in todo : s \div SlotsPerBlock \notin ended
       /\ \A e \in Experts : counts[e] = Cardinality(Flushed(e))
  /\ kernel = "count_prefix" => OneCountBlock
  /\ kernel = "prefix" => todo = {} /\ \A e \in Experts : counts[e] = TotalOf(topkIds, e)
  /\ kernel \in Scans => ended = {}

\* What thread t has added up after k rounds: the 2^k elements up to its own.
From(t, k) == IF TwoTo[k] <= t THEN t + 1 - TwoTo[k] ELSE 0
Partial(ids, t, k) == Start(ids, t + 1) - Start(ids, From(t, k))

\* What it reads in round k.
LeftPart(ids, t, k) ==
  IF t >= TwoTo[k - 1] THEN Partial(ids, t - TwoTo[k - 1], k - 1) ELSE 0

\* The rounds that are done after that many steps.
Level(steps) == (steps - 1) \div 2

\* The barriers keep the threads within one step of each other, so that what a thread
\* reads is of the round it is in.
ScanInv ==
  /\ kernel \in {"start", "count"} \/ (todo # {} /\ kernel = "count_prefix") =>
       \A t \in Threads : at[t] = 0
  /\ kernel \in Scans =>
       /\ \A t, u \in Threads : at[u] <= at[t] + 1
       /\ \A t \in Threads : at[t] >= 1 => prefix[t] = Partial(topkIds, t, Level(at[t]))
       /\ \A t \in Threads, k \in 1 .. Rounds :
            at[t] = 2 * k => addend[t] = LeftPart(topkIds, t, k)

\* The labels of the rows that complete an expert's last block, and of those no
\* expert has.
PadsLabelled(e) ==
  \A r \in Rows :
    Start(topkIds, e) + TotalOf(topkIds, e) <= r /\ r < Start(topkIds, e + 1) => mIndices[r] = e
RestLabelled == \A r \in Rows : Start(topkIds, NumExperts) <= r => mIndices[r] = NumExperts - 1

\* Each expert's first row and labels are there once its thread has published them.
PublishInv ==
  kernel \in Scans =>
    /\ RestLabelled
    /\ \A e \in Experts :
         at[e] = LastStep => cursor[e] = Start(topkIds, e) /\ PadsLabelled(e)

\* The slots of an expert that have taken a row.
Placed(e) == {s \in Slots \ todo : topkIds[s] = e}

\* A slot that has been placed has a row that its expert's cursor has passed, or none.
SlotPlaced(s) ==
  /\ IsLocal(s) =>
       /\ src2dst[s] \in Rows
       /\ Start(topkIds, topkIds[s]) <= src2dst[s] /\ src2dst[s] < cursor[topkIds[s]]
  /\ ~IsLocal(s) => src2dst[s] = None

\* The cursors have passed one row for each slot placed, and each carries the label.
PlaceInv ==
  kernel \in Placing =>
    /\ kernel = "combine" => todo = {}
    /\ RestLabelled
    /\ \A e \in Experts :
         /\ PadsLabelled(e)
         /\ cursor[e] = Start(topkIds, e) + Cardinality(Placed(e))
         /\ \A r \in Rows : Start(topkIds, e) <= r /\ r < cursor[e] => mIndices[r] = e
    /\ \A s \in Slots \ todo : SlotPlaced(s)
    /\ \A s, u \in Slots \ todo :
         s # u /\ IsLocal(s) /\ IsLocal(u) => src2dst[s] # src2dst[u]

\* The rows of a token carry its data, and its result is made of them.
Copied(token) ==
  \A s \in SlotsOf(token) : s \notin todo /\ (src2dst[s] \in Rows => rows[src2dst[s]] = token)
Combined(token) ==
  output[token] = [s \in {u \in SlotsOf(token) : IsLocal(u)} |-> <<token, topkIds[s]>>]

CopyInv ==
  /\ kernel \in Placing => ended \subseteq Tokens
  /\ kernel = "compact" => \A token \in ended : Copied(token)
  /\ kernel = "combine" =>
       (\A token \in Tokens : Copied(token)) /\ \A token \in ended : Combined(token)

MoeInv ==
  /\ BufferTypes
  /\ CountInv
  /\ ScanInv
  /\ PublishInv
  /\ PlaceInv
  /\ CopyInv

----------------------------------------------------------------------------
(* What does not change.                                                   *)

\* The slots, tokens and rows of a call stay the same.
LEMMA SameCall ==
  ASSUME topkIds' = topkIds
  PROVE  /\ Slots' = Slots /\ Tokens' = Tokens /\ CountBlocks' = CountBlocks /\ Rows' = Rows
         /\ OneCountBlock' <=> OneCountBlock
         /\ \A s : IsLocal(s)' <=> IsLocal(s)
         /\ \A token : SlotsOf(token)' = SlotsOf(token)
  BY DEF Slots, Tokens, CountBlocks, Rows, OneCountBlock, IsLocal, SlotsOf

LEMMA CountFrame ==
  ASSUME CountInv, UNCHANGED <<topkIds, kernel, todo, ended, local, counts>>
  PROVE  CountInv'
  BY SameCall DEF CountInv, Counted, Flushed

LEMMA ScanFrame ==
  ASSUME ScanInv, UNCHANGED <<topkIds, kernel, todo, at, prefix, addend>>
  PROVE  ScanInv'
  BY DEF ScanInv

LEMMA PublishFrame ==
  ASSUME PublishInv, UNCHANGED <<topkIds, kernel, at, cursor, mIndices>>
  PROVE  PublishInv'
  BY SameCall DEF PublishInv, RestLabelled, PadsLabelled

\* Before the rows are placed nothing is said of them.
LEMMA NotPlacing ==
  ASSUME kernel' \notin Placing
  PROVE  PlaceInv' /\ CopyInv'
  BY DEF PlaceInv, CopyInv, Placing

\* Once they are, nothing more is said of the counts and the scan.
LEMMA PastScan ==
  ASSUME kernel' \in Placing
  PROVE  CountInv' /\ ScanInv' /\ PublishInv'
  BY DEF CountInv, ScanInv, PublishInv, Placing, Scans

\* The blocks that count are those of the slots.
LEMMA BlockOfSlot ==
  /\ \A s \in Slots : s \div SlotsPerBlock \in CountBlocks
  /\ \A s \in Slots : s \div TopK \in Tokens
  BY DEF CountBlocks, Tokens

----------------------------------------------------------------------------
(* The counting kernels.                                                   *)

\* A call begins with nothing counted.
LEMMA InitKeeps == Init => MoeInv
  <1> SUFFICES ASSUME Init PROVE MoeInv
    OBVIOUS
  <1>1. kernel = "start"
    BY DEF Init
  <1>2. IsCall(topkIds)
    <2>1. PICK tokens \in 1 .. MaxTokens : topkIds \in RouterChoices(tokens)
      BY DEF Init
    <2>2. tokens \in Nat \ {0} /\ TopK \in Nat \ {0}
      BY <2>1, MoeAssumption
    <2>3. tokens * TopK \in Nat \ {0}
      BY <2>2
    <2>4. topkIds \in [0 .. tokens * TopK - 1 -> Experts \cup {None}]
      BY <2>1 DEF RouterChoices
    <2>5. QED
      BY <2>3, <2>4 DEF IsCall
  <1>3. Rounds \in Nat /\ 0 \in 0 .. LastStep
    BY RoundsSuffice DEF LastStep
  <1>4. BufferTypes
    BY <1>1, <1>2, <1>3 DEF Init, BufferTypes, Junk
  <1>5. CountInv /\ ScanInv
    BY <1>1 DEF Init, CountInv, ScanInv, Scans
  <1>6. PublishInv /\ PlaceInv /\ CopyInv
    BY <1>1 DEF PublishInv, PlaceInv, CopyInv, Scans, Placing
  <1>7. QED
    BY <1>4, <1>5, <1>6 DEF MoeInv

\* Nothing is counted yet when the counts are cleared.
LEMMA ClearKeeps ==
  ASSUME MoeInv, Clear
  PROVE  MoeInv'
  <1>1. /\ kernel = "start" /\ kernel' = "count" /\ todo' = Slots /\ topkIds' = topkIds
        /\ counts' = [e \in Experts |-> 0]
        /\ UNCHANGED <<ended, local, at, prefix, addend, cursor, mIndices, src2dst, rows, output>>
    BY DEF Clear, call, scanning, placing
  <1>2. BufferTypes'
    BY <1>1, SameCall DEF MoeInv, BufferTypes
  <1>3. CountInv'
    <2>1. ended' = {} /\ \A b \in CountBlocks, e \in Experts : local'[b][e] = 0
      BY <1>1 DEF MoeInv, CountInv
    <2>2. \A b, e : Counted(b, e)' = {}
      BY <1>1, SameCall DEF Counted
    <2>3. \A e : Flushed(e)' = {}
      BY <2>1 DEF Flushed
    <2>4. Cardinality({}) = 0
      BY FS_EmptySet
    <2>5. QED
      BY <1>1, <2>1, <2>2, <2>3, <2>4, SameCall DEF CountInv, Scans
  <1>4. ScanInv'
    BY <1>1 DEF MoeInv, ScanInv, Scans
  <1>5. PublishInv' /\ PlaceInv' /\ CopyInv'
    BY <1>1 DEF PublishInv, PlaceInv, CopyInv, Scans, Placing
  <1>6. QED
    BY <1>2, <1>3, <1>4, <1>5 DEF MoeInv

\* A thread adds its slot to the count of its expert in its block.
LEMMA CountSlotKeeps ==
  ASSUME MoeInv, NEW s \in Slots, CountSlot(s)
  PROVE  MoeInv'
  <1> DEFINE B == s \div SlotsPerBlock
  <1>1. /\ kernel \in {"count", "count_prefix"} /\ s \in todo /\ todo' = todo \ {s}
        /\ topkIds' = topkIds
        /\ local' = IF IsLocal(s) THEN [local EXCEPT ![B][topkIds[s]] = @ + 1] ELSE local
        /\ UNCHANGED <<kernel, ended, counts, at, prefix, addend, cursor, mIndices,
                       src2dst, rows, output>>
    BY DEF CountSlot, call, scanning, placing
  <1>2. BufferTypes /\ CountInv /\ ScanInv /\ PublishInv
    BY DEF MoeInv
  <1>3. B \in CountBlocks
    BY BlockOfSlot
  <1> HIDE DEF B
  <1>4. BufferTypes'
    <2>1. local' \in [CountBlocks -> [Experts -> Nat]]
      BY <1>1, <1>2, <1>3 DEF BufferTypes, IsLocal
    <2>2. QED
      BY <1>1, <1>2, <2>1, SameCall DEF BufferTypes
  <1>5. ASSUME NEW b \in CountBlocks, NEW e \in Experts
        PROVE  local'[b][e] = Cardinality(Counted(b, e)')
    <2>1. local[b][e] = Cardinality(Counted(b, e)) /\ local[b][e] \in Nat
      BY <1>1, <1>2 DEF CountInv, BufferTypes
    <2>2. CASE b = B /\ topkIds[s] = e
      <3>1. Counted(b, e)' = Counted(b, e) \cup {s} /\ s \notin Counted(b, e)
        BY <1>1, <1>2, <2>2, SameCall DEF Counted, BufferTypes, B
      <3>2. IsFiniteSet(Counted(b, e))
        BY <1>2, SlotsAreFinite DEF BufferTypes, Counted, Slots
      <3>3. Cardinality(Counted(b, e)') = Cardinality(Counted(b, e)) + 1
        BY <3>1, <3>2, FS_AddElement
      <3>4. local'[b][e] = local[b][e] + 1
        BY <1>1, <1>2, <1>3, <2>2 DEF BufferTypes, IsLocal
      <3>5. QED
        BY <2>1, <3>3, <3>4
    <2>3. CASE ~(b = B /\ topkIds[s] = e)
      <3>1. Counted(b, e)' = Counted(b, e)
        BY <1>1, <1>2, <2>3, SameCall DEF Counted, BufferTypes, B
      <3>2. local'[b][e] = local[b][e]
        BY <1>1, <1>2, <1>3, <2>3 DEF BufferTypes, IsLocal
      <3>3. QED
        BY <2>1, <3>1, <3>2
    <2>4. QED
      BY <2>2, <2>3
  <1>6. CountInv'
    <2>1. \A e : Flushed(e)' = Flushed(e)
      BY <1>1, SameCall DEF Flushed
    <2>2. \A b \in CountBlocks, e \in Experts : local'[b][e] = Cardinality(Counted(b, e)')
      BY <1>5
    <2>3. kernel' = "count" =>
            /\ ended' \subseteq CountBlocks
            /\ \A u \in todo' : u \div SlotsPerBlock \notin ended'
            /\ \A e \in Experts : counts'[e] = Cardinality(Flushed(e)')
      BY <1>1, <1>2, <2>1 DEF CountInv
    <2>4. /\ kernel' = "count_prefix" => OneCountBlock'
          /\ kernel' \in Scans => ended' = {}
          /\ kernel' \notin {"start", "prefix"}
      BY <1>1, <1>2, SameCall DEF CountInv, Scans
    <2>5. QED
      BY <2>2, <2>3, <2>4, <1>1, SameCall DEF CountInv
  <1>7. ScanInv'
    <2>1. \A t \in Threads : at'[t] = 0
      BY <1>1, <1>2 DEF ScanInv
    <2>2. \A k \in 1 .. Rounds : 0 # 2 * k
      BY RoundsSuffice
    <2>3. QED
      BY <2>1, <2>2 DEF ScanInv
  <1>8. PublishInv'
    BY <1>1, <1>2, PublishFrame
  <1>9. PlaceInv' /\ CopyInv'
    BY <1>1, NotPlacing DEF Placing
  <1>10. QED
    BY <1>4, <1>6, <1>7, <1>8, <1>9 DEF MoeInv

\* A block that ends adds the counts of all its slots, and of no other.
LEMMA FlushKeeps ==
  ASSUME MoeInv, NEW b \in CountBlocks, FlushCounts(b)
  PROVE  MoeInv'
  <1>1. /\ kernel = "count" /\ kernel' = "count" /\ b \notin ended /\ topkIds' = topkIds
        /\ \A s \in todo : s \div SlotsPerBlock # b
        /\ counts' = [e \in Experts |-> counts[e] + local[b][e]]
        /\ ended' = ended \cup {b}
        /\ UNCHANGED <<todo, local, at, prefix, addend, cursor, mIndices, src2dst, rows, output>>
    BY DEF FlushCounts, scanning, placing, call
  <1>2. BufferTypes /\ CountInv /\ ScanInv /\ PublishInv
    BY DEF MoeInv
  <1>3. BufferTypes'
    <2>1. counts' \in [Experts -> Int]
      BY <1>1, <1>2 DEF BufferTypes
    <2>2. QED
      BY <1>1, <1>2, <2>1, SameCall DEF BufferTypes
  <1>4. ASSUME NEW e \in Experts PROVE counts'[e] = Cardinality(Flushed(e)')
    <2>1. counts[e] = Cardinality(Flushed(e)) /\ local[b][e] = Cardinality(Counted(b, e))
      BY <1>1, <1>2 DEF CountInv
    <2>2. Flushed(e)' = Flushed(e) \cup Counted(b, e) /\ Flushed(e) \cap Counted(b, e) = {}
      BY <1>1, SameCall DEF Flushed, Counted
    <2>3. /\ IsFiniteSet(Flushed(e)) /\ Cardinality(Flushed(e)) \in Nat
          /\ IsFiniteSet(Counted(b, e)) /\ Cardinality(Counted(b, e)) \in Nat
      <3>1. Flushed(e) \in SUBSET DOMAIN topkIds /\ Counted(b, e) \in SUBSET DOMAIN topkIds
        BY DEF Flushed, Counted, Slots
      <3>2. QED
        BY <1>2, <3>1, SlotsAreFinite DEF BufferTypes
    <2>4. Cardinality(Flushed(e) \cup Counted(b, e)) =
            Cardinality(Flushed(e)) + Cardinality(Counted(b, e))
              - Cardinality(Flushed(e) \cap Counted(b, e))
      BY <2>3, FS_Union
    <2>5. Cardinality(Flushed(e) \cap Counted(b, e)) = 0
      BY <2>2, FS_EmptySet
    <2>6. Cardinality(Flushed(e)') = Cardinality(Flushed(e) \cup Counted(b, e))
      BY <2>2
    <2>7. counts'[e] = counts[e] + local[b][e]
      BY <1>1
    <2>8. QED
      BY <2>1, <2>3, <2>4, <2>5, <2>6, <2>7
  <1>5. CountInv'
    <2>1. \A c, e : Counted(c, e)' = Counted(c, e)
      BY <1>1, SameCall DEF Counted
    <2>2. \A c \in CountBlocks, e \in Experts : local'[c][e] = Cardinality(Counted(c, e)')
      BY <1>1, <1>2, <2>1 DEF CountInv
    <2>3. /\ ended' \subseteq CountBlocks
          /\ \A s \in todo' : s \div SlotsPerBlock \notin ended'
      BY <1>1, <1>2 DEF CountInv
    <2>4. QED
      BY <1>1, <1>4, <2>2, <2>3, SameCall DEF CountInv, Scans
  <1>6. ScanInv'
    BY <1>1, <1>2 DEF ScanInv, Scans
  <1>7. PublishInv' /\ PlaceInv' /\ CopyInv'
    BY <1>1 DEF PublishInv, PlaceInv, CopyInv, Scans, Placing
  <1>8. QED
    BY <1>3, <1>5, <1>6, <1>7 DEF MoeInv

\* When the last block has ended every slot is counted; where one block counts them
\* all, the scan's kernel does it.
LEMMA FillKeeps ==
  ASSUME MoeInv, Fill
  PROVE  MoeInv'
  <1>1. /\ ended' = {} /\ mIndices' = [r \in Rows |-> NumExperts - 1] /\ topkIds' = topkIds
        /\ kernel' \in Scans
        /\ UNCHANGED <<local, counts, at, prefix, addend, cursor, src2dst, rows, output>>
    BY DEF Fill, scanning, counting, call, Scans
  <1>2. BufferTypes /\ CountInv /\ ScanInv
    BY DEF MoeInv
  <1>3. /\ kernel \in {"start", "count"} /\ todo' \subseteq Slots
        /\ OneCountBlock => kernel = "start" /\ kernel' = "count_prefix" /\ todo' = Slots
        /\ ~OneCountBlock => kernel = "count" /\ ended = CountBlocks
                               /\ kernel' = "prefix" /\ todo' = {}
    BY DEF Fill
  <1>4. BufferTypes'
    <2>1. mIndices' \in [Rows -> Experts \cup {Junk}]
      BY <1>1, RoundsSuffice DEF Experts
    <2>2. QED
      BY <1>1, <1>2, <1>3, <2>1, SameCall DEF BufferTypes
  <1>5. \A t \in Threads : at'[t] = 0
    BY <1>1, <1>2, <1>3 DEF ScanInv
  <1>6. CountInv'
    <2>1. CASE OneCountBlock
      <3>1. \A b \in CountBlocks, e \in Experts : local'[b][e] = 0
        BY <1>1, <1>2, <1>3, <2>1 DEF CountInv
      <3>2. \A b, e : Counted(b, e)' = {}
        BY <1>1, <1>3, <2>1, SameCall DEF Counted
      <3>3. QED
        BY <1>1, <1>3, <2>1, <3>1, <3>2, SameCall, FS_EmptySet DEF CountInv
    <2>2. CASE ~OneCountBlock
      <3>1. ASSUME NEW e \in Experts PROVE counts'[e] = TotalOf(topkIds, e)
        <4>1. counts[e] = Cardinality(Flushed(e))
          BY <1>2, <1>3, <2>2 DEF CountInv
        <4>2. Flushed(e) = SlotsAt(topkIds, e)
          BY <1>3, <2>2, BlockOfSlot DEF Flushed, SlotsAt, Slots
        <4>3. QED
          BY <1>1, <4>1, <4>2 DEF TotalOf
      <3>2. QED
        BY <1>1, <1>3, <2>2, <3>1 DEF CountInv
    <2>3. QED
      BY <2>1, <2>2
  <1>7. ScanInv'
    <2>1. \A k \in 1 .. Rounds : 0 # 2 * k
      BY RoundsSuffice
    <2>2. QED
      BY <1>5, <2>1 DEF ScanInv
  <1>8. PublishInv'
    <2>1. LastStep # 0
      BY RoundsSuffice DEF LastStep
    <2>2. \A e \in Experts : at'[e] # LastStep
      BY <1>5, <2>1, RoundsSuffice
    <2>3. RestLabelled'
      BY <1>1, SameCall DEF RestLabelled
    <2>4. QED
      BY <2>2, <2>3 DEF PublishInv
  <1>9. PlaceInv' /\ CopyInv'
    BY <1>1, NotPlacing DEF Placing, Scans
  <1>10. QED
    BY <1>4, <1>6, <1>7, <1>8, <1>9 DEF MoeInv

----------------------------------------------------------------------------
(* The scan.                                                               *)

\* Whichever kernel counts, the scan begins with the number of slots of each expert.
LEMMA CountOfIs ==
  ASSUME BufferTypes, CountInv, kernel \in Scans, todo = {}
  PROVE  \A e \in Experts : CountOf(e) = TotalOf(topkIds, e)
  <1> SUFFICES ASSUME NEW e \in Experts PROVE CountOf(e) = TotalOf(topkIds, e)
    OBVIOUS
  <1>1. CASE kernel = "prefix"
    BY <1>1 DEF CountInv, CountOf
  <1>2. CASE kernel = "count_prefix"
    <2>1. OneCountBlock /\ SlotsPerBlock \in Nat \ {0}
      BY <1>2, MoeAssumption DEF CountInv
    <2>2. /\ Slots = 0 .. Cardinality(Slots) - 1 /\ Cardinality(Slots) \in Nat \ {0}
          /\ Cardinality(Slots) <= SlotsPerBlock
      BY <2>1, SlotsAreFinite DEF BufferTypes, Slots, OneCountBlock
    <2>3. \A s \in Slots : s \div SlotsPerBlock = 0
      BY <2>1, <2>2
    <2>4. 0 \in CountBlocks
      BY <2>2, <2>3, BlockOfSlot
    <2>5. local[0][e] = Cardinality(Counted(0, e))
      BY <1>2, <2>4 DEF CountInv
    <2>6. Counted(0, e) = SlotsAt(topkIds, e)
      BY <2>3 DEF Counted, SlotsAt, Slots
    <2>7. QED
      BY <1>2, <2>5, <2>6 DEF CountOf, TotalOf
  <1>3. QED
    BY <1>1, <1>2 DEF Scans

\* The bounds of what a thread has added up.
LEMMA FromIs ==
  ASSUME NEW t \in Threads, NEW k \in Nat
  PROVE  From(t, k) \in 0 .. TwoTo[Rounds] /\ t + 1 \in 0 .. TwoTo[Rounds]
  <1>1. t \in Nat /\ t + 1 <= TwoTo[Rounds] /\ TwoTo[Rounds] \in Nat
    BY RoundsSuffice, TwoToGrows
  <1>2. TwoTo[k] \in Nat /\ TwoTo[k] >= 1
    BY TwoToGrows
  <1>3. QED
    BY <1>1, <1>2 DEF From

LEMMA PartialIs ==
  ASSUME NEW ids, IsCall(ids), NEW t \in Threads
  PROVE  /\ \A k \in Nat : Partial(ids, t, k) \in Int
         /\ Partial(ids, t, 0) = Weight(ids)[t]
         /\ Partial(ids, t, Rounds) = Start(ids, t + 1)
  <1>1. \A k \in Nat : Start(ids, From(t, k)) \in Nat /\ Start(ids, t + 1) \in Nat
    BY FromIs, StartIs
  <1>2. t \in Nat /\ t + 1 <= TwoTo[Rounds] /\ TwoTo[Rounds] \in Nat /\ Rounds \in Nat
    BY RoundsSuffice, TwoToGrows
  <1>3. From(t, 0) = t
    BY <1>2, TwoToDoubles DEF From
  <1>4. From(t, Rounds) = 0
    BY <1>2 DEF From
  <1>5. Start(ids, t + 1) = Start(ids, t) + Weight(ids)[t] /\ Weight(ids)[t] \in Nat
    BY StartIs, WeightIs
  <1>6. Start(ids, 0) = 0
    BY StartIs
  <1>7. Partial(ids, t, 0) = Weight(ids)[t]
    BY <1>1, <1>3, <1>5 DEF Partial
  <1>8. Partial(ids, t, Rounds) = Start(ids, t + 1)
    BY <1>1, <1>2, <1>4, <1>6 DEF Partial
  <1>9. QED
    BY <1>1, <1>7, <1>8 DEF Partial

\* A round adds the 2^(k - 1) elements to the left of those a thread has.
LEMMA RoundDoubles ==
  ASSUME NEW ids, IsCall(ids), NEW t \in Threads, NEW k \in 1 .. Rounds
  PROVE  /\ LeftPart(ids, t, k) \in Int
         /\ Partial(ids, t, k - 1) + LeftPart(ids, t, k) = Partial(ids, t, k)
  <1> DEFINE step == TwoTo[k - 1]
  <1>1. /\ k \in Nat /\ k - 1 \in Nat /\ (k - 1) + 1 = k
        /\ t \in Nat /\ t + 1 <= TwoTo[Rounds] /\ TwoTo[Rounds] \in Nat
    BY RoundsSuffice, TwoToGrows
  <1>2. step \in Nat /\ step >= 1 /\ TwoTo[k] = 2 * step
    BY <1>1, TwoToDoubles, TwoToGrows
  <1>3. /\ Start(ids, t + 1) \in Nat /\ Start(ids, From(t, k)) \in Nat
        /\ Start(ids, From(t, k - 1)) \in Nat
    BY <1>1, FromIs, StartIs
  <1>4. CASE t >= step
    <2>1. t - step \in Threads
      BY <1>1, <1>2, <1>4 DEF Threads
    <2>2. From(t, k - 1) = (t - step) + 1
      BY <1>1, <1>2, <1>4 DEF From
    <2>3. From(t - step, k - 1) = From(t, k)
      BY <1>1, <1>2, <1>4 DEF From
    <2>4. LeftPart(ids, t, k) = Start(ids, From(t, k - 1)) - Start(ids, From(t, k))
      BY <1>4, <2>2, <2>3 DEF LeftPart, Partial
    <2>5. QED
      BY <1>3, <2>4 DEF Partial
  <1>5. CASE ~(t >= step)
    <2>1. From(t, k - 1) = 0 /\ From(t, k) = 0
      BY <1>1, <1>2, <1>5 DEF From
    <2>2. LeftPart(ids, t, k) = 0
      BY <1>5 DEF LeftPart
    <2>3. QED
      BY <1>3, <2>1, <2>2 DEF Partial
  <1>6. QED
    BY <1>4, <1>5

\* A thread that passes a barrier is no more than a step ahead of any other.
LEMMA ScanStep ==
  ASSUME MoeInv, NEW t \in Threads, NEW step \in 1 .. LastStep, InScan(t, step)
  PROVE  /\ kernel \in Scans /\ kernel' = kernel /\ todo = {} /\ todo' = {} /\ topkIds' = topkIds
         /\ UNCHANGED <<ended, local, src2dst, rows, output>>
         /\ at[t] = step - 1 /\ at'[t] = step
         /\ at' \in [Threads -> 0 .. LastStep]
         /\ \A u \in Threads : u # t => at'[u] = at[u]
         /\ \A u \in Threads : at[u] \in Nat /\ step - 1 <= at[u] /\ at[u] <= step
         /\ \A u, v \in Threads : at'[u] <= at'[v] + 1
         /\ PlaceInv' /\ CopyInv'
  <1>1. /\ kernel \in Scans /\ kernel' = kernel /\ todo = {} /\ todo' = {} /\ topkIds' = topkIds
        /\ UNCHANGED <<ended, local, src2dst, rows, output>>
        /\ at[t] = step - 1 /\ at' = [at EXCEPT ![t] = step]
        /\ \A u \in Threads : at[u] >= at[t]
    BY DEF InScan, PastBarrier, Scans, call
  <1>2. at \in [Threads -> 0 .. LastStep] /\ Rounds \in Nat /\ LastStep \in Nat
    BY RoundsSuffice DEF MoeInv, BufferTypes, LastStep
  <1>3. \A u \in Threads : at[u] <= at[t] + 1
    BY <1>1 DEF MoeInv, ScanInv
  <1>4. \A u \in Threads : at[u] \in Nat /\ step - 1 <= at[u] /\ at[u] <= step
    BY <1>1, <1>2, <1>3
  <1>5. at' \in [Threads -> 0 .. LastStep] /\ at'[t] = step
    BY <1>1, <1>2
  <1>6. \A u \in Threads : u # t => at'[u] = at[u]
    BY <1>1, <1>2
  <1>7. ASSUME NEW u \in Threads, NEW v \in Threads PROVE at'[u] <= at'[v] + 1
    BY <1>4, <1>5, <1>6
  <1>8. PlaceInv' /\ CopyInv'
    BY <1>1, NotPlacing DEF Placing, Scans
  <1>9. QED
    BY <1>1, <1>4, <1>5, <1>6, <1>7, <1>8

\* What a step of the scan has to show of its own thread.
LEMMA ScanStepKeeps ==
  ASSUME MoeInv, NEW t \in Threads, NEW step \in 1 .. LastStep, InScan(t, step),
         \A u \in Threads : u # t => prefix'[u] = prefix[u] /\ addend'[u] = addend[u],
         prefix'[t] = Partial(topkIds, t, Level(step)),
         \A k \in 1 .. Rounds : step = 2 * k => addend'[t] = LeftPart(topkIds, t, k)
  PROVE  ScanInv'
  <1>1. /\ kernel \in Scans /\ kernel' = kernel /\ todo' = {} /\ topkIds' = topkIds
        /\ at'[t] = step /\ \A u \in Threads : u # t => at'[u] = at[u]
        /\ \A u, v \in Threads : at'[u] <= at'[v] + 1
    BY ScanStep
  <1>2. ASSUME NEW u \in Threads, at'[u] >= 1 PROVE prefix'[u] = Partial(topkIds', u, Level(at'[u]))
    BY <1>1, <1>2 DEF MoeInv, ScanInv
  <1>3. ASSUME NEW u \in Threads, NEW k \in 1 .. Rounds, at'[u] = 2 * k
        PROVE  addend'[u] = LeftPart(topkIds', u, k)
    BY <1>1, <1>3 DEF MoeInv, ScanInv
  <1>4. kernel' \notin {"start", "count"} /\ ~(todo' # {} /\ kernel' = "count_prefix")
    BY <1>1 DEF Scans
  <1>5. QED
    BY <1>1, <1>2, <1>3, <1>4 DEF ScanInv

\* Until the last step nothing is published.
LEMMA NotPublishing ==
  ASSUME MoeInv, NEW t \in Threads, NEW step \in 1 .. LastStep, InScan(t, step),
         step # LastStep, UNCHANGED <<cursor, mIndices>>
  PROVE  PublishInv'
  <1>1. /\ kernel \in Scans /\ topkIds' = topkIds
        /\ at'[t] = step /\ \A u \in Threads : u # t => at'[u] = at[u]
    BY ScanStep
  <1>2. RestLabelled' /\ \A e \in Experts : PadsLabelled(e) => PadsLabelled(e)'
    BY <1>1, SameCall DEF MoeInv, PublishInv, RestLabelled, PadsLabelled
  <1>3. \A e \in Experts : at'[e] = LastStep => at[e] = LastStep
    BY <1>1, RoundsSuffice
  <1>4. QED
    BY <1>1, <1>2, <1>3 DEF MoeInv, PublishInv

\* Each thread begins with the rows of its own expert.
LEMMA SetElementKeeps ==
  ASSUME MoeInv, NEW t \in Threads, SetElement(t)
  PROVE  MoeInv'
  <1>0. 1 \in 1 .. LastStep /\ 1 # LastStep /\ Level(1) = 0 /\ Rounds \in Nat
    BY RoundsSuffice DEF LastStep, Level
  <1>1. /\ InScan(t, 1) /\ UNCHANGED <<addend, cursor, mIndices>>
        /\ prefix' = [prefix EXCEPT ![t] = IF t \in Experts THEN Aligned(CountOf(t)) ELSE 0]
        /\ counts' = IF t \in Experts THEN [counts EXCEPT ![t] = CountOf(t)] ELSE counts
    BY DEF SetElement
  <1>2. BufferTypes /\ CountInv
    BY DEF MoeInv
  <1>3. /\ kernel \in Scans /\ kernel' = kernel /\ todo = {} /\ todo' = {} /\ topkIds' = topkIds
        /\ UNCHANGED <<ended, local, src2dst, rows, output>>
        /\ at' \in [Threads -> 0 .. LastStep]
        /\ PlaceInv' /\ CopyInv'
    BY <1>0, <1>1, ScanStep
  <1>4. \A e \in Experts : CountOf(e) = TotalOf(topkIds, e) /\ TotalOf(topkIds, e) \in Nat
    BY <1>2, <1>3, CountOfIs, WeightIs DEF BufferTypes
  <1>5. prefix' \in [Threads -> Int] /\ prefix'[t] = Weight(topkIds)[t]
        /\ \A u \in Threads : u # t => prefix'[u] = prefix[u]
    <2>1. prefix \in [Threads -> Int] /\ Weight(topkIds)[t] \in Nat
      BY <1>2, WeightIs DEF BufferTypes
    <2>2. Weight(topkIds)[t] = IF t \in Experts THEN Aligned(CountOf(t)) ELSE 0
      BY <1>4 DEF Weight
    <2>3. QED
      BY <1>1, <2>1, <2>2
  <1>6. BufferTypes'
    <2>1. counts' \in [Experts -> Int]
      BY <1>1, <1>2, <1>4 DEF BufferTypes
    <2>2. QED
      BY <1>1, <1>2, <1>3, <1>5, <2>1, SameCall DEF BufferTypes
  <1>7. CountInv'
    <2>1. kernel = "prefix" => \A e \in Experts : counts'[e] = TotalOf(topkIds, e)
      BY <1>1, <1>2, <1>4 DEF BufferTypes, CountInv
    <2>2. \A b, e : Counted(b, e)' = Counted(b, e)
      BY <1>3, SameCall DEF Counted
    <2>3. kernel # "count" /\ kernel # "start"
      BY <1>3 DEF Scans
    <2>4. QED
      BY <1>2, <1>3, <2>1, <2>2, <2>3, SameCall DEF CountInv
  <1>8. ScanInv'
    <2>1. prefix'[t] = Partial(topkIds, t, Level(1))
      BY <1>0, <1>2, <1>5, PartialIs DEF BufferTypes
    <2>2. \A k \in 1 .. Rounds : 1 # 2 * k
      BY <1>0
    <2>3. QED
      BY <1>0, <1>1, <1>5, <2>1, <2>2, ScanStepKeeps
  <1>9. PublishInv'
    BY <1>0, <1>1, NotPublishing
  <1>10. QED
    BY <1>3, <1>6, <1>7, <1>8, <1>9 DEF MoeInv

\* The steps of a round, and what is done after them.
LEMMA StepsOf ==
  ASSUME NEW k \in 1 .. Rounds
  PROVE  /\ k \in Nat /\ k - 1 \in Nat /\ Rounds \in Nat
         /\ 2 * k \in 1 .. LastStep /\ 2 * k + 1 \in 1 .. LastStep
         /\ 2 * k # LastStep /\ 2 * k + 1 # LastStep
         /\ Level(2 * k - 1) = k - 1 /\ Level(2 * k) = k - 1 /\ Level(2 * k + 1) = k
  <1>1. Rounds \in Nat /\ k \in Nat /\ 1 <= k /\ k <= Rounds
    BY RoundsSuffice
  <1>2. (2 * k - 2) \div 2 = k - 1 /\ (2 * k - 1) \div 2 = k - 1 /\ (2 * k) \div 2 = k
    BY <1>1
  <1>3. (2 * k - 1) - 1 = 2 * k - 2 /\ (2 * k + 1) - 1 = 2 * k
    BY <1>1
  <1>4. QED
    BY <1>1, <1>2, <1>3 DEF LastStep, Level

\* What a thread reads in a round its left neighbour has not changed since the last.
LEMMA ReadLeftKeeps ==
  ASSUME MoeInv, NEW t \in Threads, NEW k \in 1 .. Rounds, ReadLeft(t, k)
  PROVE  MoeInv'
  <1>0. /\ k \in Nat /\ k - 1 \in Nat /\ Rounds \in Nat
        /\ 2 * k \in 1 .. LastStep /\ 2 * k # LastStep
        /\ Level(2 * k - 1) = k - 1 /\ Level(2 * k) = k - 1
    BY StepsOf
  <1>1. /\ InScan(t, 2 * k) /\ UNCHANGED <<counts, prefix, cursor, mIndices>>
        /\ addend' = [addend EXCEPT ![t] =
                        IF t >= StepOf(k) THEN prefix[t - StepOf(k)] ELSE 0]
    BY DEF ReadLeft
  <1>2. BufferTypes /\ CountInv /\ ScanInv
    BY DEF MoeInv
  <1>3. /\ kernel \in Scans /\ kernel' = kernel /\ todo = {} /\ todo' = {} /\ topkIds' = topkIds
        /\ UNCHANGED <<ended, local, src2dst, rows, output>>
        /\ at[t] = 2 * k - 1
        /\ at' \in [Threads -> 0 .. LastStep]
        /\ \A u \in Threads : at[u] \in Nat /\ 2 * k - 1 <= at[u] /\ at[u] <= 2 * k
        /\ PlaceInv' /\ CopyInv'
    BY <1>0, <1>1, ScanStep
  <1>4. \A u \in Threads : prefix[u] = Partial(topkIds, u, k - 1)
    <2> SUFFICES ASSUME NEW u \in Threads PROVE prefix[u] = Partial(topkIds, u, k - 1)
      OBVIOUS
    <2>1. at[u] = 2 * k - 1 \/ at[u] = 2 * k
      BY <1>0, <1>3
    <2>2. at[u] >= 1 /\ Level(at[u]) = k - 1
      BY <1>0, <2>1
    <2>3. QED
      BY <1>2, <1>3, <2>2 DEF ScanInv
  <1>5. addend'[t] = LeftPart(topkIds, t, k)
    <2>1. addend'[t] = IF t >= StepOf(k) THEN prefix[t - StepOf(k)] ELSE 0
      BY <1>1, <1>2 DEF BufferTypes
    <2>2. TwoTo[k - 1] \in Nat /\ TwoTo[Rounds] \in Nat
      BY <1>0, TwoToGrows
    <2>3. CASE t >= TwoTo[k - 1]
      <3>1. t - TwoTo[k - 1] \in Threads
        BY <2>2, <2>3 DEF Threads
      <3>2. QED
        BY <1>4, <2>1, <2>3, <3>1 DEF StepOf, LeftPart
    <2>4. CASE ~(t >= TwoTo[k - 1])
      BY <2>1, <2>4 DEF StepOf, LeftPart
    <2>5. QED
      BY <2>3, <2>4
  <1>6. addend' \in [Threads -> Int] /\ \A u \in Threads : u # t => addend'[u] = addend[u]
    <2>1. LeftPart(topkIds, t, k) \in Int
      BY <1>2, RoundDoubles DEF BufferTypes
    <2>2. addend \in [Threads -> Int]
      BY <1>2 DEF BufferTypes
    <2>3. addend' = [addend EXCEPT ![t] = addend'[t]]
      BY <1>1, <2>2
    <2>4. QED
      BY <1>5, <2>1, <2>2, <2>3
  <1>7. BufferTypes'
    BY <1>1, <1>2, <1>3, <1>6, SameCall DEF BufferTypes
  <1>8. CountInv'
    BY <1>1, <1>2, <1>3, CountFrame
  <1>9. ScanInv'
    <2>1. prefix'[t] = Partial(topkIds, t, Level(2 * k)) /\ \A u \in Threads : prefix'[u] = prefix[u]
      BY <1>0, <1>1, <1>4
    <2>2. \A j \in 1 .. Rounds : 2 * k = 2 * j => j = k
      BY <1>0
    <2>3. \A j \in 1 .. Rounds : 2 * k = 2 * j => addend'[t] = LeftPart(topkIds, t, j)
      BY <1>5, <2>2
    <2>4. QED
      BY <1>0, <1>1, <1>6, <2>1, <2>3, ScanStepKeeps
  <1>10. PublishInv'
    BY <1>0, <1>1, NotPublishing
  <1>11. QED
    BY <1>3, <1>7, <1>8, <1>9, <1>10 DEF MoeInv

\* Adding it doubles what the thread has added up.
LEMMA AddLeftKeeps ==
  ASSUME MoeInv, NEW t \in Threads, NEW k \in 1 .. Rounds, AddLeft(t, k)
  PROVE  MoeInv'
  <1>0. /\ k \in Nat /\ k - 1 \in Nat /\ Rounds \in Nat
        /\ 2 * k + 1 \in 1 .. LastStep /\ 2 * k + 1 # LastStep
        /\ Level(2 * k) = k - 1 /\ Level(2 * k + 1) = k
    BY StepsOf
  <1>1. /\ InScan(t, 2 * k + 1) /\ UNCHANGED <<counts, addend, cursor, mIndices>>
        /\ prefix' = [prefix EXCEPT ![t] = @ + addend[t]]
    BY DEF AddLeft
  <1>2. BufferTypes /\ CountInv /\ ScanInv
    BY DEF MoeInv
  <1>3. /\ kernel \in Scans /\ kernel' = kernel /\ todo = {} /\ todo' = {} /\ topkIds' = topkIds
        /\ UNCHANGED <<ended, local, src2dst, rows, output>>
        /\ at[t] = (2 * k + 1) - 1
        /\ at' \in [Threads -> 0 .. LastStep]
        /\ PlaceInv' /\ CopyInv'
    BY <1>0, <1>1, ScanStep
  <1>4. at[t] = 2 * k /\ at[t] >= 1
    BY <1>0, <1>3
  <1>5. prefix[t] = Partial(topkIds, t, k - 1) /\ addend[t] = LeftPart(topkIds, t, k)
    BY <1>0, <1>2, <1>3, <1>4 DEF ScanInv
  <1>6. Partial(topkIds, t, k - 1) + LeftPart(topkIds, t, k) = Partial(topkIds, t, k)
    BY <1>2, RoundDoubles DEF BufferTypes
  <1>7. /\ prefix' \in [Threads -> Int] /\ prefix'[t] = Partial(topkIds, t, k)
        /\ \A u \in Threads : u # t => prefix'[u] = prefix[u]
    <2>1. prefix \in [Threads -> Int] /\ addend \in [Threads -> Int]
      BY <1>2 DEF BufferTypes
    <2>2. QED
      BY <1>1, <1>5, <1>6, <2>1
  <1>8. BufferTypes'
    BY <1>1, <1>2, <1>3, <1>7, SameCall DEF BufferTypes
  <1>9. CountInv'
    BY <1>1, <1>2, <1>3, CountFrame
  <1>10. ScanInv'
    <2>1. \A j \in 1 .. Rounds : 2 * k + 1 # 2 * j
      BY <1>0
    <2>2. QED
      BY <1>0, <1>1, <1>7, <2>1, ScanStepKeeps
  <1>11. PublishInv'
    BY <1>0, <1>1, NotPublishing
  <1>12. QED
    BY <1>3, <1>8, <1>9, <1>10, <1>11 DEF MoeInv

\* The library's scan finds the same sums in one step.
LEMMA LibraryScanKeeps ==
  ASSUME MoeInv, LibraryScan
  PROVE  MoeInv'
  <1>1. /\ kernel = "prefix" /\ kernel' = "prefix" /\ topkIds' = topkIds
        /\ \A t \in Threads : at[t] = 1
        /\ at' = [t \in Threads |-> LastStep - 1]
        /\ prefix' = [t \in Threads |-> SumOf(prefix, 0 .. t)]
        /\ UNCHANGED <<todo, ended, local, counts, addend, cursor, mIndices, src2dst, rows, output>>
    BY DEF LibraryScan, SumOf, call, counting, placing
  <1>2. BufferTypes /\ CountInv /\ ScanInv
    BY DEF MoeInv
  <1>3. /\ Rounds \in Nat /\ LastStep - 1 = 2 * Rounds + 1 /\ LastStep - 1 \in 0 .. LastStep
        /\ Level(1) = 0 /\ Level(LastStep - 1) = Rounds /\ LastStep - 1 # LastStep
    <2>1. Rounds \in Nat
      BY RoundsSuffice
    <2>2. (2 * Rounds) \div 2 = Rounds /\ ((2 * Rounds + 2) - 1) - 1 = 2 * Rounds
      BY <2>1
    <2>3. QED
      BY <2>1, <2>2 DEF LastStep, Level
  <1>4. prefix = Weight(topkIds)
    <2>1. \A t \in Threads : prefix[t] = Weight(topkIds)[t]
      BY <1>1, <1>2, <1>3, PartialIs DEF ScanInv, BufferTypes, Scans
    <2>2. prefix \in [Threads -> Int] /\ Weight(topkIds) \in [Threads -> Nat]
      BY <1>2, WeightIs DEF BufferTypes
    <2>3. QED
      BY <2>1, <2>2
  <1>5. ASSUME NEW t \in Threads
        PROVE  prefix'[t] = Partial(topkIds, t, Rounds) /\ Partial(topkIds, t, Rounds) \in Int
    <2>1. (t + 1) - 1 = t
      BY RoundsSuffice
    <2>2. prefix'[t] = Start(topkIds, t + 1)
      BY <1>1, <1>4, <2>1 DEF Start
    <2>3. QED
      BY <1>2, <1>3, <2>2, PartialIs DEF BufferTypes
  <1>6. BufferTypes'
    <2>1. prefix' \in [Threads -> Int]
      BY <1>1, <1>5
    <2>2. at' \in [Threads -> 0 .. LastStep]
      BY <1>1, <1>3
    <2>3. QED
      BY <1>1, <1>2, <2>1, <2>2, SameCall DEF BufferTypes, Scans
  <1>7. CountInv'
    BY <1>1, <1>2, CountFrame
  <1>8. ScanInv'
    <2>1. \A t \in Threads : at'[t] = LastStep - 1
      BY <1>1
    <2>2. \A k \in 1 .. Rounds : LastStep - 1 # 2 * k
      BY <1>3
    <2>3. \A t \in Threads : prefix'[t] = Partial(topkIds', t, Level(at'[t]))
      BY <1>1, <1>3, <1>5, <2>1
    <2>4. \A t, u \in Threads : at'[u] <= at'[t] + 1
      BY <1>3, <2>1
    <2>5. QED
      BY <1>1, <2>1, <2>2, <2>3, <2>4 DEF ScanInv
  <1>9. PublishInv'
    <2>1. \A e \in Experts : at'[e] # LastStep
      BY <1>1, <1>3, RoundsSuffice
    <2>2. RestLabelled'
      BY <1>1, SameCall DEF MoeInv, PublishInv, RestLabelled, Scans
    <2>3. QED
      BY <2>1, <2>2 DEF PublishInv
  <1>10. PlaceInv' /\ CopyInv'
    BY <1>1, NotPlacing DEF Placing
  <1>11. QED
    BY <1>6, <1>7, <1>8, <1>9, <1>10 DEF MoeInv

\* The rows of the experts follow each other, and are all in the buffers.
LEMMA RegionsApart ==
  ASSUME NEW ids, IsCall(ids), NEW e \in Experts
  PROVE  /\ Start(ids, e) \in Nat /\ Start(ids, e + 1) \in Nat
         /\ TotalOf(ids, e) \in Nat /\ Weight(ids)[e] \in Nat
         /\ Weight(ids)[e] = Aligned(TotalOf(ids, e))
         /\ Start(ids, e + 1) = Start(ids, e) + Weight(ids)[e]
         /\ Start(ids, e) + TotalOf(ids, e) <= Start(ids, e + 1)
         /\ Start(ids, e + 1) <= Start(ids, NumExperts)
         /\ \A f \in Experts : f # e =>
              Start(ids, f + 1) <= Start(ids, e) \/ Start(ids, e + 1) <= Start(ids, f)
  <1>1. TwoTo[Rounds] \in Nat /\ NumExperts \in 0 .. TwoTo[Rounds]
    BY RoundsSuffice, TwoToGrows
  <1>2. \A f \in Experts : /\ f \in Nat /\ f + 1 <= NumExperts /\ f \in Threads
                           /\ f \in 0 .. TwoTo[Rounds] /\ f + 1 \in 0 .. TwoTo[Rounds]
    BY <1>1, RoundsSuffice DEF Experts
  <1>3. /\ Start(ids, e) \in Nat /\ Start(ids, e + 1) \in Nat
        /\ Start(ids, e + 1) = Start(ids, e) + Weight(ids)[e]
    BY <1>2, StartIs
  <1>4. /\ Weight(ids)[e] \in Nat /\ TotalOf(ids, e) \in Nat
        /\ Weight(ids)[e] = Aligned(TotalOf(ids, e)) /\ TotalOf(ids, e) <= Weight(ids)[e]
    BY <1>2, WeightIs
  <1>5. Start(ids, e + 1) <= Start(ids, NumExperts)
    BY <1>1, <1>2, StartGrows
  <1>6. ASSUME NEW f \in Experts, f # e
        PROVE  Start(ids, f + 1) <= Start(ids, e) \/ Start(ids, e + 1) <= Start(ids, f)
    <2>1. f + 1 <= e \/ e + 1 <= f
      BY <1>2, <1>6
    <2>2. QED
      BY <1>2, <2>1, StartGrows
  <1>7. QED
    BY <1>3, <1>4, <1>5, <1>6

\* An expert's first row is where the rows of those before it end; the rows that
\* complete its last block are its own, and no other's.
LEMMA PublishKeeps ==
  ASSUME MoeInv, NEW t \in Threads, Publish(t)
  PROVE  MoeInv'
  <1>0. /\ Rounds \in Nat /\ LastStep \in 1 .. LastStep /\ LastStep - 1 >= 1
        /\ Level(LastStep - 1) = Rounds /\ Level(LastStep) = Rounds
        /\ \A k \in 1 .. Rounds : LastStep # 2 * k
    <2>1. Rounds \in Nat
      BY RoundsSuffice
    <2>2. (2 * Rounds) \div 2 = Rounds /\ (2 * Rounds + 1) \div 2 = Rounds
          /\ ((2 * Rounds + 2) - 1) - 1 = 2 * Rounds /\ (2 * Rounds + 2) - 1 = 2 * Rounds + 1
      BY <2>1
    <2>3. QED
      BY <2>1, <2>2 DEF LastStep, Level
  <1> DEFINE start == prefix[t] - Aligned(CountOf(t))
  <1>1. /\ InScan(t, LastStep) /\ UNCHANGED <<counts, prefix, addend>>
        /\ t \in Experts => cursor' = [cursor EXCEPT ![t] = start] /\ mIndices' = Padded(t, start)
        /\ t \notin Experts => UNCHANGED <<cursor, mIndices>>
    BY DEF Publish
  <1>2. BufferTypes /\ CountInv /\ ScanInv /\ PublishInv /\ IsCall(topkIds)
    BY DEF MoeInv, BufferTypes
  <1>3. /\ kernel \in Scans /\ kernel' = kernel /\ todo = {} /\ todo' = {} /\ topkIds' = topkIds
        /\ UNCHANGED <<ended, local, src2dst, rows, output>>
        /\ at[t] = LastStep - 1 /\ at'[t] = LastStep
        /\ at' \in [Threads -> 0 .. LastStep]
        /\ \A u \in Threads : u # t => at'[u] = at[u]
        /\ PlaceInv' /\ CopyInv'
    BY <1>0, <1>1, ScanStep
  <1>4. prefix[t] = Partial(topkIds, t, Rounds) /\ prefix[t] = Start(topkIds, t + 1)
    BY <1>0, <1>2, <1>3, PartialIs DEF ScanInv
  <1>5. ASSUME t \in Experts
        PROVE  /\ start = Start(topkIds, t) /\ CountOf(t) = TotalOf(topkIds, t)
               /\ start + Aligned(CountOf(t)) = Start(topkIds, t + 1)
               /\ start \in Nat /\ Aligned(CountOf(t)) \in Nat /\ Start(topkIds, t + 1) \in Nat
    <2>1. CountOf(t) = TotalOf(topkIds, t)
      BY <1>2, <1>3, <1>5, CountOfIs
    <2>2. /\ Start(topkIds, t + 1) = Start(topkIds, t) + Aligned(CountOf(t))
          /\ Start(topkIds, t) \in Nat /\ Aligned(CountOf(t)) \in Nat
          /\ Start(topkIds, t + 1) \in Nat
      BY <1>2, <1>5, <2>1, RegionsApart
    <2>3. QED
      BY <1>4, <2>1, <2>2
  <1> HIDE DEF start
  <1>6. t \in Experts =>
          /\ cursor' = [cursor EXCEPT ![t] = Start(topkIds, t)]
          /\ mIndices' = [r \in Rows |->
               IF r \in Start(topkIds, t) + TotalOf(topkIds, t) .. Start(topkIds, t + 1) - 1
               THEN t ELSE mIndices[r]]
    <2> SUFFICES ASSUME t \in Experts
                 PROVE  /\ cursor' = [cursor EXCEPT ![t] = Start(topkIds, t)]
                        /\ mIndices' = [r \in Rows |->
                             IF r \in Start(topkIds, t) + TotalOf(topkIds, t)
                                      .. Start(topkIds, t + 1) - 1
                             THEN t ELSE mIndices[r]]
      OBVIOUS
    <2>1. start = Start(topkIds, t)
      BY <1>5
    <2>2. start + CountOf(t) = Start(topkIds, t) + TotalOf(topkIds, t)
      BY <1>5
    <2>3. start + Aligned(CountOf(t)) - 1 = Start(topkIds, t + 1) - 1
      BY <1>5
    <2>4. Padded(t, start) = [r \in Rows |->
                               IF r \in start + CountOf(t) .. start + Aligned(CountOf(t)) - 1
                               THEN t ELSE mIndices[r]]
      BY DEF Padded
    <2>5. QED
      BY <1>1, <2>1, <2>2, <2>3, <2>4
  <1>7. BufferTypes'
    <2>1. cursor' \in [Experts -> Int] /\ mIndices' \in [Rows -> Experts \cup {Junk}]
      <3>1. t \in Experts => Start(topkIds, t) \in Int
        BY <1>2, RegionsApart
      <3>2. cursor \in [Experts -> Int] /\ mIndices \in [Rows -> Experts \cup {Junk}]
        BY <1>2 DEF BufferTypes
      <3>3. QED
        BY <1>1, <1>6, <3>1, <3>2
    <2>2. QED
      BY <1>1, <1>2, <1>3, <2>1, SameCall DEF BufferTypes
  <1>8. CountInv'
    BY <1>1, <1>2, <1>3, CountFrame
  <1>9. ScanInv'
    BY <1>0, <1>1, <1>4, ScanStepKeeps
  <1>10. PublishInv'
    <2>1. \A r \in Rows : r \in Nat
      BY DEF Rows
    <2>2. CASE t \in Experts
      <3>1. RestLabelled'
        <4> SUFFICES ASSUME NEW r \in Rows, Start(topkIds, NumExperts) <= r
                     PROVE  mIndices'[r] = NumExperts - 1
          BY <1>3, SameCall DEF RestLabelled
        <4>1. Start(topkIds, t + 1) <= Start(topkIds, NumExperts) /\ Start(topkIds, t + 1) \in Nat
          BY <1>2, <2>2, RegionsApart
        <4>2. Start(topkIds, NumExperts) \in Nat
          BY <1>2, RoundsSuffice, TwoToGrows, StartIs
        <4>3. mIndices'[r] = mIndices[r]
          BY <1>6, <2>1, <2>2, <4>1, <4>2
        <4>4. QED
          BY <1>2, <1>3, <4>3 DEF PublishInv, RestLabelled
      <3>2. ASSUME NEW e \in Experts, at'[e] = LastStep
            PROVE  cursor'[e] = Start(topkIds, e) /\ PadsLabelled(e)'
        <4>1. CASE e = t
          <5>1. cursor'[t] = Start(topkIds, t)
            BY <1>2, <1>6, <2>2 DEF BufferTypes
          <5>2. Start(topkIds, t) \in Nat /\ TotalOf(topkIds, t) \in Nat
                /\ Start(topkIds, t + 1) \in Nat
            BY <1>2, <2>2, RegionsApart
          <5>3. \A r \in Rows : Start(topkIds, t) + TotalOf(topkIds, t) <= r
                                  /\ r < Start(topkIds, t + 1) => mIndices'[r] = t
            BY <1>6, <2>1, <2>2, <5>2
          <5>4. QED
            BY <1>3, <4>1, <5>1, <5>3, SameCall DEF PadsLabelled
        <4>2. CASE e # t
          <5>1. at[e] = LastStep
            BY <1>3, <3>2, <4>2, RoundsSuffice
          <5>2. cursor[e] = Start(topkIds, e) /\ PadsLabelled(e)
            BY <1>2, <1>3, <5>1 DEF PublishInv
          <5>3. cursor'[e] = cursor[e]
            BY <1>2, <1>6, <2>2, <4>2 DEF BufferTypes
          <5>4. ASSUME NEW r \in Rows, Start(topkIds, e) + TotalOf(topkIds, e) <= r,
                       r < Start(topkIds, e + 1)
                PROVE  mIndices'[r] = e
            <6>1. \/ Start(topkIds, e + 1) <= Start(topkIds, t)
                  \/ Start(topkIds, t + 1) <= Start(topkIds, e)
              BY <1>2, <2>2, <4>2, RegionsApart
            <6>2. /\ Start(topkIds, e) \in Nat /\ Start(topkIds, e + 1) \in Nat
                  /\ TotalOf(topkIds, e) \in Nat
                  /\ Start(topkIds, t) \in Nat /\ Start(topkIds, t + 1) \in Nat
                  /\ TotalOf(topkIds, t) \in Nat
              BY <1>2, <2>2, RegionsApart
            <6>3. ~(r \in Start(topkIds, t) + TotalOf(topkIds, t) .. Start(topkIds, t + 1) - 1)
              BY <2>1, <5>4, <6>1, <6>2
            <6>4. mIndices'[r] = mIndices[r]
              BY <1>6, <2>2, <6>3
            <6>5. QED
              BY <5>2, <5>4, <6>4 DEF PadsLabelled
          <5>5. QED
            BY <1>3, <5>2, <5>3, <5>4, SameCall DEF PadsLabelled
        <4>3. QED
          BY <4>1, <4>2
      <3>3. QED
        BY <1>3, <3>1, <3>2 DEF PublishInv
    <2>3. CASE t \notin Experts
      <3>1. \A e \in Experts : at'[e] = at[e]
        BY <1>3, <2>3, RoundsSuffice
      <3>2. UNCHANGED <<cursor, mIndices, topkIds, kernel>>
        BY <1>1, <1>3, <2>3
      <3>3. QED
        BY <1>2, <3>1, <3>2, SameCall DEF PublishInv, RestLabelled, PadsLabelled
    <2>4. QED
      BY <2>2, <2>3
  <1>11. QED
    BY <1>3, <1>7, <1>8, <1>9, <1>10 DEF MoeInv

----------------------------------------------------------------------------
(* Placing the rows.                                                       *)

\* The scan hands every expert's cursor over at its first row.
LEMMA StartCompactKeeps ==
  ASSUME MoeInv, StartCompact
  PROVE  MoeInv'
  <1>1. /\ kernel \in Scans /\ kernel' = "compact" /\ todo' = Slots /\ topkIds' = topkIds
        /\ \A t \in Threads : at[t] = LastStep
        /\ UNCHANGED <<ended, local, counts, at, prefix, addend, cursor, mIndices, src2dst, rows,
                       output>>
    BY DEF StartCompact, Scans, call, counting, scanning, placing
  <1>2. BufferTypes /\ CountInv /\ PublishInv /\ IsCall(topkIds)
    BY DEF MoeInv, BufferTypes
  <1>3. BufferTypes'
    BY <1>1, <1>2, SameCall DEF BufferTypes, Placing
  <1>4. CountInv' /\ ScanInv' /\ PublishInv'
    BY <1>1, PastScan DEF Placing
  <1>5. PlaceInv'
    <2>1. Slots' \ todo' = {}
      BY <1>1, SameCall
    <2>2. RestLabelled' /\ \A e \in Experts : PadsLabelled(e) => PadsLabelled(e)'
      BY <1>1, <1>2, SameCall DEF PublishInv, RestLabelled, PadsLabelled
    <2>3. ASSUME NEW e \in Experts
          PROVE  /\ cursor'[e] = Start(topkIds, e) /\ PadsLabelled(e)'
                 /\ Start(topkIds, e) \in Nat
                 /\ cursor'[e] = Start(topkIds, e) + Cardinality(Placed(e)')
      <3>1. cursor[e] = Start(topkIds, e) /\ PadsLabelled(e)
        BY <1>1, <1>2, RoundsSuffice DEF PublishInv
      <3>2. Placed(e)' = {}
        BY <2>1 DEF Placed
      <3>3. Cardinality(Placed(e)') = 0
        BY <3>2, FS_EmptySet
      <3>4. Start(topkIds, e) \in Nat
        BY <1>2, RegionsApart
      <3>5. QED
        BY <1>1, <2>2, <3>1, <3>3, <3>4
    <2>4. \A r \in Rows' : r \in Nat
      BY DEF Rows
    <2>5. \A e \in Experts, r \in Rows' :
            Start(topkIds, e) <= r /\ r < cursor'[e] => mIndices'[r] = e
      BY <2>3, <2>4
    <2>6. QED
      BY <1>1, <2>1, <2>2, <2>3, <2>5 DEF PlaceInv
  <1>6. CopyInv'
    BY <1>1, <1>2 DEF CopyInv, CountInv
  <1>7. QED
    BY <1>3, <1>4, <1>5, <1>6 DEF MoeInv

\* There is a number of rows.
LEMMA RowsAre ==
  ASSUME IsCall(topkIds)
  PROVE  /\ AllTokens(Cardinality(Slots)) \in Nat
         /\ IsFiniteSet(Rows) /\ Cardinality(Rows) = AllTokens(Cardinality(Slots))
  <1>1. Cardinality(Slots) \in Nat
    BY SlotsAreFinite DEF Slots
  <1>2. NumExperts * (BlockM - 1) \in Nat
    BY MoeAssumption
  <1>3. Cardinality(Slots) + NumExperts * (BlockM - 1) \in Nat
    BY <1>1, <1>2
  <1>4. AllTokens(Cardinality(Slots)) \in Nat
    BY <1>3, AlignedIs DEF AllTokens
  <1> DEFINE N == AllTokens(Cardinality(Slots))
  <1>5. IsFiniteSet(0 .. N - 1) /\ Cardinality(0 .. N - 1) = N
    <2> HIDE DEF N
    <2>1. N \in Nat
      BY <1>4 DEF N
    <2>2. N - 1 \in Int /\ (N - 1) - 0 + 1 = N /\ (0 > N - 1 => N = 0)
      BY <2>1
    <2>3. QED
      BY <2>1, <2>2, FS_Interval
  <1>6. QED
    BY <1>4, <1>5 DEF Rows

\* No cursor passes the rows of its expert's slots, and those are in the buffers.
LEMMA CursorBound ==
  ASSUME BufferTypes, PlaceInv, kernel \in Placing
  PROVE  /\ \A e \in Experts :
              /\ IsFiniteSet(Placed(e)) /\ Cardinality(Placed(e)) \in Nat
              /\ cursor[e] \in Nat /\ Start(topkIds, e) <= cursor[e]
              /\ cursor[e] <= Start(topkIds, e) + TotalOf(topkIds, e)
         /\ \A s \in todo : IsLocal(s) =>
              cursor[topkIds[s]] < Start(topkIds, topkIds[s]) + TotalOf(topkIds, topkIds[s])
         /\ \A r \in Nat : r < Start(topkIds, NumExperts) => r \in Rows
  <1>1. IsCall(topkIds) /\ todo \subseteq Slots
    BY DEF BufferTypes
  <1>2. ASSUME NEW e \in Experts
        PROVE  /\ IsFiniteSet(SlotsAt(topkIds, e)) /\ Placed(e) \subseteq SlotsAt(topkIds, e)
               /\ IsFiniteSet(Placed(e)) /\ Cardinality(Placed(e)) \in Nat
               /\ Cardinality(Placed(e)) <= TotalOf(topkIds, e)
               /\ cursor[e] = Start(topkIds, e) + Cardinality(Placed(e))
               /\ Start(topkIds, e) \in Nat /\ TotalOf(topkIds, e) \in Nat
    <2>1. SlotsAt(topkIds, e) \in SUBSET DOMAIN topkIds /\ Placed(e) \in SUBSET DOMAIN topkIds
          /\ Placed(e) \subseteq SlotsAt(topkIds, e)
      BY DEF Placed, SlotsAt, Slots
    <2>2. /\ IsFiniteSet(SlotsAt(topkIds, e))
          /\ IsFiniteSet(Placed(e)) /\ Cardinality(Placed(e)) \in Nat
      BY <1>1, <2>1, SlotsAreFinite
    <2>3. Cardinality(Placed(e)) <= TotalOf(topkIds, e)
      BY <2>1, <2>2, FS_Subset DEF TotalOf
    <2>4. cursor[e] = Start(topkIds, e) + Cardinality(Placed(e))
      BY DEF PlaceInv
    <2>5. Start(topkIds, e) \in Nat /\ TotalOf(topkIds, e) \in Nat
      BY <1>1, RegionsApart
    <2>6. QED
      BY <2>1, <2>2, <2>3, <2>4, <2>5
  <1>3. ASSUME NEW s \in todo, IsLocal(s)
        PROVE  cursor[topkIds[s]] < Start(topkIds, topkIds[s]) + TotalOf(topkIds, topkIds[s])
    <2> DEFINE e == topkIds[s]
    <2>1. e \in Experts /\ s \in SlotsAt(topkIds, e) /\ s \notin Placed(e)
      BY <1>1, <1>3 DEF IsLocal, SlotsAt, Slots, Placed
    <2>2. Cardinality(Placed(e)) # TotalOf(topkIds, e)
      BY <1>2, <2>1, FS_Subset DEF TotalOf
    <2> HIDE DEF e
    <2>3. cursor[e] < Start(topkIds, e) + TotalOf(topkIds, e)
      BY <1>2, <2>1, <2>2
    <2>4. QED
      BY <2>3 DEF e
  <1>4. ASSUME NEW r \in Nat, r < Start(topkIds, NumExperts) PROVE r \in Rows
    <2>1. Start(topkIds, NumExperts) <= AllTokens(Cardinality(Slots))
      BY <1>1, RoomForAll DEF Slots
    <2>2. Start(topkIds, NumExperts) \in Nat
      BY <1>1, RoundsSuffice, TwoToGrows, StartIs
    <2>3. AllTokens(Cardinality(Slots)) \in Nat
      BY <1>1, RowsAre
    <2>4. QED
      BY <1>4, <2>1, <2>2, <2>3 DEF Rows
  <1>5. QED
    BY <1>2, <1>3, <1>4

\* What a slot of a local expert takes: a row of its expert's that no cursor has passed.
LEMMA RowTaken ==
  ASSUME MoeInv, NEW s \in Slots, Assign(s), IsLocal(s)
  PROVE  LET e == topkIds[s]
         IN  /\ e \in Experts /\ cursor[e] \in Rows /\ cursor[e] \in Nat
             /\ Start(topkIds, e) <= cursor[e]
             /\ cursor[e] < Start(topkIds, e) + TotalOf(topkIds, e)
             /\ \A f \in Experts : /\ Start(topkIds, f) \in Nat /\ cursor[f] \in Nat
                                   /\ f # e => cursor[e] < Start(topkIds, f)
                                                 \/ Start(topkIds, f + 1) <= cursor[e]
                                   /\ cursor[f] <= Start(topkIds, f) + TotalOf(topkIds, f)
                                   /\ cursor[f] <= Start(topkIds, f + 1)
                                   /\ Start(topkIds, f + 1) \in Nat /\ TotalOf(topkIds, f) \in Nat
             /\ cursor[e] < Start(topkIds, NumExperts) /\ Start(topkIds, NumExperts) \in Nat
  <1> DEFINE e == topkIds[s]
  <1>1. s \in todo /\ kernel = "compact" /\ e \in Experts
    BY DEF Assign, IsLocal
  <1>2. BufferTypes /\ PlaceInv /\ IsCall(topkIds) /\ kernel \in Placing
    BY <1>1 DEF MoeInv, BufferTypes, Placing
  <1>3. /\ cursor[e] < Start(topkIds, e) + TotalOf(topkIds, e)
        /\ \A r \in Nat : r < Start(topkIds, NumExperts) => r \in Rows
        /\ \A f \in Experts :
             /\ cursor[f] \in Nat /\ Start(topkIds, f) <= cursor[f]
             /\ cursor[f] <= Start(topkIds, f) + TotalOf(topkIds, f)
    BY <1>1, <1>2, CursorBound
  <1>4. \A f \in Experts :
          /\ Start(topkIds, f) \in Nat /\ Start(topkIds, f + 1) \in Nat
          /\ TotalOf(topkIds, f) \in Nat
          /\ Start(topkIds, f) + TotalOf(topkIds, f) <= Start(topkIds, f + 1)
    BY <1>2, RegionsApart
  <1>5. Start(topkIds, e + 1) <= Start(topkIds, NumExperts) /\ Start(topkIds, NumExperts) \in Nat
    BY <1>1, <1>2, RegionsApart, RoundsSuffice, TwoToGrows, StartIs
  <1>6. \A f \in Experts : f # e => \/ Start(topkIds, f + 1) <= Start(topkIds, e)
                                    \/ Start(topkIds, e + 1) <= Start(topkIds, f)
    BY <1>1, <1>2, RegionsApart
  <1> HIDE DEF e
  <1>7. cursor[e] < Start(topkIds, NumExperts) /\ cursor[e] \in Rows
    BY <1>1, <1>3, <1>4, <1>5
  <1>8. \A f \in Experts : f # e => cursor[e] < Start(topkIds, f)
                                      \/ Start(topkIds, f + 1) <= cursor[e]
    BY <1>1, <1>3, <1>4, <1>6
  <1>9. \A f \in Experts : cursor[f] <= Start(topkIds, f + 1)
    BY <1>3, <1>4
  <1>10. QED
    BY <1>1, <1>3, <1>4, <1>5, <1>7, <1>8, <1>9 DEF e

\* Whatever slot comes next, it takes a row of its expert's that no other has.
LEMMA AssignKeeps ==
  ASSUME MoeInv, NEW s \in Slots, Assign(s)
  PROVE  MoeInv'
  <1> DEFINE e == topkIds[s]
  <1>1. /\ kernel = "compact" /\ kernel' = "compact" /\ s \in todo /\ todo' = todo \ {s}
        /\ topkIds' = topkIds
        /\ UNCHANGED <<ended, local, counts, at, prefix, addend, rows, output>>
    BY DEF Assign, call, counting, scanning
  <1>2. BufferTypes /\ PlaceInv /\ CopyInv /\ IsCall(topkIds)
    BY DEF MoeInv, BufferTypes
  <1>3. /\ todo \subseteq Slots /\ cursor \in [Experts -> Int]
        /\ mIndices \in [Rows -> Experts \cup {Junk}]
        /\ src2dst \in [Slots -> Rows \cup {None, Junk}]
    BY <1>2 DEF BufferTypes
  <1>4. CountInv' /\ ScanInv' /\ PublishInv'
    BY <1>1, PastScan DEF Placing
  <1>5. CopyInv'
    <2>1. \A u \in Slots : u # s => src2dst'[u] = src2dst[u]
      BY <1>3 DEF Assign
    <2>2. \A token \in ended : Copied(token) => Copied(token)'
      BY <1>1, <2>1, SameCall DEF Copied, SlotsOf
    <2>3. QED
      BY <1>1, <1>2, <2>2, SameCall DEF CopyInv, Placing
  <1>6. \A f \in Experts : PadsLabelled(f) /\ Start(topkIds, f) \in Nat
    BY <1>1, <1>2, RegionsApart DEF PlaceInv, Placing
  <1>7. \A r \in Rows : r \in Nat
    BY DEF Rows
  <1>8. CASE ~IsLocal(s)
    <2>1. UNCHANGED <<cursor, mIndices>> /\ src2dst' = [src2dst EXCEPT ![s] = None]
      BY <1>8 DEF Assign
    <2>2. \A f \in Experts : Placed(f)' = Placed(f)
      BY <1>1, <1>8, SameCall DEF Placed, IsLocal
    <2>3. BufferTypes'
      BY <1>1, <1>2, <1>3, <2>1, SameCall DEF BufferTypes
    <2>4. RestLabelled' /\ \A f \in Experts : PadsLabelled(f)'
      BY <1>1, <1>2, <1>6, <2>1, SameCall DEF PlaceInv, RestLabelled, PadsLabelled, Placing
    <2>5. \A u \in Slots \ todo' : SlotPlaced(u)'
      <3> SUFFICES ASSUME NEW u \in Slots \ todo' PROVE SlotPlaced(u)'
        OBVIOUS
      <3>1. CASE u = s
        BY <1>1, <1>3, <1>8, <2>1, <3>1, SameCall DEF SlotPlaced
      <3>2. CASE u # s
        <4>1. SlotPlaced(u) /\ src2dst'[u] = src2dst[u]
          BY <1>1, <1>2, <1>3, <2>1, <3>2 DEF PlaceInv, Placing
        <4>2. QED
          BY <1>1, <2>1, <4>1, SameCall DEF SlotPlaced
      <3>3. QED
        BY <3>1, <3>2
    <2>6. ASSUME NEW u \in Slots \ todo', NEW v \in Slots \ todo', u # v, IsLocal(u), IsLocal(v)
          PROVE  src2dst'[u] # src2dst'[v]
      <3>1. u # s /\ v # s
        BY <1>8, <2>6
      <3>2. QED
        BY <1>1, <1>2, <1>3, <2>1, <2>6, <3>1 DEF PlaceInv, Placing
    <2>7. PlaceInv'
      <3>1. \A f \in Experts :
              /\ cursor'[f] = Start(topkIds, f) + Cardinality(Placed(f)')
              /\ \A r \in Rows : Start(topkIds, f) <= r /\ r < cursor'[f] => mIndices'[r] = f
        BY <1>1, <1>2, <2>1, <2>2 DEF PlaceInv, Placing
      <3>2. QED
        BY <1>1, <2>4, <2>5, <2>6, <3>1, SameCall DEF PlaceInv
    <2>8. QED
      BY <1>4, <1>5, <2>3, <2>7 DEF MoeInv
  <1>9. CASE IsLocal(s)
    <2> DEFINE dst == cursor[e]
    <2>1. /\ e \in Experts /\ dst \in Rows /\ dst \in Nat
          /\ Start(topkIds, e) <= dst
          /\ dst < Start(topkIds, e) + TotalOf(topkIds, e)
          /\ \A f \in Experts : /\ Start(topkIds, f) \in Nat /\ cursor[f] \in Nat
                                /\ f # e => dst < Start(topkIds, f) \/ Start(topkIds, f + 1) <= dst
                                /\ cursor[f] <= Start(topkIds, f) + TotalOf(topkIds, f)
                                /\ cursor[f] <= Start(topkIds, f + 1)
                                /\ Start(topkIds, f + 1) \in Nat /\ TotalOf(topkIds, f) \in Nat
          /\ dst < Start(topkIds, NumExperts) /\ Start(topkIds, NumExperts) \in Nat
      BY <1>9, RowTaken
    <2>2. /\ cursor' = [cursor EXCEPT ![e] = dst + 1]
          /\ src2dst' = [src2dst EXCEPT ![s] = dst]
          /\ mIndices' = [mIndices EXCEPT ![dst] = e]
      BY <1>9, <2>1 DEF Assign
    <2> HIDE DEF e, dst
    <2>3. /\ cursor' \in [Experts -> Int] /\ cursor'[e] = dst + 1
          /\ \A f \in Experts : (f # e => cursor'[f] = cursor[f]) /\ cursor[f] <= cursor'[f]
      <3>1. cursor' \in [Experts -> Int] /\ cursor'[e] = dst + 1
            /\ \A f \in Experts : f # e => cursor'[f] = cursor[f]
        BY <1>3, <2>1, <2>2
      <3>2. cursor[e] = dst
        BY DEF dst
      <3>3. QED
        BY <2>1, <3>1, <3>2
    <2>4. /\ mIndices' \in [Rows -> Experts \cup {Junk}] /\ mIndices'[dst] = e
          /\ \A r \in Rows : r # dst => mIndices'[r] = mIndices[r]
      BY <1>3, <2>1, <2>2
    <2>5. /\ src2dst' \in [Slots -> Rows \cup {None, Junk}] /\ src2dst'[s] = dst
          /\ \A u \in Slots : u # s => src2dst'[u] = src2dst[u]
      BY <1>3, <2>1, <2>2
    <2>6. BufferTypes'
      BY <1>1, <1>2, <1>3, <2>3, <2>4, <2>5, SameCall DEF BufferTypes
    <2>7. RestLabelled'
      <3>1. \A r \in Rows : Start(topkIds, NumExperts) <= r => r # dst
        BY <1>7, <2>1
      <3>2. QED
        BY <1>1, <1>2, <2>4, <3>1, SameCall DEF PlaceInv, RestLabelled, Placing
    <2>8. \A f \in Experts : PadsLabelled(f)'
      <3> SUFFICES ASSUME NEW f \in Experts, NEW r \in Rows,
                          Start(topkIds, f) + TotalOf(topkIds, f) <= r, r < Start(topkIds, f + 1)
                   PROVE  mIndices'[r] = f
        BY <1>1, SameCall DEF PadsLabelled
      <3>1. r # dst
        BY <1>7, <2>1
      <3>2. QED
        BY <1>6, <2>4, <3>1 DEF PadsLabelled
    <2>9. ASSUME NEW f \in Experts PROVE cursor'[f] = Start(topkIds, f) + Cardinality(Placed(f)')
      <3>1. cursor[f] = Start(topkIds, f) + Cardinality(Placed(f))
        BY <1>1, <1>2 DEF PlaceInv, Placing
      <3>2. IsFiniteSet(Placed(f)) /\ Cardinality(Placed(f)) \in Nat
        BY <1>1, <1>2, CursorBound DEF Placing
      <3>3. CASE f = e
        <4>1. Placed(f)' = Placed(f) \cup {s} /\ s \notin Placed(f)
          BY <1>1, <3>3, SameCall DEF Placed, e
        <4>2. Cardinality(Placed(f)') = Cardinality(Placed(f)) + 1
          BY <3>2, <4>1, FS_AddElement
        <4>3. dst = cursor[f]
          BY <3>3 DEF dst
        <4>4. QED
          BY <2>1, <2>3, <3>1, <3>2, <3>3, <4>2, <4>3
      <3>4. CASE f # e
        <4>1. Placed(f)' = Placed(f)
          BY <1>1, <3>4, SameCall DEF Placed, e
        <4>2. QED
          BY <2>3, <3>1, <3>4, <4>1
      <3>5. QED
        BY <3>3, <3>4
    <2>10. ASSUME NEW f \in Experts, NEW r \in Rows, Start(topkIds, f) <= r, r < cursor'[f]
           PROVE  mIndices'[r] = f
      <3>1. \A q \in Rows : Start(topkIds, f) <= q /\ q < cursor[f] => mIndices[q] = f
        BY <1>1, <1>2 DEF PlaceInv, Placing
      <3>2. CASE f = e
        <4>1. dst = cursor[f]
          BY <3>2 DEF dst
        <4>2. r = dst \/ r < dst
          BY <1>7, <2>1, <2>3, <2>10, <3>2
        <4>3. QED
          BY <1>7, <2>1, <2>4, <2>10, <3>1, <3>2, <4>1, <4>2
      <3>3. CASE f # e
        <4>1. r < cursor[f] /\ r # dst
          BY <1>7, <2>1, <2>3, <2>10, <3>3
        <4>2. QED
          BY <2>4, <2>10, <3>1, <4>1
      <3>4. QED
        BY <3>2, <3>3
    <2>11. ASSUME NEW u \in Slots \ todo' PROVE SlotPlaced(u)'
      <3>1. CASE u = s
        <4>1. IsLocal(u)' /\ topkIds'[u] = e /\ src2dst'[u] = dst
          BY <1>1, <1>9, <2>5, <3>1, SameCall DEF e
        <4>2. dst \in Rows /\ Start(topkIds, e) <= dst /\ dst < cursor'[e]
          BY <2>1, <2>3
        <4>3. QED
          BY <1>1, <4>1, <4>2, SameCall DEF SlotPlaced
      <3>2. CASE u # s
        <4>1. SlotPlaced(u) /\ src2dst'[u] = src2dst[u]
          BY <1>1, <1>2, <2>5, <2>11, <3>2 DEF PlaceInv, Placing
        <4>2. CASE IsLocal(u)
          <5>1. topkIds[u] \in Experts
            BY <4>2 DEF IsLocal
          <5>2. /\ src2dst[u] \in Rows /\ Start(topkIds, topkIds[u]) <= src2dst[u]
                /\ src2dst[u] < cursor[topkIds[u]]
            BY <4>1, <4>2 DEF SlotPlaced
          <5>3. cursor[topkIds[u]] \in Int /\ cursor'[topkIds[u]] \in Int
                /\ cursor[topkIds[u]] <= cursor'[topkIds[u]]
            BY <1>3, <2>3, <5>1
          <5>4. src2dst[u] < cursor'[topkIds[u]]
            BY <1>7, <5>2, <5>3
          <5>5. QED
            BY <1>1, <4>1, <4>2, <5>2, <5>4, SameCall DEF SlotPlaced
        <4>3. CASE ~IsLocal(u)
          BY <1>1, <4>1, <4>3, SameCall DEF SlotPlaced
        <4>4. QED
          BY <4>2, <4>3
      <3>3. QED
        BY <3>1, <3>2
    <2>12. ASSUME NEW u \in Slots \ todo, IsLocal(u) PROVE src2dst'[u] # dst
      <3>1. u # s /\ src2dst'[u] = src2dst[u] /\ topkIds[u] \in Experts
        BY <1>1, <2>5, <2>12 DEF IsLocal
      <3>2. /\ src2dst[u] \in Rows /\ Start(topkIds, topkIds[u]) <= src2dst[u]
            /\ src2dst[u] < cursor[topkIds[u]]
        BY <1>1, <1>2, <2>12 DEF PlaceInv, SlotPlaced, Placing
      <3>3. topkIds[u] = e => cursor[topkIds[u]] = dst
        BY DEF dst
      <3>4. QED
        BY <1>7, <2>1, <3>1, <3>2, <3>3
    <2>13. ASSUME NEW u \in Slots \ todo', NEW v \in Slots \ todo', u # v, IsLocal(u), IsLocal(v)
           PROVE  src2dst'[u] # src2dst'[v]
      <3>1. CASE u = s
        BY <1>1, <2>5, <2>12, <2>13, <3>1
      <3>2. CASE v = s
        BY <1>1, <2>5, <2>12, <2>13, <3>2
      <3>3. CASE u # s /\ v # s
        BY <1>1, <1>2, <2>5, <2>13, <3>3 DEF PlaceInv, Placing
      <3>4. QED
        BY <3>1, <3>2, <3>3
    <2>14. PlaceInv'
      BY <1>1, <2>7, <2>8, <2>9, <2>10, <2>11, <2>13, SameCall DEF PlaceInv
    <2>15. QED
      BY <1>4, <1>5, <2>6, <2>14 DEF MoeInv
  <1>10. QED
    BY <1>8, <1>9

----------------------------------------------------------------------------
(* Copying, the grouped GEMM, and bringing the results back.               *)

\* A slot has a row exactly when its expert is on this rank.
LEMMA HasRow ==
  ASSUME BufferTypes, PlaceInv, kernel \in Placing, NEW s \in Slots \ todo
  PROVE  /\ src2dst[s] \in Rows <=> IsLocal(s)
         /\ src2dst[s] # None <=> IsLocal(s)
  <1>1. SlotPlaced(s)
    BY DEF PlaceInv
  <1>2. None \notin Rows
    BY DEF None, Rows
  <1>3. QED
    BY <1>1, <1>2 DEF SlotPlaced

\* No other token's row is overwritten.
LEMMA CopyTokenKeeps ==
  ASSUME MoeInv, NEW token \in Tokens, CopyToken(token)
  PROVE  MoeInv'
  <1>1. /\ kernel = "compact" /\ kernel' = "compact" /\ topkIds' = topkIds
        /\ ended' = ended \cup {token} /\ AllAssigned(token)
        /\ rows' = [r \in Rows |->
                      IF \E s \in SlotsOf(token) : src2dst[s] = r THEN token ELSE rows[r]]
        /\ UNCHANGED <<todo, local, counts, at, prefix, addend, cursor, mIndices, src2dst, output>>
    BY DEF CopyToken, call, counting, scanning
  <1>2. BufferTypes /\ PlaceInv /\ CopyInv
    BY DEF MoeInv
  <1>3. BufferTypes'
    <2>1. rows' \in [Rows -> Tokens \cup {Junk}]
      BY <1>1, <1>2 DEF BufferTypes
    <2>2. QED
      BY <1>1, <1>2, <2>1, SameCall DEF BufferTypes
  <1>4. CountInv' /\ ScanInv' /\ PublishInv'
    BY <1>1, PastScan DEF Placing
  <1>5. PlaceInv'
    <2>1. \A e : Placed(e)' = Placed(e)
      BY <1>1, SameCall DEF Placed
    <2>2. \A s : SlotPlaced(s) => SlotPlaced(s)'
      BY <1>1, SameCall DEF SlotPlaced
    <2>3. RestLabelled => RestLabelled'
      BY <1>1, SameCall DEF RestLabelled
    <2>4. \A e : PadsLabelled(e) => PadsLabelled(e)'
      BY <1>1, SameCall DEF PadsLabelled
    <2>5. QED
      BY <1>1, <1>2, <2>1, <2>2, <2>3, <2>4, SameCall DEF PlaceInv
  <1>6. CopyInv'
    <2>1. ASSUME NEW other \in ended', NEW s \in SlotsOf(other)
          PROVE  s \notin todo /\ (src2dst[s] \in Rows => rows'[src2dst[s]] = other)
      <3>1. CASE other = token
        <4>1. s \notin todo
          BY <1>1, <2>1, <3>1 DEF AllAssigned
        <4>2. QED
          BY <1>1, <2>1, <3>1, <4>1
      <3>2. CASE other # token
        <4>1. s \in Slots /\ s \notin todo /\ (src2dst[s] \in Rows => rows[src2dst[s]] = other)
          BY <1>1, <1>2, <2>1, <3>2 DEF CopyInv, Copied, SlotsOf
        <4>2. ASSUME src2dst[s] \in Rows, NEW u \in SlotsOf(token), src2dst[u] = src2dst[s]
              PROVE  FALSE
          <5>1. u \in Slots \ todo /\ u # s
            BY <1>1, <2>1, <3>2 DEF AllAssigned, SlotsOf
          <5>2. IsLocal(s) /\ IsLocal(u)
            BY <1>1, <1>2, <4>1, <4>2, <5>1, HasRow DEF Placing
          <5>3. QED
            BY <1>1, <1>2, <4>1, <4>2, <5>1, <5>2 DEF PlaceInv, Placing
        <4>3. QED
          BY <1>1, <4>1, <4>2
      <3>3. QED
        BY <3>1, <3>2
    <2>2. ASSUME NEW other \in ended' PROVE Copied(other)'
      <3>1. \A s \in SlotsOf(other) :
              s \notin todo /\ (src2dst[s] \in Rows => rows'[src2dst[s]] = other)
        BY <2>1
      <3>2. QED
        BY <1>1, <3>1, SameCall DEF Copied
    <2>3. ended' \subseteq Tokens
      BY <1>1, <1>2 DEF CopyInv, Placing
    <2>4. QED
      BY <1>1, <2>2, <2>3, SameCall DEF CopyInv
  <1>7. QED
    BY <1>3, <1>4, <1>5, <1>6 DEF MoeInv

\* The grouped GEMM starts when every token is copied.
LEMMA GemmKeeps ==
  ASSUME MoeInv, Gemm
  PROVE  MoeInv'
  <1>1. /\ kernel = "compact" /\ kernel' = "combine" /\ topkIds' = topkIds
        /\ todo = {} /\ ended = Tokens /\ ended' = {}
        /\ UNCHANGED <<todo, local, counts, at, prefix, addend, cursor, mIndices, src2dst, rows,
                       output>>
    BY DEF Gemm, call, counting, scanning, placing
  <1>2. BufferTypes /\ PlaceInv /\ CopyInv
    BY DEF MoeInv
  <1>3. BufferTypes'
    BY <1>1, <1>2, SameCall DEF BufferTypes, Placing
  <1>4. CountInv' /\ ScanInv' /\ PublishInv'
    BY <1>1, PastScan DEF Placing
  <1>5. PlaceInv'
    <2>1. \A e : Placed(e)' = Placed(e)
      BY <1>1, SameCall DEF Placed
    <2>2. \A s : SlotPlaced(s) => SlotPlaced(s)'
      BY <1>1, SameCall DEF SlotPlaced
    <2>3. RestLabelled => RestLabelled'
      BY <1>1, SameCall DEF RestLabelled
    <2>4. \A e : PadsLabelled(e) => PadsLabelled(e)'
      BY <1>1, SameCall DEF PadsLabelled
    <2>5. QED
      BY <1>1, <1>2, <2>1, <2>2, <2>3, <2>4, SameCall DEF PlaceInv, Placing
  <1>6. CopyInv'
    <2>1. \A token \in Tokens : Copied(token)'
      BY <1>1, <1>2, SameCall DEF CopyInv, Copied
    <2>2. QED
      BY <1>1, <2>1, SameCall DEF CopyInv
  <1>7. QED
    BY <1>3, <1>4, <1>5, <1>6 DEF MoeInv

\* The first row of a block is not before the first block of its expert.
LEMMA FirstOfBlock ==
  ASSUME NEW r \in Nat, NEW k \in Nat, k * BlockM <= r
  PROVE  /\ (r \div BlockM) * BlockM \in Nat
         /\ (r \div BlockM) * BlockM <= r
         /\ k * BlockM <= (r \div BlockM) * BlockM
  <1> DEFINE q == r \div BlockM
  <1>1. BlockM \in Nat /\ BlockM > 0
    BY MoeAssumption
  <1>2. q \in Nat /\ q * BlockM <= r /\ r < q * BlockM + BlockM
    BY <1>1
  <1> HIDE DEF q
  <1>3. k <= q
    <2> SUFFICES ASSUME q + 1 <= k PROVE FALSE
      BY <1>2
    <2>1. (q + 1) * BlockM <= k * BlockM
      BY <1>1, <1>2
    <2>2. (q + 1) * BlockM = q * BlockM + BlockM
      BY <1>1, <1>2
    <2>3. q * BlockM \in Nat /\ k * BlockM \in Nat
      BY <1>1, <1>2
    <2>4. QED
      BY <1>1, <1>2, <2>1, <2>2, <2>3
  <1>4. k * BlockM <= q * BlockM
    BY <1>1, <1>2, <1>3
  <1>5. q * BlockM \in Nat
    BY <1>1, <1>2
  <1>6. QED
    BY <1>2, <1>4, <1>5 DEF q

\* Once every slot has its row, the rows of an expert are labelled throughout, and the
\* grouped GEMM takes each of them through it.
LEMMA RowsLabelled ==
  ASSUME MoeInv, kernel = "combine"
  PROVE  /\ \A e \in Experts, r \in Rows :
              Start(topkIds, e) <= r /\ r < Start(topkIds, e + 1) =>
                mIndices[r] = e /\ GemmExpert(r) = e
         /\ \A r \in Rows : Start(topkIds, NumExperts) <= r =>
              mIndices[r] = NumExperts - 1 /\ GemmExpert(r) = NumExperts - 1
  <1>1. BufferTypes /\ PlaceInv /\ IsCall(topkIds) /\ todo = {} /\ kernel \in Placing
    BY DEF MoeInv, BufferTypes, PlaceInv, Placing
  <1>2. \A r \in Rows : r \in Nat
    BY DEF Rows
  <1>3. TwoTo[Rounds] \in Nat /\ \A e \in Experts : e \in 0 .. TwoTo[Rounds]
    BY RoundsSuffice, TwoToGrows DEF Experts
  <1>4. ASSUME NEW n \in 0 .. TwoTo[Rounds], NEW r \in Rows, Start(topkIds, n) <= r
        PROVE  /\ (r \div BlockM) * BlockM \in Rows
               /\ Start(topkIds, n) <= (r \div BlockM) * BlockM
               /\ (r \div BlockM) * BlockM <= r
    <2>1. PICK k \in Nat : Start(topkIds, n) = k * BlockM
      BY <1>1, StartIsWhole
    <2> DEFINE b == (r \div BlockM) * BlockM
    <2>2. b \in Nat /\ b <= r /\ Start(topkIds, n) <= b
      BY <1>2, <1>4, <2>1, FirstOfBlock
    <2> HIDE DEF b
    <2>3. b \in Rows
      BY <1>1, <1>2, <2>2, RowsAre DEF Rows
    <2>4. QED
      BY <2>2, <2>3 DEF b
  <1>5. ASSUME NEW e \in Experts, NEW r \in Rows,
               Start(topkIds, e) <= r, r < Start(topkIds, e + 1)
        PROVE  mIndices[r] = e
    <2>1. Placed(e) = SlotsAt(topkIds, e)
      BY <1>1 DEF Placed, SlotsAt, Slots
    <2>2. cursor[e] = Start(topkIds, e) + TotalOf(topkIds, e)
      BY <1>1, <2>1 DEF PlaceInv, TotalOf
    <2>3. PadsLabelled(e) /\ (r < cursor[e] => mIndices[r] = e)
      BY <1>1, <1>5 DEF PlaceInv
    <2>4. Start(topkIds, e) \in Nat /\ TotalOf(topkIds, e) \in Nat
      BY <1>1, RegionsApart
    <2>5. r < cursor[e] \/ Start(topkIds, e) + TotalOf(topkIds, e) <= r
      BY <1>2, <2>2, <2>4
    <2>6. QED
      BY <1>5, <2>3, <2>5 DEF PadsLabelled
  <1>6. ASSUME NEW e \in Experts, NEW r \in Rows,
               Start(topkIds, e) <= r, r < Start(topkIds, e + 1)
        PROVE  mIndices[r] = e /\ GemmExpert(r) = e
    <2> DEFINE b == (r \div BlockM) * BlockM
    <2>1. b \in Rows /\ Start(topkIds, e) <= b /\ b <= r
      BY <1>3, <1>4, <1>6
    <2> HIDE DEF b
    <2>2. Start(topkIds, e + 1) \in Nat
      BY <1>1, RegionsApart
    <2>3. b < Start(topkIds, e + 1)
      BY <1>2, <1>6, <2>1, <2>2
    <2>4. mIndices[b] = e
      BY <1>5, <2>1, <2>3
    <2>5. QED
      BY <1>5, <1>6, <2>4 DEF GemmExpert, b
  <1>7. ASSUME NEW r \in Rows, Start(topkIds, NumExperts) <= r
        PROVE  mIndices[r] = NumExperts - 1 /\ GemmExpert(r) = NumExperts - 1
    <2>1. NumExperts \in 0 .. TwoTo[Rounds]
      BY <1>3, RoundsSuffice
    <2>2. QED
      BY <1>1, <1>4, <1>7, <2>1 DEF PlaceInv, RestLabelled, GemmExpert
  <1>8. QED
    BY <1>6, <1>7

\* A token's result adds up what its own experts made of its own row.
LEMMA CombineKeeps ==
  ASSUME MoeInv, NEW token \in Tokens, Combine(token)
  PROVE  MoeInv'
  <1>1. /\ kernel = "combine" /\ kernel' = "combine" /\ topkIds' = topkIds
        /\ ended' = ended \cup {token}
        /\ output' = [output EXCEPT ![token] =
                        [s \in {u \in SlotsOf(token) : src2dst[u] # None} |->
                           <<rows[src2dst[s]], GemmExpert(src2dst[s])>>]]
        /\ UNCHANGED <<todo, local, counts, at, prefix, addend, cursor, mIndices, src2dst, rows>>
    BY DEF Combine, call, counting, scanning, placing
  <1>2. BufferTypes /\ PlaceInv /\ CopyInv /\ IsCall(topkIds)
    BY DEF MoeInv, BufferTypes
  <1>3. todo = {} /\ kernel \in Placing
    BY <1>1, <1>2 DEF PlaceInv, Placing
  <1>4. /\ \A t \in Tokens : t # token => output'[t] = output[t]
        /\ output' = [t \in Tokens |-> output'[t]]
        /\ output'[token] = [s \in {u \in SlotsOf(token) : src2dst[u] # None} |->
                               <<rows[src2dst[s]], GemmExpert(src2dst[s])>>]
    BY <1>1, <1>2 DEF BufferTypes
  <1>5. BufferTypes'
    BY <1>1, <1>2, <1>4, SameCall DEF BufferTypes
  <1>6. CountInv' /\ ScanInv' /\ PublishInv'
    BY <1>1, PastScan DEF Placing
  <1>7. PlaceInv'
    <2>1. \A e : Placed(e)' = Placed(e)
      BY <1>1, SameCall DEF Placed
    <2>2. \A s : SlotPlaced(s) => SlotPlaced(s)'
      BY <1>1, SameCall DEF SlotPlaced
    <2>3. RestLabelled => RestLabelled'
      BY <1>1, SameCall DEF RestLabelled
    <2>4. \A e : PadsLabelled(e) => PadsLabelled(e)'
      BY <1>1, SameCall DEF PadsLabelled
    <2>5. QED
      BY <1>1, <1>2, <2>1, <2>2, <2>3, <2>4, SameCall DEF PlaceInv
  <1>8. Combined(token)'
    <2>1. {u \in SlotsOf(token) : src2dst[u] # None} = {u \in SlotsOf(token) : IsLocal(u)}
      BY <1>2, <1>3, HasRow DEF SlotsOf
    <2>2. ASSUME NEW s \in SlotsOf(token), IsLocal(s)
          PROVE  rows[src2dst[s]] = token /\ GemmExpert(src2dst[s]) = topkIds[s]
      <3>1. s \in Slots \ todo /\ topkIds[s] \in Experts
        BY <1>3, <2>2 DEF SlotsOf, IsLocal
      <3>2. /\ src2dst[s] \in Rows
            /\ Start(topkIds, topkIds[s]) <= src2dst[s] /\ src2dst[s] < cursor[topkIds[s]]
        BY <1>2, <1>3, <2>2, <3>1 DEF PlaceInv, SlotPlaced
      <3>3. rows[src2dst[s]] = token
        BY <1>1, <1>2, <2>2, <3>2 DEF CopyInv, Copied
      <3>4. /\ cursor[topkIds[s]] \in Nat
            /\ cursor[topkIds[s]] <= Start(topkIds, topkIds[s]) + TotalOf(topkIds, topkIds[s])
        BY <1>2, <1>3, <3>1, CursorBound
      <3>5. /\ Start(topkIds, topkIds[s]) \in Nat /\ TotalOf(topkIds, topkIds[s]) \in Nat
            /\ Start(topkIds, topkIds[s] + 1) \in Nat
            /\ Start(topkIds, topkIds[s]) + TotalOf(topkIds, topkIds[s])
                 <= Start(topkIds, topkIds[s] + 1)
        BY <1>2, <3>1, RegionsApart
      <3>6. src2dst[s] \in Nat
        BY <3>2 DEF Rows
      <3>7. src2dst[s] < Start(topkIds, topkIds[s] + 1)
        BY <3>2, <3>4, <3>5, <3>6
      <3>8. GemmExpert(src2dst[s]) = topkIds[s]
        BY <1>1, <3>1, <3>2, <3>7, RowsLabelled
      <3>9. QED
        BY <3>3, <3>8
    <2>3. output'[token] = [s \in {u \in SlotsOf(token) : IsLocal(u)} |-> <<token, topkIds[s]>>]
      BY <1>4, <2>1, <2>2
    <2>4. QED
      BY <1>1, <2>3, SameCall DEF Combined
  <1>9. CopyInv'
    <2>1. \A t \in Tokens : Copied(t)'
      BY <1>1, <1>2, SameCall DEF CopyInv, Copied
    <2>2. \A t \in ended : Combined(t)' /\ t \in Tokens
      <3> SUFFICES ASSUME NEW t \in ended PROVE Combined(t)' /\ t \in Tokens
        OBVIOUS
      <3>1. t \in Tokens /\ Combined(t)
        BY <1>1, <1>2, <1>3 DEF CopyInv
      <3>2. CASE t = token
        BY <1>8, <3>1, <3>2
      <3>3. CASE t # token
        <4>1. output'[t] = [s \in {u \in SlotsOf(t) : IsLocal(u)} |-> <<t, topkIds[s]>>]
          BY <1>4, <3>1, <3>3 DEF Combined
        <4>2. QED
          BY <1>1, <3>1, <4>1, SameCall DEF Combined
      <3>4. QED
        BY <3>2, <3>3
    <2>3. QED
      BY <1>1, <1>8, <2>1, <2>2, SameCall DEF CopyInv
  <1>10. QED
    BY <1>5, <1>6, <1>7, <1>9 DEF MoeInv

----------------------------------------------------------------------------
(* The properties.                                                         *)

\* Every step keeps the invariant.
LEMMA MoeStep ==
  ASSUME MoeInv, [Next]_vars
  PROVE  MoeInv'
  <1>1. CASE UNCHANGED vars
    <2>1. /\ UNCHANGED <<topkIds, kernel, todo, ended, local, counts, at, prefix, addend>>
          /\ UNCHANGED <<cursor, mIndices, src2dst, rows, output>>
      BY <1>1 DEF vars, call, counting, scanning, placing
    <2>2. BufferTypes'
      BY <2>1, SameCall DEF MoeInv, BufferTypes
    <2>3. CountInv' /\ ScanInv' /\ PublishInv'
      BY <2>1, CountFrame, ScanFrame, PublishFrame DEF MoeInv
    <2>4. \A e : Placed(e)' = Placed(e) /\ (PadsLabelled(e) => PadsLabelled(e)')
      BY <2>1, SameCall DEF Placed, PadsLabelled
    <2>5. /\ \A s : SlotPlaced(s) => SlotPlaced(s)'
          /\ RestLabelled => RestLabelled'
      BY <2>1, SameCall DEF SlotPlaced, RestLabelled
    <2>6. PlaceInv'
      BY <2>1, <2>4, <2>5, SameCall DEF MoeInv, PlaceInv
    <2>7. \A t : (Copied(t) => Copied(t)') /\ (Combined(t) => Combined(t)')
      BY <2>1, SameCall DEF Copied, Combined
    <2>8. CopyInv'
      BY <2>1, <2>7, SameCall DEF MoeInv, CopyInv
    <2>9. QED
      BY <2>2, <2>3, <2>6, <2>8 DEF MoeInv
  <1>2. CASE Clear
    BY <1>2, ClearKeeps
  <1>3. CASE Fill
    BY <1>3, FillKeeps
  <1>4. CASE LibraryScan
    BY <1>4, LibraryScanKeeps
  <1>5. CASE StartCompact
    BY <1>5, StartCompactKeeps
  <1>6. CASE Gemm
    BY <1>6, GemmKeeps
  <1>7. CASE \E s \in Slots : CountSlot(s) \/ Assign(s)
    BY <1>7, CountSlotKeeps, AssignKeeps
  <1>8. CASE \E b \in CountBlocks : FlushCounts(b)
    BY <1>8, FlushKeeps
  <1>9. CASE \E t \in Threads : SetElement(t) \/ ScanRound(t) \/ Publish(t)
    BY <1>9, SetElementKeeps, ReadLeftKeeps, AddLeftKeeps, PublishKeeps DEF ScanRound
  <1>10. CASE \E token \in Tokens : CopyToken(token) \/ Combine(token)
    BY <1>10, CopyTokenKeeps, CombineKeeps
  <1>11. QED
    BY <1>1, <1>2, <1>3, <1>4, <1>5, <1>6, <1>7, <1>8, <1>9, <1>10 DEF Next

\* The counts are right, the threads of the scan stay in step, each published cursor is
\* its expert's first row, the slots placed fill the rows up to the cursors, and what has
\* been copied stays: in every state.
THEOREM MoeInvariance == Spec => []MoeInv
  <1>1. QED
    BY InitKeeps, MoeStep, PTL DEF Spec

\* No two slots are given the same row, and every slot of an expert on this rank is given
\* one, in whatever order the threads of the kernels run.
THEOREM RowsApartHolds == Spec => []RowsApart
  <1>1. ASSUME MoeInv PROVE RowsApart
    <2> SUFFICES ASSUME kernel \in Placing, NEW s \in Slots \ todo
                 PROVE  /\ IsLocal(s) => src2dst[s] \in Rows
                        /\ \A u \in Slots \ (todo \cup {s}) :
                             src2dst[u] \in Rows => src2dst[u] # src2dst[s]
      BY DEF RowsApart, Placing
    <2>1. BufferTypes /\ PlaceInv
      BY <1>1 DEF MoeInv
    <2>2. IsLocal(s) => src2dst[s] \in Rows
      BY <2>1, HasRow
    <2>3. ASSUME NEW u \in Slots \ (todo \cup {s}), src2dst[u] \in Rows
          PROVE  src2dst[u] # src2dst[s]
      <3>1. CASE src2dst[s] \in Rows
        <4>1. IsLocal(s) /\ IsLocal(u)
          BY <2>1, <2>3, <3>1, HasRow
        <4>2. QED
          BY <2>1, <2>3, <4>1 DEF PlaceInv
      <3>2. CASE src2dst[s] \notin Rows
        BY <2>3, <3>2
      <3>3. QED
        BY <3>1, <3>2
    <2>4. QED
      BY <2>2, <2>3
  <1>2. QED
    BY <1>1, MoeInvariance, PTL

\* Every block of rows the grouped GEMM takes is one expert's from end to end, the padded
\* and the unused ones included.
THEOREM BlocksUniformHolds == Spec => []BlocksUniform
  <1>1. ASSUME MoeInv PROVE BlocksUniform
    <2> SUFFICES ASSUME kernel = "combine", NEW r \in Rows PROVE mIndices[r] = GemmExpert(r)
      BY DEF BlocksUniform
    <2>1. IsCall(topkIds) /\ NumExperts \in Nat /\ r \in Nat
      BY <1>1, RoundsSuffice DEF MoeInv, BufferTypes, Rows
    <2>2. CASE Start(topkIds, NumExperts) <= r
      BY <1>1, <2>2, RowsLabelled
    <2>3. CASE ~(Start(topkIds, NumExperts) <= r)
      <3> DEFINE After == {n \in 0 .. NumExperts : r < Start(topkIds, n)}
      <3>1. \A n \in 0 .. NumExperts : n \in Nat /\ Start(topkIds, n) \in Nat
        BY <2>1, RoundsSuffice, TwoToGrows, StartIs
      <3>2. NumExperts \in After /\ After \subseteq Nat
        BY <2>1, <2>3, <3>1
      <3>3. PICK n \in After : \A m \in After : n <= m
        <4> HIDE DEF After
        <4> QED BY <3>2, LeastNumber
      <3>4. n # 0
        BY <2>1, <3>3, StartIs
      <3>5. n - 1 \in Experts /\ n - 1 \in 0 .. NumExperts /\ (n - 1) + 1 = n /\ ~(n <= n - 1)
        BY <2>1, <3>3, <3>4 DEF Experts
      <3>6. Start(topkIds, n - 1) <= r
        BY <2>1, <3>1, <3>3, <3>5
      <3>7. QED
        BY <1>1, <3>3, <3>5, <3>6, RowsLabelled
    <2>4. QED
      BY <2>2, <2>3
  <1>2. QED
    BY <1>1, MoeInvariance, PTL

\* The layer's result for each token is made of the token's own row through each local
\* expert the router chose for it, and of nothing else.
THEOREM TokensReachTheirExpertsHolds == Spec => []TokensReachTheirExperts
  <1>1. ASSUME MoeInv PROVE TokensReachTheirExperts
    BY <1>1 DEF MoeInv, CopyInv, Combined, TokensReachTheirExperts, Finished
  <1>2. QED
    BY <1>1, MoeInvariance, PTL

----------------------------------------------------------------------------
(* The ranges of the counts and the cursors.                               *)

RangeInv ==
  \A e \in Experts :
    /\ counts[e] \in 0 .. Cardinality(Slots) \cup {Junk}
    /\ cursor[e] \in Rows \cup {Cardinality(Rows), Junk}

\* A cursor up to the end of the last expert's rows is in the buffers or at their end.
LEMMA CursorRange ==
  ASSUME IsCall(topkIds), NEW n \in Nat, n <= Start(topkIds, NumExperts)
  PROVE  n \in Rows \cup {Cardinality(Rows)}
  <1>1. Start(topkIds, NumExperts) <= AllTokens(Cardinality(Slots))
    BY RoomForAll DEF Slots
  <1>2. Start(topkIds, NumExperts) \in Nat
    BY RoundsSuffice, TwoToGrows, StartIs
  <1>3. AllTokens(Cardinality(Slots)) \in Nat /\ Cardinality(Rows) = AllTokens(Cardinality(Slots))
    BY RowsAre
  <1>4. QED
    BY <1>1, <1>2, <1>3 DEF Rows

\* A step that leaves the counts or the cursors alone leaves their ranges.
LEMMA RangeFrame ==
  ASSUME RangeInv, topkIds' = topkIds
  PROVE  /\ counts' = counts => \A e \in Experts : counts'[e] \in 0 .. Cardinality(Slots') \cup {Junk}
         /\ cursor' = cursor => \A e \in Experts : cursor'[e] \in Rows' \cup {Cardinality(Rows'), Junk}
  BY SameCall DEF RangeInv

\* Only clearing, flushing and the first step of the scan write the counts.
LEMMA CountsInRange ==
  ASSUME MoeInv, MoeInv', RangeInv, [Next]_vars
  PROVE  topkIds' = topkIds /\ \A e \in Experts : counts'[e] \in 0 .. Cardinality(Slots') \cup {Junk}
  <1>1. IsCall(topkIds)
    BY DEF MoeInv, BufferTypes
  <1>2. Cardinality(Slots) \in Nat
    BY <1>1, SlotsAreFinite DEF Slots
  <1>3. CASE Clear
    BY <1>2, <1>3, SameCall DEF Clear, call
  <1>4. ASSUME NEW b \in CountBlocks, FlushCounts(b)
        PROVE  topkIds' = topkIds
               /\ \A e \in Experts : counts'[e] \in 0 .. Cardinality(Slots') \cup {Junk}
    <2>1. kernel' = "count" /\ topkIds' = topkIds
      BY <1>4 DEF FlushCounts, call
    <2>2. \A e \in Experts : counts'[e] = Cardinality(Flushed(e)')
      BY <2>1 DEF MoeInv, CountInv
    <2>3. \A e : Flushed(e)' \in SUBSET DOMAIN topkIds
      BY <2>1 DEF Flushed, Slots
    <2>4. \A e : Cardinality(Flushed(e)') \in 0 .. Cardinality(Slots)
      BY <1>1, <1>2, <2>3, SlotsAreFinite DEF Slots
    <2>5. QED
      BY <2>1, <2>2, <2>4, SameCall
  <1>5. ASSUME NEW t \in Threads, SetElement(t)
        PROVE  topkIds' = topkIds
               /\ \A e \in Experts : counts'[e] \in 0 .. Cardinality(Slots') \cup {Junk}
    <2>1. kernel \in Scans /\ todo = {} /\ topkIds' = topkIds
      BY <1>5 DEF SetElement, InScan, Scans, call
    <2>2. \A e \in Experts : CountOf(e) = TotalOf(topkIds, e)
      BY <2>1, CountOfIs DEF MoeInv
    <2>3. \A e \in Experts : CountOf(e) \in 0 .. Cardinality(Slots)
      BY <1>1, <1>2, <2>2, WeightIs DEF Slots
    <2>4. \A e \in Experts : counts'[e] = counts[e] \/ counts'[e] = CountOf(e)
      BY <1>5 DEF SetElement, MoeInv, BufferTypes
    <2>5. QED
      BY <2>1, <2>3, <2>4, SameCall DEF RangeInv
  <1>6. CASE \/ Fill \/ LibraryScan \/ StartCompact \/ Gemm
             \/ \E s \in Slots : CountSlot(s) \/ Assign(s)
             \/ \E t \in Threads : ScanRound(t) \/ Publish(t)
             \/ \E token \in Tokens : CopyToken(token) \/ Combine(token)
             \/ UNCHANGED vars
    <2>1. topkIds' = topkIds /\ counts' = counts
      BY <1>6 DEF Fill, LibraryScan, StartCompact, Gemm, CountSlot, Assign, ScanRound, ReadLeft,
                  AddLeft, Publish, InScan, CopyToken, Combine, vars, call, counting
    <2>2. QED
      BY <2>1, RangeFrame
  <1>7. QED
    BY <1>3, <1>4, <1>5, <1>6 DEF Next

\* Only publishing and placing write the cursors.
LEMMA CursorsInRange ==
  ASSUME MoeInv, MoeInv', RangeInv, [Next]_vars, topkIds' = topkIds
  PROVE  \A e \in Experts : cursor'[e] \in Rows' \cup {Cardinality(Rows'), Junk}
  <1>1. IsCall(topkIds) /\ cursor \in [Experts -> Int]
    BY DEF MoeInv, BufferTypes
  <1>2. ASSUME NEW t \in Threads, Publish(t), NEW e \in Experts
        PROVE  cursor'[e] \in Rows' \cup {Cardinality(Rows'), Junk}
    <2>1. CASE e = t
      <3>1. kernel' \in Scans /\ at'[t] = LastStep
        <4>1. InScan(t, LastStep) /\ at \in [Threads -> 0 .. LastStep]
          BY <1>2 DEF Publish, MoeInv, BufferTypes
        <4>2. QED
          BY <4>1 DEF InScan, Scans
      <3>2. cursor'[t] = Start(topkIds, t)
        BY <2>1, <3>1 DEF MoeInv, PublishInv
      <3>3. /\ Start(topkIds, t) \in Nat /\ Start(topkIds, t + 1) \in Nat
            /\ Weight(topkIds)[t] \in Nat
            /\ Start(topkIds, t + 1) = Start(topkIds, t) + Weight(topkIds)[t]
            /\ Start(topkIds, t + 1) <= Start(topkIds, NumExperts)
        BY <1>1, <2>1, RegionsApart
      <3>4. Start(topkIds, NumExperts) \in Nat
        BY <1>1, RoundsSuffice, TwoToGrows, StartIs
      <3>5. Start(topkIds, t) <= Start(topkIds, NumExperts)
        BY <3>3, <3>4
      <3>6. QED
        BY <1>1, <2>1, <3>2, <3>3, <3>5, CursorRange, SameCall
    <2>2. CASE e # t
      <3>1. cursor'[e] = cursor[e]
        BY <1>1, <1>2, <2>2 DEF Publish
      <3>2. QED
        BY <3>1, SameCall DEF RangeInv
    <2>3. QED
      BY <2>1, <2>2
  <1>3. ASSUME NEW s \in Slots, Assign(s), NEW e \in Experts
        PROVE  cursor'[e] \in Rows' \cup {Cardinality(Rows'), Junk}
    <2>1. CASE IsLocal(s) /\ topkIds[s] = e
      <3>1. cursor[e] \in Nat /\ cursor[e] < Start(topkIds, NumExperts)
            /\ Start(topkIds, NumExperts) \in Nat
        BY <1>3, <2>1, RowTaken
      <3>2. cursor'[e] = cursor[e] + 1
        BY <1>1, <1>3, <2>1 DEF Assign
      <3>3. cursor'[e] \in Nat /\ cursor'[e] <= Start(topkIds, NumExperts)
        BY <3>1, <3>2
      <3>4. QED
        BY <1>1, <3>3, CursorRange, SameCall
    <2>2. CASE ~(IsLocal(s) /\ topkIds[s] = e)
      <3>1. cursor'[e] = cursor[e]
        BY <1>1, <1>3, <2>2 DEF Assign
      <3>2. QED
        BY <3>1, SameCall DEF RangeInv
    <2>3. QED
      BY <2>1, <2>2
  <1>4. CASE \/ Clear \/ Fill \/ LibraryScan \/ StartCompact \/ Gemm
             \/ \E s \in Slots : CountSlot(s)
             \/ \E b \in CountBlocks : FlushCounts(b)
             \/ \E t \in Threads : SetElement(t) \/ ScanRound(t)
             \/ \E token \in Tokens : CopyToken(token) \/ Combine(token)
             \/ UNCHANGED vars
    <2>1. cursor' = cursor
      BY <1>4 DEF Clear, Fill, LibraryScan, StartCompact, Gemm, CountSlot, FlushCounts, SetElement,
                  ScanRound, ReadLeft, AddLeft, CopyToken, Combine, vars
    <2>2. QED
      BY <2>1, RangeFrame
  <1>5. QED
    BY <1>2, <1>3, <1>4 DEF Next

\* No count exceeds the slots, no cursor leaves the buffers, and every row, label and
\* index is of its range.
THEOREM TypeCorrect == Spec => []TypeOK
  <1>1. Init => MoeInv /\ RangeInv
    BY InitKeeps DEF Init, RangeInv
  <1>2. MoeInv /\ RangeInv /\ [Next]_vars => (MoeInv /\ RangeInv)'
    <2> SUFFICES ASSUME MoeInv, RangeInv, [Next]_vars PROVE (MoeInv /\ RangeInv)'
      OBVIOUS
    <2>1. MoeInv'
      BY MoeStep
    <2>2. RangeInv'
      BY <2>1, CountsInRange, CursorsInRange DEF RangeInv
    <2>3. QED
      BY <2>1, <2>2
  <1>3. MoeInv /\ RangeInv => TypeOK
    <2> SUFFICES ASSUME MoeInv, RangeInv PROVE TypeOK
      OBVIOUS
    <2>1. BufferTypes
      BY DEF MoeInv
    <2>2. ended \subseteq Tokens \cup CountBlocks
      BY <2>1 DEF MoeInv, BufferTypes, CountInv, CopyInv
    <2>3. \A r \in Rows : mIndices[r] \in Experts \cup {Junk} /\ rows[r] \in Tokens \cup {Junk}
      BY <2>1 DEF BufferTypes
    <2>4. \A s \in Slots : src2dst[s] \in Rows \cup {None, Junk}
      BY <2>1 DEF BufferTypes
    <2>5. /\ kernel \in {"start", "count", "count_prefix", "prefix", "compact", "combine"}
          /\ todo \subseteq Slots
          /\ \A t \in Threads : at[t] \in 0 .. LastStep
      BY <2>1 DEF BufferTypes, Scans, Placing
    <2>6. QED
      BY <2>2, <2>3, <2>4, <2>5 DEF TypeOK, RangeInv
  <1>4. QED
    BY <1>1, <1>2, <1>3, PTL DEF Spec
=============================================================================
