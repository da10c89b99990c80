------------------------ MODULE SignalBarrierProofs ------------------------
(***************************************************************************)
(* SignalBarrier is correct for every number of ranks, every even modulus  *)
(* of at least four and every number of barriers.  First the arithmetic of *)
(* counters that wrap, then the inductive invariant BarrierInv, then what  *)
(* follows from it: no early pass, no lost flag, and the refinement of     *)
(* RankBarrier.                                                            *)
(***************************************************************************)
EXTENDS SignalBarrier, TLAPS

\* Quotient and remainder of natural numbers.
LEMMA DivMod ==
  ASSUME NEW a \in Nat, NEW m \in Nat, m > 0
  PROVE  /\ a = m * (a \div m) + (a % m)
         /\ a \div m \in Nat
         /\ a % m \in 0 .. m - 1
  OBVIOUS

\* Two numbers less than m apart with the same remainder are equal.
LEMMA ModEqual ==
  ASSUME NEW a \in Nat, NEW b \in Nat, NEW m \in Nat, m > 0,
         a <= b, b < a + m, a % m = b % m
  PROVE  a = b
  <1> DEFINE qa == a \div m
             qb == b \div m
  <1>1. a = m * qa + (a % m) /\ b = m * qb + (b % m) /\ qa \in Nat /\ qb \in Nat
    BY DivMod
  <1>2. CASE qb > qa
    <2>1. m * qb >= m * qa + m
      BY <1>1, <1>2
    <2>2. QED BY <1>1, <2>1
  <1>3. CASE qb < qa
    <2>1. m * qa >= m * qb + m
      BY <1>1, <1>3
    <2>2. QED BY <1>1, <2>1
  <1>4. QED BY <1>1, <1>2, <1>3

\* A quotient with a remainder below m determines the remainder.
LEMMA ModUnique ==
  ASSUME NEW a \in Nat, NEW m \in Nat, m > 0,
         NEW q \in Nat, NEW r \in 0 .. m - 1, a = m * q + r
  PROVE  a % m = r
  <1> DEFINE p == a \div m
             s == a % m
  <1>1. a = m * p + s /\ p \in Nat /\ s \in 0 .. m - 1
    BY DivMod
  <1> HIDE DEF p, s
  <1>2. CASE p > q
    <2>1. m * p >= m * q + m
      BY <1>1, <1>2
    <2>2. QED BY <1>1, <2>1
  <1>3. CASE p < q
    <2>1. m * q >= m * p + m
      BY <1>1, <1>3
    <2>2. QED BY <1>1, <2>1
  <1>4. CASE p = q
    BY <1>1, <1>4 DEF s
  <1>5. QED BY <1>1, <1>2, <1>3, <1>4

\* Wrapping before or after an increment is the same: the 32 bit counter
\* counts barriers modulo its width.
LEMMA ModSucc ==
  ASSUME NEW a \in Nat, NEW m \in Nat, m > 0
  PROVE  ((a % m) + 1) % m = (a + 1) % m
  <1> DEFINE q == a \div m
             r == a % m
  <1>1. a = m * q + r /\ q \in Nat /\ r \in 0 .. m - 1
    BY DivMod
  <1> HIDE DEF q, r
  <1>2. CASE r < m - 1
    <2>1. r + 1 \in 0 .. m - 1 /\ a + 1 = m * q + (r + 1)
      BY <1>1, <1>2
    <2>2. (a + 1) % m = r + 1
      BY <1>1, <2>1, ModUnique
    <2>3. r + 1 = m * 0 + (r + 1)
      BY <1>1
    <2>4. (r + 1) % m = r + 1
      BY <1>1, <2>1, <2>3, ModUnique
    <2>5. QED BY <2>2, <2>4 DEF r
  <1>3. CASE r = m - 1
    <2>1. m * (q + 1) = m * q + m
      BY <1>1
    <2>2. q + 1 \in Nat /\ 0 \in 0 .. m - 1 /\ a + 1 = m * (q + 1) + 0
      BY <1>1, <1>3, <2>1
    <2>3. (a + 1) % m = 0
      BY <2>2, ModUnique
    <2>4. r + 1 = m * 1 + 0 /\ r + 1 \in Nat
      BY <1>1, <1>3
    <2>5. (r + 1) % m = 0
      BY <2>2, <2>4, ModUnique
    <2>6. QED BY <2>3, <2>5 DEF r
  <1>4. QED BY <1>1, <1>2, <1>3

\* An even modulus keeps the parity, so wrapping does not upset the slots.
LEMMA ModParity ==
  ASSUME NEW a \in Nat, NEW m \in Nat, m > 0, m % 2 = 0
  PROVE  (a % m) % 2 = a % 2
  <1> DEFINE q == a \div m
             r == a % m
             h == m \div 2
  <1>1. a = m * q + r /\ q \in Nat /\ r \in 0 .. m - 1
    BY DivMod
  <1>2. m = 2 * h /\ h \in Nat
    BY DivMod
  <1> HIDE DEF q, r, h
  <1>3. PICK k \in Nat : k = h * q
    BY <1>1, <1>2
  <1>4. m * q = 2 * (h * q)
    BY <1>1, <1>2
  <1>5. a = 2 * k + r
    BY <1>1, <1>3, <1>4
  <1>6. QED BY <1>1, <1>3, <1>5 DEF r

\* Numbers two apart differ modulo anything of at least three.
LEMMA TwoApart ==
  ASSUME NEW a \in Nat, NEW m \in Nat, m >= 4
  PROVE  a % m # (a + 2) % m
  <1> SUFFICES ASSUME a % m = (a + 2) % m
               PROVE  FALSE
    OBVIOUS
  <1>1. a + 2 \in Nat /\ m > 0 /\ a <= a + 2 /\ a + 2 < a + m
    OBVIOUS
  <1>2. a = a + 2
    BY <1>1, ModEqual
  <1>3. QED BY <1>2

\* A flag selects one of the two slots.
LEMMA SlotRange ==
  ASSUME NEW f \in Nat
  PROVE  Slot(f) \in {0, 1}
  BY DEF Slot

----------------------------------------------------------------------------
\* The type invariant holds in every reachable state of the barrier.
THEOREM TypeCorrect == Spec => []TypeOK
  <1>1. Init => TypeOK
    BY FlagAssumption, BoundAssumption DEF Init, TypeOK, Flags, Steps
  <1>2. TypeOK /\ [Next]_vars => TypeOK'
    <2> SUFFICES ASSUME TypeOK, [Next]_vars
                 PROVE  TypeOK'
      OBVIOUS
    <2> USE FlagAssumption, BoundAssumption DEF TypeOK, Flags, Steps
    <2>1. ASSUME NEW r \in Ranks, NEW t \in Ranks, Bump(r, t)
          PROVE  TypeOK'
      <3>1. Bumped(selfCounter[r][t]) \in 0 .. FlagModulus - 1
        BY DivMod DEF Bumped
      <3>2. QED BY <2>1, <3>1 DEF Bump
    <2>2. ASSUME NEW r \in Ranks, NEW t \in Ranks, Publish(r, t)
          PROVE  TypeOK'
      <3>1. selfCounter[r][t] \in Nat
        OBVIOUS
      <3>2. Slot(selfCounter[r][t]) \in {0, 1}
        BY <3>1, SlotRange
      <3>3. QED BY <2>2, <3>2 DEF Publish
    <2>3. ASSUME NEW r \in Ranks, NEW t \in Ranks, Pass(r, t)
          PROVE  TypeOK'
      BY <2>3 DEF Pass
    <2>4. ASSUME NEW r \in Ranks, Join(r)
          PROVE  TypeOK'
      BY <2>4 DEF Join
    <2>5. CASE Finished \/ UNCHANGED vars
      BY <2>5 DEF Finished, vars
    <2>6. QED BY <2>1, <2>2, <2>3, <2>4, <2>5 DEF Next, ThreadStep
  <1>3. QED BY <1>1, <1>2, PTL DEF Spec

\* Taking a flag: one more is taken, none is stored.
LEMMA BumpStep ==
  ASSUME TypeOK, NEW r \in Ranks, NEW t \in Ranks, Bump(r, t),
         NEW x \in Ranks, NEW y \in Ranks
  PROVE  /\ Taken(x, y)' = Taken(x, y) + (IF x = r /\ y = t THEN 1 ELSE 0)
         /\ Stored(x, y)' = Stored(x, y)
  BY DEF TypeOK, Bump, Taken, Stored, Steps

\* Publishing stores one flag and takes none.
LEMMA PublishStep ==
  ASSUME TypeOK, NEW r \in Ranks, NEW t \in Ranks, Publish(r, t),
         NEW x \in Ranks, NEW y \in Ranks
  PROVE  /\ Taken(x, y)' = Taken(x, y)
         /\ Stored(x, y)' = Stored(x, y) + (IF x = r /\ y = t THEN 1 ELSE 0)
  BY DEF TypeOK, Publish, Taken, Stored, Steps

\* Passing changes neither count.
LEMMA PassStep ==
  ASSUME TypeOK, NEW r \in Ranks, NEW t \in Ranks, Pass(r, t),
         NEW x \in Ranks, NEW y \in Ranks
  PROVE  Taken(x, y)' = Taken(x, y) /\ Stored(x, y)' = Stored(x, y)
  BY DEF TypeOK, Pass, Taken, Stored, Steps

\* Joining changes neither count: what the threads had taken becomes the
\* new round.
LEMMA JoinStep ==
  ASSUME TypeOK, NEW r \in Ranks, Join(r), NEW x \in Ranks, NEW y \in Ranks
  PROVE  Taken(x, y)' = Taken(x, y) /\ Stored(x, y)' = Stored(x, y)
  BY DEF TypeOK, Join, Taken, Stored, Steps

\* The two counts are natural numbers.
LEMMA CountsAreNat ==
  ASSUME TypeOK, NEW x \in Ranks, NEW y \in Ranks
  PROVE  Taken(x, y) \in Nat /\ Stored(x, y) \in Nat
  BY DEF TypeOK, Taken, Stored

\* The flag a thread publishes or waits for is the one of its rank's next
\* barrier, and its slot has the parity of that barrier's number.
LEMMA FlagInFlight ==
  ASSUME BarrierInv, NEW r \in Ranks, NEW t \in Ranks, pc[r][t] # "arrive"
  PROVE  /\ selfCounter[r][t] = (round[r] + 1) % FlagModulus
         /\ Slot(selfCounter[r][t]) = (round[r] + 1) % 2
  <1>1. Taken(r, t) = round[r] + 1 /\ round[r] + 1 \in Nat
    BY DEF BarrierInv, TypeOK, Taken
  <1>2. selfCounter[r][t] = (round[r] + 1) % FlagModulus
    BY <1>1 DEF BarrierInv, CountersMatch
  <1>3. ((round[r] + 1) % FlagModulus) % 2 = (round[r] + 1) % 2
    BY <1>1, ModParity, FlagAssumption
  <1>4. QED BY <1>2, <1>3 DEF Slot

\* The heart of the protocol: the equality the spin loop tests holds exactly
\* when the peer has stored the flag of this barrier.  The slot cannot hold a
\* flag that only looks equal, because the flags that share a slot and can be
\* there are two apart and the modulus is at least four.
LEMMA SpinTest ==
  ASSUME BarrierInv, NEW r \in Ranks, NEW t \in Ranks, pc[r][t] = "spin"
  PROVE  (peerCounter[r][Slot(selfCounter[r][t])][t] = selfCounter[r][t])
           => Stored(t, r) >= round[r] + 1
  <1> DEFINE e == round[r]
             n == Stored(t, r)
  <1>1. e \in Nat /\ n \in Nat /\ n >= e
    BY CountsAreNat DEF BarrierInv, TypeOK, InStep
  <1>2. selfCounter[r][t] = (e + 1) % FlagModulus
    BY FlagInFlight
  <1>3. Slot(selfCounter[r][t]) = (e + 1) % 2
    BY FlagInFlight
  <1>4. CASE n = e
    <2>1. peerCounter[r][(e + 1) % 2][t]
            = (IF e = 0 THEN 0 ELSE (e - 1) % FlagModulus)
      BY <1>4 DEF BarrierInv, SlotsMatch
    <2>2. CASE e = 0
      <3>1. 0 % FlagModulus # 1 % FlagModulus
        BY ModEqual, FlagAssumption
      <3>2. 0 % FlagModulus = 0
        BY ModUnique, FlagAssumption
      <3>3. QED BY <1>2, <1>3, <2>1, <2>2, <3>1, <3>2
    <2>3. CASE e # 0
      <3>1. e - 1 \in Nat /\ (e - 1) + 2 = e + 1
        BY <1>1, <2>3
      <3>2. (e - 1) % FlagModulus # (e + 1) % FlagModulus
        BY <3>1, TwoApart, FlagAssumption
      <3>3. QED BY <1>2, <1>3, <2>1, <2>3, <3>2
    <2>4. QED BY <2>2, <2>3
  <1>5. CASE n # e
    BY <1>1, <1>5
  <1>6. QED BY <1>4, <1>5

\* A step that changes neither the counts nor what they count keeps the match.
LEMMA SameTaken ==
  ASSUME CountersMatch, UNCHANGED selfCounter,
         \A x, y \in Ranks : Taken(x, y)' = Taken(x, y)
  PROVE  CountersMatch'
  BY DEF CountersMatch

\* The same for the slots.
LEMMA SameStored ==
  ASSUME SlotsMatch, UNCHANGED peerCounter,
         \A x, y \in Ranks : Stored(x, y)' = Stored(x, y)
  PROVE  SlotsMatch'
  <1> SUFFICES ASSUME NEW x \in Ranks, NEW y \in Ranks
               PROVE  LET n == Stored(y, x)'
                      IN /\ peerCounter'[x][n % 2][y] = n % FlagModulus
                         /\ peerCounter'[x][(n + 1) % 2][y] =
                              (IF n = 0 THEN 0 ELSE (n - 1) % FlagModulus)
    BY DEF SlotsMatch
  <1>1. Stored(y, x)' = Stored(y, x)
    OBVIOUS
  <1>2. QED BY <1>1 DEF SlotsMatch

\* Each action preserves the inductive invariant.
LEMMA BumpPreserves ==
  ASSUME BarrierInv, TypeOK', NEW r \in Ranks, NEW t \in Ranks, Bump(r, t)
  PROVE  BarrierInv'
  <1>1. TypeOK
    BY DEF BarrierInv
  <1>2. CountersMatch'
    <2> SUFFICES ASSUME NEW x \in Ranks, NEW y \in Ranks
                 PROVE  selfCounter'[x][y] = Taken(x, y)' % FlagModulus
      BY DEF CountersMatch
    <2>1. selfCounter[x][y] = Taken(x, y) % FlagModulus /\ Taken(x, y) \in Nat
      BY <1>1, CountsAreNat DEF BarrierInv, CountersMatch
    <2>2. CASE x = r /\ y = t
      <3>1. selfCounter'[x][y] = ((Taken(x, y) % FlagModulus) + 1) % FlagModulus
        BY <1>1, <2>1, <2>2 DEF Bump, Bumped, TypeOK
      <3>2. Taken(x, y)' = Taken(x, y) + 1
        BY <1>1, <2>2, BumpStep
      <3>3. QED BY <2>1, <3>1, <3>2, ModSucc, FlagAssumption
    <2>3. CASE ~(x = r /\ y = t)
      <3>1. selfCounter'[x][y] = selfCounter[x][y]
        BY <1>1, <2>3 DEF Bump, TypeOK
      <3>2. Taken(x, y)' = Taken(x, y)
        BY <1>1, <2>1, <2>3, BumpStep
      <3>3. QED BY <2>1, <3>1, <3>2
    <2>4. QED BY <2>2, <2>3
  <1>3. SlotsMatch'
    <2>1. \A x, y \in Ranks : Stored(x, y)' = Stored(x, y)
      BY <1>1, BumpStep
    <2>2. QED BY <2>1, SameStored DEF BarrierInv, Bump
  <1>4. InStep'
    <2>1. \A x \in Ranks : round'[x] = round[x]
      BY DEF Bump
    <2>2. \A x, y \in Ranks : pc'[x][y] = "passed" => pc[x][y] = "passed"
      BY <1>1 DEF Bump, TypeOK
    <2>3. QED BY <1>1, <2>1, <2>2, BumpStep DEF BarrierInv, InStep
  <1>5. QED BY <1>2, <1>3, <1>4 DEF BarrierInv

\* Storing a flag keeps the invariant: the slot it overwrites held a flag the
\* peer has passed.
LEMMA PublishPreserves ==
  ASSUME BarrierInv, TypeOK', NEW r \in Ranks, NEW t \in Ranks, Publish(r, t)
  PROVE  BarrierInv'
  <1>1. TypeOK
    BY DEF BarrierInv
  <1>2. CountersMatch'
    <2>1. \A x, y \in Ranks : Taken(x, y)' = Taken(x, y)
      BY <1>1, PublishStep
    <2>2. QED BY <2>1, SameTaken DEF BarrierInv, Publish
  <1>3. SlotsMatch'
    <2> SUFFICES ASSUME NEW x \in Ranks, NEW y \in Ranks
                 PROVE  LET n == Stored(y, x)'
                        IN /\ peerCounter'[x][n % 2][y] = n % FlagModulus
                           /\ peerCounter'[x][(n + 1) % 2][y] =
                                (IF n = 0 THEN 0 ELSE (n - 1) % FlagModulus)
      BY DEF SlotsMatch
    <2> DEFINE n == Stored(y, x)
    <2>1. /\ n \in Nat
          /\ peerCounter[x][n % 2][y] = n % FlagModulus
          /\ peerCounter[x][(n + 1) % 2][y] =
               (IF n = 0 THEN 0 ELSE (n - 1) % FlagModulus)
      BY <1>1, CountsAreNat DEF BarrierInv, SlotsMatch
    <2>2. CASE x = t /\ y = r
      <3>1. n = round[r] /\ Stored(y, x)' = n + 1
        BY <1>1, <2>2, PublishStep DEF Stored, Publish, TypeOK
      <3>2. /\ selfCounter[r][t] = (n + 1) % FlagModulus
            /\ Slot(selfCounter[r][t]) = (n + 1) % 2
        BY <3>1, FlagInFlight DEF Publish
      <3>3. /\ (n + 1) % 2 \in {0, 1} /\ n % 2 \in {0, 1} /\ (n + 1) % 2 # n % 2
            /\ (n + 1 + 1) % 2 = n % 2
        BY <2>1
      <3>4. peerCounter'[x][(n + 1) % 2][y] = (n + 1) % FlagModulus
        BY <1>1, <2>2, <3>2, <3>3 DEF Publish, TypeOK
      <3>5. peerCounter'[x][n % 2][y] = n % FlagModulus
        BY <1>1, <2>1, <2>2, <3>2, <3>3 DEF Publish, TypeOK
      <3>6. n + 1 # 0 /\ (n + 1) - 1 = n
        BY <2>1
      <3>7. QED BY <3>1, <3>3, <3>4, <3>5, <3>6
    <2>3. CASE ~(x = t /\ y = r)
      <3>1. Stored(y, x)' = n
        BY <1>1, <2>1, <2>3, PublishStep
      <3>2. \A s \in {0, 1} : peerCounter'[x][s][y] = peerCounter[x][s][y]
        BY <1>1, <2>3 DEF Publish, TypeOK
      <3>3. n % 2 \in {0, 1} /\ (n + 1) % 2 \in {0, 1}
        BY <2>1
      <3>4. QED BY <2>1, <3>1, <3>2, <3>3
    <2>4. QED BY <2>2, <2>3
  <1>4. InStep'
    <2>1. \A x \in Ranks : round'[x] = round[x] /\ round[x] \in Nat
      BY <1>1 DEF Publish, TypeOK
    <2>2. \A x, y \in Ranks : pc'[x][y] = "passed" => pc[x][y] = "passed"
      BY <1>1 DEF Publish, TypeOK
    <2>3. \A x, y \in Ranks : Stored(x, y)' >= Stored(x, y) /\ Stored(x, y) \in Nat
      BY <1>1, PublishStep, CountsAreNat
    <2>4. \A x, y \in Ranks : Stored(x, y)' \in Nat
      BY CountsAreNat, <2>3, <1>1, PublishStep
    <2>5. QED BY <2>1, <2>2, <2>3, <2>4 DEF BarrierInv, InStep
  <1>5. QED BY <1>2, <1>3, <1>4 DEF BarrierInv

\* Passing keeps the invariant: by SpinTest the peer has stored its flag.
LEMMA PassPreserves ==
  ASSUME BarrierInv, TypeOK', NEW r \in Ranks, NEW t \in Ranks, Pass(r, t)
  PROVE  BarrierInv'
  <1>1. TypeOK
    BY DEF BarrierInv
  <1>2. CountersMatch' /\ SlotsMatch'
    <2>1. \A x, y \in Ranks : Taken(x, y)' = Taken(x, y)
      BY <1>1, PassStep
    <2>2. \A x, y \in Ranks : Stored(x, y)' = Stored(x, y)
      BY <1>1, PassStep
    <2>3. QED BY <2>1, <2>2, SameTaken, SameStored DEF BarrierInv, Pass
  <1>3. Stored(t, r) >= round[r] + 1
    BY SpinTest DEF Pass
  <1>4. InStep'
    <2>1. \A x \in Ranks : round'[x] = round[x]
      BY DEF Pass
    <2>2. \A x, y \in Ranks :
            pc'[x][y] = "passed" => pc[x][y] = "passed" \/ (x = r /\ y = t)
      BY <1>1 DEF Pass, TypeOK
    <2>3. QED BY <1>1, <1>3, <2>1, <2>2, PassStep DEF BarrierInv, InStep
  <1>5. QED BY <1>2, <1>4 DEF BarrierInv

\* Joining keeps the invariant: the rank has seen every peer at this barrier.
LEMMA JoinPreserves ==
  ASSUME BarrierInv, TypeOK', NEW r \in Ranks, Join(r)
  PROVE  BarrierInv'
  <1>1. TypeOK
    BY DEF BarrierInv
  <1>2. CountersMatch' /\ SlotsMatch'
    <2>1. \A x, y \in Ranks : Taken(x, y)' = Taken(x, y)
      BY <1>1, JoinStep
    <2>2. \A x, y \in Ranks : Stored(x, y)' = Stored(x, y)
      BY <1>1, JoinStep
    <2>3. QED BY <2>1, <2>2, SameTaken, SameStored DEF BarrierInv, Join
  <1>3. InStep'
    <2> SUFFICES ASSUME NEW x \in Ranks, NEW y \in Ranks
                 PROVE  /\ Stored(y, x)' >= round'[x]
                        /\ pc'[x][y] = "passed" => Stored(y, x)' >= round'[x] + 1
      BY DEF InStep
    <2>1. Stored(y, x)' = Stored(y, x)
      BY <1>1, JoinStep
    <2>2. CASE x = r
      BY <1>1, <2>1, <2>2 DEF BarrierInv, InStep, Join, TypeOK
    <2>3. CASE x # r
      BY <1>1, <2>1, <2>3 DEF BarrierInv, InStep, Join, TypeOK
    <2>4. QED BY <2>2, <2>3
  <1>4. QED BY <1>2, <1>3 DEF BarrierInv

\* The strengthened invariant is inductive.
THEOREM Invariance == Spec => []BarrierInv
  <1>1. Init => BarrierInv
    <2> SUFFICES ASSUME Init
                 PROVE  BarrierInv
      OBVIOUS
    <2> USE FlagAssumption
    <2>1. TypeOK
      BY DEF Init, TypeOK, Flags, Steps
    <2>2. \A x, y \in Ranks : Taken(x, y) = 0 /\ Stored(x, y) = 0
      BY DEF Init, Taken, Stored
    <2>3. 0 % FlagModulus = 0
      BY ModUnique
    <2>4. CountersMatch
      BY <2>2, <2>3 DEF CountersMatch, Init
    <2>5. SlotsMatch
      BY <2>2, <2>3 DEF SlotsMatch, Init
    <2>6. InStep
      BY <2>2 DEF InStep, Init
    <2>7. QED BY <2>1, <2>4, <2>5, <2>6 DEF BarrierInv
  <1>2. TypeOK /\ TypeOK' /\ BarrierInv /\ [Next]_vars => BarrierInv'
    <2> SUFFICES ASSUME TypeOK', BarrierInv, [Next]_vars
                 PROVE  BarrierInv'
      OBVIOUS
    <2>1. ASSUME NEW r \in Ranks, NEW t \in Ranks,
                 Bump(r, t) \/ Publish(r, t) \/ Pass(r, t)
          PROVE  BarrierInv'
      BY <2>1, BumpPreserves, PublishPreserves, PassPreserves
    <2>2. ASSUME NEW r \in Ranks, Join(r)
          PROVE  BarrierInv'
      BY <2>2, JoinPreserves
    <2>3. CASE UNCHANGED vars
      <3>1. \A x, y \in Ranks :
              Taken(x, y)' = Taken(x, y) /\ Stored(x, y)' = Stored(x, y)
        BY <2>3 DEF vars, Taken, Stored
      <3>2. CountersMatch' /\ SlotsMatch'
        BY <2>3, <3>1, SameTaken, SameStored DEF vars, BarrierInv
      <3>3. InStep'
        BY <2>3, <3>1 DEF vars, BarrierInv, InStep
      <3>4. QED BY <3>2, <3>3 DEF BarrierInv
    <2>4. CASE Finished
      BY <2>3, <2>4 DEF Finished
    <2>5. QED BY <2>1, <2>2, <2>3, <2>4 DEF Next, ThreadStep
  <1>3. QED BY <1>1, <1>2, TypeCorrect, PTL DEF Spec

\* No thread gets through the spin loop before its peer has stored the flag of
\* the same barrier, for any number of ranks and any even modulus from four.
THEOREM NoEarlyPassHolds == Spec => []NoEarlyPass
  <1>1. BarrierInv => NoEarlyPass
    BY DEF BarrierInv, InStep, NoEarlyPass
  <1>2. QED BY <1>1, Invariance, PTL

\* A flag that is waited for stays in its slot until the waiting thread has
\* seen it: the peer is at most two flags ahead of the rank that waits, and the
\* second one goes into the other slot.
THEOREM FlagNotOverwrittenHolds == Spec => []FlagNotOverwritten
  <1>1. BarrierInv => FlagNotOverwritten
    <2> SUFFICES ASSUME BarrierInv, NEW r \in Ranks, NEW t \in Ranks,
                        pc[r][t] # "passed", Stored(t, r) >= round[r] + 1
                 PROVE  LET flag == (round[r] + 1) % FlagModulus
                        IN peerCounter[r][Slot(flag)][t] = flag
      BY DEF FlagNotOverwritten
    <2> DEFINE e == round[r]
               n == Stored(t, r)
    <2>1. e \in Nat /\ n \in Nat /\ round[t] \in Nat
      BY CountsAreNat DEF BarrierInv, TypeOK
    <2>2. n <= round[t] + 1 /\ Stored(r, t) <= e + 1
      BY <2>1 DEF Stored, BarrierInv, TypeOK
    <2>3. round[t] <= Stored(r, t) /\ Stored(r, t) \in Nat
      BY CountsAreNat DEF BarrierInv, InStep
    <2>4. n = e + 1 \/ n = e + 2
      BY <2>1, <2>2, <2>3
    <2>5. Slot((e + 1) % FlagModulus) = (e + 1) % 2
      BY <2>1, ModParity, FlagAssumption DEF Slot
    <2>6. /\ peerCounter[r][n % 2][t] = n % FlagModulus
          /\ n # 0 => peerCounter[r][(n + 1) % 2][t] = (n - 1) % FlagModulus
      BY DEF BarrierInv, SlotsMatch
    <2>7. CASE n = e + 1
      BY <2>5, <2>6, <2>7
    <2>8. CASE n = e + 2
      <3>1. n # 0 /\ n - 1 = e + 1 /\ (n + 1) % 2 = (e + 1) % 2
        BY <2>1, <2>8
      <3>2. QED BY <2>5, <2>6, <3>1
    <2>9. QED BY <2>4, <2>7, <2>8
  <1>2. QED BY <1>1, Invariance, PTL

----------------------------------------------------------------------------
\* The number of arrivals the refinement mapping gives a rank covers every flag
\* the rank has stored anywhere.
LEMMA StoredIsArrived ==
  ASSUME TypeOK, NEW p \in Ranks, NEW r \in Ranks
  PROVE  Arrived[p] >= Stored(p, r) /\ Arrived[p] \in Nat
  BY DEF TypeOK, Arrived, Stored

\* The join of a block is the leave of the abstract barrier.
LEMMA JoinIsLeave ==
  ASSUME BarrierInv, NEW r \in Ranks, Join(r)
  PROVE  Abstract!Leave(r)
  <1>1. TypeOK /\ pc[r][r] = "passed"
    BY DEF BarrierInv, Join
  <1>2. Arrived[r] = round[r] + 1
    BY <1>1 DEF Arrived
  <1>3. ASSUME NEW p \in Ranks
        PROVE  Arrived[p] >= Arrived[r]
    <2>1. Stored(p, r) >= round[r] + 1
      BY DEF BarrierInv, InStep, Join
    <2>2. Arrived[p] >= Stored(p, r) /\ Arrived[p] \in Nat /\ Stored(p, r) \in Nat
      BY <1>1, StoredIsArrived, CountsAreNat
    <2>3. QED BY <1>1, <1>2, <2>1, <2>2 DEF TypeOK
  <1>4. round' = [round EXCEPT ![r] = @ + 1]
    BY DEF Join
  <1>5. Arrived' = Arrived
    <2> SUFFICES ASSUME NEW x \in Ranks
                 PROVE  Arrived'[x] = Arrived[x]
      BY DEF Arrived
    <2>1. CASE x = r
      <3>1. round'[r] = round[r] + 1 /\ \A t \in Ranks : pc'[r][t] = "arrive"
        BY <1>1 DEF Join, TypeOK
      <3>2. Arrived'[r] = round[r] + 1
        BY <1>1, <3>1 DEF Arrived, TypeOK
      <3>3. QED BY <1>2, <2>1, <3>2
    <2>2. CASE x # r
      BY <1>1, <2>2 DEF Join, Arrived, TypeOK
    <2>3. QED BY <2>1, <2>2
  <1>6. QED BY <1>2, <1>3, <1>4, <1>5 DEF Abstract!Leave, Abstract!MayLeave

\* The first bump of a round is the arrival; later ones change nothing there.
LEMMA BumpIsArrive ==
  ASSUME TypeOK, NEW r \in Ranks, NEW t \in Ranks, Bump(r, t)
  PROVE  Abstract!Arrive(r) \/ UNCHANGED <<Arrived, round>>
  <1>1. round' = round /\ pc'[r][t] = "publish"
    BY DEF Bump, TypeOK
  <1>2. ASSUME NEW x \in Ranks, x # r
        PROVE  Arrived'[x] = Arrived[x]
    BY <1>1, <1>2 DEF Bump, Arrived, TypeOK
  <1>3. Arrived'[r] = round[r] + 1
    BY <1>1 DEF Arrived
  <1>4. CASE \E u \in Ranks : pc[r][u] # "arrive"
    <2>1. Arrived[r] = round[r] + 1
      BY <1>4 DEF Arrived
    <2>2. Arrived' = Arrived
      BY <1>2, <1>3, <2>1 DEF Arrived
    <2>3. QED BY <1>1, <2>2
  <1>5. CASE \A u \in Ranks : pc[r][u] = "arrive"
    <2>1. Arrived[r] = round[r]
      BY <1>5 DEF Arrived, TypeOK
    <2>2. Arrived' = [Arrived EXCEPT ![r] = @ + 1]
      BY <1>2, <1>3, <2>1 DEF Arrived
    <2>3. QED BY <1>1, <2>1, <2>2 DEF Abstract!Arrive, Abstract!MayArrive
  <1>6. QED BY <1>4, <1>5

\* The signal barrier implements the abstract barrier: under the mapping, no
\* rank leaves a barrier that some rank has not reached.
THEOREM Refinement == Spec => AbstractSpec
  <1>1. Init => Abstract!Init
    BY DEF Init, Abstract!Init, Arrived
  <1>2. BarrierInv /\ [Next]_vars => [Abstract!Next]_(Abstract!barrierVars)
    <2> SUFFICES ASSUME BarrierInv, [Next]_vars
                 PROVE  Abstract!Next \/ UNCHANGED <<Arrived, round>>
      BY DEF Abstract!barrierVars
    <2>1. TypeOK
      BY DEF BarrierInv
    <2>2. ASSUME NEW r \in Ranks, NEW t \in Ranks, Bump(r, t)
          PROVE  Abstract!Next \/ UNCHANGED <<Arrived, round>>
      BY <2>1, <2>2, BumpIsArrive DEF Abstract!Next
    <2>3. ASSUME NEW r \in Ranks, NEW t \in Ranks, Publish(r, t) \/ Pass(r, t)
          PROVE  UNCHANGED <<Arrived, round>>
      <3>1. round' = round
        BY <2>3 DEF Publish, Pass
      <3>2. ASSUME NEW x \in Ranks, NEW y \in Ranks
            PROVE  pc'[x][y] = "arrive" <=> pc[x][y] = "arrive"
        <4>1. pc[r][t] # "arrive" /\ pc'[r][t] # "arrive"
          BY <2>1, <2>3 DEF Publish, Pass, TypeOK
        <4>2. CASE x = r /\ y = t
          BY <4>1, <4>2
        <4>3. CASE ~(x = r /\ y = t)
          BY <2>1, <2>3, <4>3 DEF Publish, Pass, TypeOK
        <4>4. QED BY <4>2, <4>3
      <3>3. QED BY <3>1, <3>2 DEF Arrived
    <2>4. ASSUME NEW r \in Ranks, Join(r)
          PROVE  Abstract!Next
      BY <2>4, JoinIsLeave DEF Abstract!Next
    <2>5. CASE Finished \/ UNCHANGED vars
      BY <2>5 DEF Finished, vars, Arrived
    <2>6. QED BY <2>2, <2>3, <2>4, <2>5 DEF Next, ThreadStep
  <1>3. QED BY <1>1, <1>2, Invariance, PTL DEF Spec, AbstractSpec, Abstract!Spec
============================================================================
