------------------------ MODULE CarCollectiveProofs ------------------------
(* The collectives deliver, on every rank and for every program, and no    *)
(* rank overwrites what a peer is still to read: for any number of ranks,  *)
(* any grids and any sequence of operations.                               *)
(*                                                                         *)
(* The argument counts barriers.  A row takes part in both barriers of an  *)
(* operation or in none; so the barriers two ranks have left in a row      *)
(* differ exactly by what the one has left of its own operation.  As       *)
(* nobody leaves a barrier before everybody reached it, a block that reads *)
(* pins every rank to its own operation.                                   *)
EXTENDS CarCollective, TLAPS

Gathers(r) == Current(r).kind = "gather"

\* The rows of blocks that meet in the barriers of an operation.
Rows(o) == IF o.kind = "gather" THEN 1 ELSE o.grid
Needs(o, b) == IF b < Rows(o) THEN 2 ELSE 0

\* The barriers of its operation that row b of rank r has left.
Passed(r, b) ==
  IF phase[r] = "copy" \/ b >= Rows(Current(r)) THEN 0
  ELSE IF phase[r] = "done" THEN 2
  ELSE IF phase[r] = "start" THEN IF step[r][b] = "idle" THEN 1 ELSE 0
  ELSE IF phase[r] = "end" THEN IF step[r][b] = "idle" THEN 2 ELSE 1
  ELSE IF Gathers(r) THEN 1
  ELSE IF step[r][b] \in {"arrive", "wait"} THEN 0
  ELSE IF step[r][b] \in {"idle", "collect"} THEN 2 ELSE 1
Waits(r, b) == step[r][b] \in {"wait", "waitEnd"}

\* The kernels of each phase, block by block.
ShapeOf(r, b) ==
  /\ phase[r] # "copy" => op[r] <= MaxOps
  /\ phase[r] \in {"start", "end"} => Gathers(r)
  /\ step[r][b] # "idle" =>
       \/ phase[r] = "start" /\ b = 0 /\ step[r][b] \in {"arrive", "wait"}
       \/ phase[r] = "end" /\ b = 0 /\ step[r][b] \in {"arriveEnd", "waitEnd"}
       \/ phase[r] = "body" /\ Gathers(r) /\ b < Grid(r) /\ step[r][b] = "read"
       \/ /\ phase[r] = "body" /\ ~ Gathers(r) /\ b < Grid(r)
          /\ step[r][b] = "collect" => Current(r).kind = "two"
Shape == \A r \in Ranks, b \in Blocks : ShapeOf(r, b)

\* The barrier of every row.
Counts ==
  \A r \in Ranks, b \in Blocks :
    arrived[b][r] = IF Waits(r, b) THEN left[b][r] + 1 ELSE left[b][r]
NoneAhead == \A r, p \in Ranks, b \in Blocks : left[b][r] <= arrived[b][p]

\* Ranks are at most one operation apart, and level in each row up to what
\* they have left of their operations.
Near == \A r, p \in Ranks : op[r] <= op[p] + 1
Level ==
  \A r, p \in Ranks, b \in Blocks :
    /\ op[r] = op[p] => left[b][r] + Passed(p, b) = left[b][p] + Passed(r, b)
    /\ op[r] = op[p] + 1 =>
         left[b][r] + Passed(p, b) =
           left[b][p] + Needs(program[op[p]], b) + Passed(r, b)

ControlInv == TypeOK /\ Shape /\ Counts /\ NoneAhead /\ Near /\ Level

\* What the inputs of some ranks to operation n add up to.
Inputs(n, ranks) == {<<p, n>> : p \in ranks}
Whole(n) == Inputs(n, Ranks)
Wanted(r, q) == IF Gathers(r) THEN {<<q, op[r]>>} ELSE Whole(op[r])

\* A staging buffer holds the last input that was copied.
Staged == \A r \in Ranks : staging[r] = IF phase[r] = "copy" THEN op[r] - 1 ELSE op[r]

\* A block has added the inputs it has read.
AddedOf(r, b) ==
  step[r][b] = "read" =>
    /\ unread[r][b] \subseteq Sources(r)
    /\ ~ Gathers(r) => acc[r][b] = Inputs(op[r], Ranks \ unread[r][b])
Added == \A r \in Ranks, b \in Blocks : AddedOf(r, b)

\* A chunk stays behind the Signal while a peer is in the same operation.
Reduced(r, b) ==
  \/ phase[r] = "done"
  \/ phase[r] = "body" /\ step[r][b] \in {"arriveEnd", "waitEnd", "collect", "idle"}
ReducedChunk(p, b) ==
  phase[p] # "copy" /\ Current(p).kind = "two" /\ b < Grid(p) /\ Reduced(p, b) =>
    \A x \in Handled(b, Grid(p)) : scratch[p][x] = Whole(op[p])
KeptChunk(p, r) ==
  op[p] = op[r] + 1 /\ Current(r).kind = "two" =>
    \A x \in Offsets : scratch[p][x] = Whole(op[r])
Chunks ==
  /\ \A p \in Ranks, b \in Blocks : ReducedChunk(p, b)
  /\ \A p \in Ranks, r \in Ranks : KeptChunk(p, r)

\* What a block has written to the output.
Written(r, b, q) ==
  \/ step[r][b] = "idle" \/ phase[r] = "end"
  \/ Current(r).kind = "one" /\ step[r][b] \in {"arriveEnd", "waitEnd"}
  \/ Gathers(r) /\ step[r][b] = "read" /\ q # r /\ q \notin unread[r][b]
  \/ step[r][b] = "collect" /\ q \notin unread[r][b]
OutputOf(r, b, q) ==
  phase[r] \in {"body", "end", "done"} /\ b < Grid(r) /\ Written(r, b, q) =>
    \A x \in Handled(b, Grid(r)) : out[r][q][x] = Wanted(r, q)
Outputs == \A r \in Ranks, b \in Blocks, q \in Ranks : OutputOf(r, b, q)

DataInv == Staged /\ Added /\ Chunks /\ Outputs
CollectiveInv == ControlInv /\ DataInv

-----------------------------------------------------------------------------
(* Rows and barriers.                                                      *)

LEMMA CurrentIs ==
  ASSUME TypeOK, NEW r \in Ranks, op[r] <= MaxOps
  PROVE  /\ Current(r) \in Operations
         /\ Current(r).kind \in Kinds
         /\ Grid(r) \in Nat \ {0} /\ Grid(r) <= MaxGrid
         /\ Rows(Current(r)) \in Nat \ {0}
<1>1. op[r] \in 1 .. MaxOps
  BY CollectiveAssumption DEF TypeOK, CollectiveAssumption
<1>2. Current(r) \in Operations
  BY <1>1 DEF TypeOK, Current
<1>3. Grid(r) \in 1 .. MaxGrid
  BY <1>2 DEF Grid, Operations
<1> QED
  BY <1>2, <1>3, CollectiveAssumption DEF Grid, Rows, Operations, CollectiveAssumption

LEMMA BlocksAre ==
  /\ MaxGrid \in Nat \ {0} /\ 0 \in Blocks
  /\ \A b \in Blocks : b \in Nat /\ b < MaxGrid
BY CollectiveAssumption DEF CollectiveAssumption, Blocks

\* The barriers row b of rank r has reached in its operation.
Reached(r, b) == IF Waits(r, b) THEN Passed(r, b) + 1 ELSE Passed(r, b)

LEMMA ReachedIs ==
  ASSUME TypeOK, NEW r \in Ranks, NEW b \in Blocks, ShapeOf(r, b)
  PROVE  /\ Passed(r, b) \in 0 .. 2 /\ Reached(r, b) \in 0 .. 3
         /\ op[r] <= MaxOps => Reached(r, b) <= Needs(Current(r), b)
         /\ phase[r] = "copy" => Reached(r, b) = 0
         /\ Passed(r, b) > 0 => phase[r] # "copy" /\ op[r] <= MaxOps
<1>1. /\ Passed(r, b) \in 0 .. 2 /\ Reached(r, b) \in 0 .. 3
      /\ Passed(r, b) > 0 => phase[r] # "copy" /\ op[r] <= MaxOps
      /\ phase[r] = "copy" => Reached(r, b) = 0
  BY DEF Passed, Reached, ShapeOf, Waits
<1>2. ASSUME op[r] <= MaxOps, b >= Rows(Current(r))
      PROVE  Reached(r, b) = 0
  BY <1>2, CurrentIs, BlocksAre DEF Passed, Reached, ShapeOf, Waits, Rows, Gathers, Grid
<1>3. ASSUME op[r] <= MaxOps, b < Rows(Current(r))
      PROVE  Reached(r, b) <= 2
  BY <1>3, CurrentIs, BlocksAre DEF Passed, Reached, ShapeOf, Waits, Gathers, TypeOK, Steps
<1>4. op[r] <= MaxOps => b < Rows(Current(r)) \/ b >= Rows(Current(r))
  BY CurrentIs, BlocksAre
<1> QED
  BY <1>1, <1>2, <1>3, <1>4 DEF Needs

\* What two ranks know of each other in a row.
LEMMA Meet ==
  ASSUME ControlInv, NEW r \in Ranks, NEW p \in Ranks, NEW b \in Blocks
  PROVE  /\ op[r] = op[p] => Passed(r, b) <= Reached(p, b)
         /\ op[r] = op[p] + 1 => Passed(r, b) = 0 /\ Reached(p, b) = Needs(Current(p), b)
<1>1. /\ Passed(r, b) \in 0 .. 2 /\ Passed(p, b) \in 0 .. 2
      /\ left[b][r] \in Nat /\ left[b][p] \in Nat /\ arrived[b][p] \in Nat
      /\ left[b][r] <= arrived[b][p]
      /\ arrived[b][p] = IF Waits(p, b) THEN left[b][p] + 1 ELSE left[b][p]
  BY ReachedIs DEF ControlInv, TypeOK, Shape, Counts, NoneAhead
<1>2. op[r] = op[p] => left[b][r] + Passed(p, b) = left[b][p] + Passed(r, b)
  BY DEF ControlInv, Level
<1>3. ASSUME op[r] = op[p] + 1
      PROVE  Passed(r, b) = 0 /\ Reached(p, b) = Needs(Current(p), b)
  <2>1. op[p] <= MaxOps
    BY <1>3, CollectiveAssumption DEF ControlInv, TypeOK, CollectiveAssumption
  <2>2. Reached(p, b) <= Needs(Current(p), b) /\ Needs(Current(p), b) \in {0, 2}
    BY <2>1, ReachedIs DEF ControlInv, Shape, Needs
  <2>3. left[b][r] + Passed(p, b) = left[b][p] + Needs(Current(p), b) + Passed(r, b)
    BY <1>3 DEF ControlInv, Level, Current
  <2> QED
    BY <1>1, <2>2, <2>3 DEF Reached
<1> QED
  BY <1>1, <1>2, <1>3 DEF Reached

LEMMA Neighbours ==
  ASSUME ControlInv, NEW r \in Ranks, NEW p \in Ranks
  PROVE  /\ op[r] \in Nat /\ op[p] \in Nat
         /\ op[p] = op[r] \/ op[p] = op[r] + 1 \/ op[r] = op[p] + 1
<1>1. op[r] \in Nat /\ op[p] \in Nat
  BY CollectiveAssumption DEF ControlInv, TypeOK, CollectiveAssumption
<1>2. op[r] <= op[p] + 1 /\ op[p] <= op[r] + 1
  BY DEF ControlInv, Near
<1> QED
  BY <1>1, <1>2

\* A block that reads finds every rank in its operation, its input staged.
LEMMA Reader ==
  ASSUME ControlInv, NEW r \in Ranks, NEW b \in Blocks, step[r][b] = "read", NEW p \in Ranks
  PROVE  op[p] = op[r] /\ phase[p] # "copy" /\ op[r] <= MaxOps
<1>1. phase[r] = "body" /\ op[r] <= MaxOps /\ b < Grid(r)
  BY DEF ControlInv, Shape, ShapeOf
<1>2. PICK c \in Blocks : Passed(r, c) = 1 /\ Reached(r, c) = 1 /\ Needs(Current(r), c) = 2
  <2>1. CASE Gathers(r)
    <3>1. /\ Passed(r, 0) = 1 /\ Needs(Current(r), 0) = 2
      BY <1>1, <2>1 DEF Passed, Needs, Rows, Gathers
    <3>2. ~ Waits(r, 0)
      BY <1>1, <2>1, BlocksAre DEF ControlInv, Shape, ShapeOf, Waits
    <3> QED
      BY <3>1, <3>2, BlocksAre DEF Reached
  <2>2. CASE ~ Gathers(r)
    BY <1>1, <2>2, CurrentIs, BlocksAre DEF Passed, Needs, Rows, Gathers, Grid, Reached, Waits,
       ControlInv
  <2> QED
    BY <2>1, <2>2
<1>3. op[p] # op[r] + 1
  BY <1>2, Meet
<1>4. op[r] # op[p] + 1
  BY <1>2, Meet
<1>5. op[p] = op[r]
  BY <1>3, <1>4, Neighbours
<1>6. Reached(p, c) >= 1
  BY <1>2, <1>5, Meet
<1>7. phase[p] # "copy"
  BY <1>6, ReachedIs DEF ControlInv, Shape
<1> QED
  BY <1>1, <1>5, <1>7

\* A block that collects finds the same row of every rank reduced, or the rank
\* in the next operation, before its first barrier.
LEMMA Collector ==
  ASSUME ControlInv, NEW r \in Ranks, NEW b \in Blocks, step[r][b] = "collect", NEW p \in Ranks
  PROVE  /\ op[r] <= MaxOps /\ phase[r] = "body" /\ Current(r).kind = "two" /\ b < Grid(r)
         /\ \/ op[p] = op[r] /\ phase[p] # "copy" /\ Reduced(p, b)
            \/ op[p] = op[r] + 1
<1>1. op[r] <= MaxOps /\ phase[r] = "body" /\ Current(r).kind = "two" /\ b < Grid(r)
  BY DEF ControlInv, Shape, ShapeOf, Gathers
<1>2. Passed(r, b) = 2
  BY <1>1, CurrentIs, BlocksAre DEF Passed, Rows, Gathers, Grid, ControlInv
<1>3. op[r] # op[p] + 1
  BY <1>2, Meet
<1>4. op[p] = op[r] \/ op[p] = op[r] + 1
  BY <1>3, Neighbours
<1>5. ASSUME op[p] = op[r]
      PROVE  phase[p] # "copy" /\ Reduced(p, b)
  <2>1. Reached(p, b) >= 2
    BY <1>2, <1>5, Meet
  <2>2. Current(p) = Current(r)
    BY <1>5 DEF Current
  <2> QED
    BY <1>1, <2>1, <2>2, BlocksAre DEF Reached, Passed, Waits, Reduced, ControlInv, TypeOK, Shape, ShapeOf,
       Gathers, Steps
<1> QED
  BY <1>1, <1>4, <1>5

-----------------------------------------------------------------------------
(* Steps keep the control invariant.                                       *)

\* A step that moves no operation on keeps the ranks level if in each row it
\* leaves as many barriers as its position advances.
LEMMA LevelKept ==
  ASSUME ControlInv, TypeOK', UNCHANGED << program, op >>,
         \A q \in Ranks, c \in Blocks :
           left'[c][q] + Passed(q, c) = left[c][q] + Passed(q, c)'
  PROVE  Near' /\ Level'
<1>1. Near'
  BY DEF ControlInv, Near
<1>2. ASSUME NEW q \in Ranks, NEW c \in Blocks
      PROVE  /\ Passed(q, c) \in Nat /\ Passed(q, c)' \in Nat
             /\ left[c][q] \in Nat /\ left'[c][q] \in Nat
             /\ left'[c][q] + Passed(q, c) = left[c][q] + Passed(q, c)'
  BY DEF ControlInv, TypeOK, Passed
<1>3. \A o, c : Needs(o, c) \in Nat
  BY DEF Needs
<1>4. ASSUME NEW q \in Ranks, NEW p \in Ranks, NEW c \in Blocks
      PROVE  /\ op'[q] = op'[p] => left'[c][q] + Passed(p, c)' = left'[c][p] + Passed(q, c)'
             /\ op'[q] = op'[p] + 1 =>
                  left'[c][q] + Passed(p, c)' =
                    left'[c][p] + Needs(program'[op'[p]], c) + Passed(q, c)'
  <2>1. /\ op[q] = op[p] => left[c][q] + Passed(p, c) = left[c][p] + Passed(q, c)
        /\ op[q] = op[p] + 1 =>
             left[c][q] + Passed(p, c) = left[c][p] + Needs(program[op[p]], c) + Passed(q, c)
    BY DEF ControlInv, Level
  <2> DEFINE n == Needs(program[op[p]], c)
  <2>2. n \in Nat /\ Needs(program'[op'[p]], c) = n
    BY <1>3
  <2> HIDE DEF n
  <2>3. op[q] = op[p] + 1 => left[c][q] + Passed(p, c) = left[c][p] + n + Passed(q, c)
    BY <2>1 DEF n
  <2>4. /\ Passed(q, c) \in Nat /\ Passed(q, c)' \in Nat /\ left[c][q] \in Nat
        /\ left'[c][q] \in Nat /\ left'[c][q] + Passed(q, c) = left[c][q] + Passed(q, c)'
    BY <1>2
  <2>5. /\ Passed(p, c) \in Nat /\ Passed(p, c)' \in Nat /\ left[c][p] \in Nat
        /\ left'[c][p] \in Nat /\ left'[c][p] + Passed(p, c) = left[c][p] + Passed(p, c)'
    BY <1>2
  <2>6. op'[q] = op'[p] => left'[c][q] + Passed(p, c)' = left'[c][p] + Passed(q, c)'
    BY <2>1, <2>4, <2>5
  <2>7. op'[q] = op'[p] + 1 =>
          left'[c][q] + Passed(p, c)' = left'[c][p] + n + Passed(q, c)'
    BY <2>2, <2>3, <2>4, <2>5
  <2> QED
    BY <2>2, <2>6, <2>7
<1>5. Level'
  BY <1>4 DEF Level
<1> QED
  BY <1>1, <1>5

\* Nothing changes of the rows and ranks a block step does not name.
LEMMA OthersPassed ==
  ASSUME NEW q, NEW c, UNCHANGED << program, op, phase >>, step'[q][c] = step[q][c]
  PROVE  /\ Passed(q, c)' = Passed(q, c) /\ Waits(q, c)' = Waits(q, c)
         /\ ShapeOf(q, c)' = ShapeOf(q, c)
BY DEF Passed, Waits, ShapeOf, Current, Grid, Gathers, Rows

LEMMA ArriveControl ==
  ASSUME ControlInv, NEW r \in Ranks, NEW b \in Blocks, ArriveBarrier(r, b)
  PROVE  ControlInv'
<1>1. /\ step[r][b] \in {"arrive", "arriveEnd"}
      /\ arrived[b][r] = left[b][r]
      /\ arrived' = [arrived EXCEPT ![b][r] = @ + 1]
      /\ step' = [step EXCEPT ![r][b] = IF @ = "arrive" THEN "wait" ELSE "waitEnd"]
      /\ UNCHANGED << program, op, phase, left, dataVars >>
  BY DEF ArriveBarrier, Row!MayArrive
<1>2. TypeOK'
  BY <1>1 DEF ControlInv, TypeOK, Steps, dataVars
<1>3. ShapeOf(r, b)' /\ Passed(r, b)' = Passed(r, b) /\ Waits(r, b)' /\ ~ Waits(r, b)
  BY <1>1, BlocksAre DEF ControlInv, TypeOK, Shape, ShapeOf, Passed, Waits, Current, Grid, Gathers, Rows
<1>4. \A q \in Ranks, c \in Blocks : q # r \/ c # b => step'[q][c] = step[q][c]
  BY <1>1 DEF ControlInv, TypeOK
<1>5. Shape'
  BY <1>1, <1>3, <1>4, OthersPassed DEF ControlInv, Shape
<1>6. Counts' /\ NoneAhead'
  <2>1. /\ left \in [Blocks -> [Ranks -> Nat]] /\ arrived \in [Blocks -> [Ranks -> Nat]]
        /\ \A q \in Ranks, c \in Blocks : left[c][q] \in Nat /\ arrived[c][q] \in Nat
    BY DEF ControlInv, TypeOK
  <2>2. /\ arrived'[b][r] = arrived[b][r] + 1
        /\ \A q \in Ranks, c \in Blocks : q # r \/ c # b => arrived'[c][q] = arrived[c][q]
    BY <1>1, <2>1
  <2>3. \A q \in Ranks, c \in Blocks : q # r \/ c # b => Waits(q, c)' = Waits(q, c)
    BY <1>1, <1>4, OthersPassed
  <2>4. Counts'
    BY <1>1, <1>3, <2>2, <2>3 DEF ControlInv, Counts
  <2>5. NoneAhead'
    BY <1>1, <2>1, <2>2 DEF ControlInv, NoneAhead
  <2> QED
    BY <2>4, <2>5
<1>7. \A q \in Ranks, c \in Blocks :
        left'[c][q] + Passed(q, c) = left[c][q] + Passed(q, c)'
  BY <1>1, <1>3, <1>4, OthersPassed
<1> QED
  BY <1>1, <1>2, <1>5, <1>6, <1>7, LevelKept DEF ControlInv

\* Steps of a block that leave its barriers alone.
LEMMA QuietStep ==
  ASSUME ControlInv, NEW r \in Ranks, NEW b \in Blocks, TypeOK',
         UNCHANGED << program, op, phase, arrived, left >>,
         \A q \in Ranks, c \in Blocks : q # r \/ c # b => step'[q][c] = step[q][c],
         ShapeOf(r, b)', Passed(r, b)' = Passed(r, b), Waits(r, b)' = Waits(r, b)
  PROVE  ControlInv'
<1>1. Shape'
  BY OthersPassed DEF ControlInv, Shape
<1>2. Counts' /\ NoneAhead'
  BY OthersPassed DEF ControlInv, Counts, NoneAhead
<1>3. \A q \in Ranks, c \in Blocks :
        left'[c][q] + Passed(q, c) = left[c][q] + Passed(q, c)'
  BY OthersPassed
<1> QED
  BY <1>1, <1>2, <1>3, LevelKept DEF ControlInv

\* Steps that leave a barrier.
LEMMA LeaveStep ==
  ASSUME ControlInv, NEW r \in Ranks, NEW b \in Blocks, TypeOK',
         UNCHANGED << program, op, phase, arrived >>,
         left' = [left EXCEPT ![b][r] = @ + 1],
         \A p \in Ranks : arrived[b][p] >= arrived[b][r],
         \A q \in Ranks, c \in Blocks : q # r \/ c # b => step'[q][c] = step[q][c],
         ShapeOf(r, b)', Passed(r, b)' = Passed(r, b) + 1, Waits(r, b), ~ Waits(r, b)'
  PROVE  ControlInv'
<1>1. Shape'
  BY OthersPassed DEF ControlInv, Shape
<1>2. /\ \A q \in Ranks, c \in Blocks : left[c][q] \in Nat /\ arrived[c][q] \in Nat
      /\ \A q \in Ranks, c \in Blocks :
           left'[c][q] = IF q = r /\ c = b THEN left[b][r] + 1 ELSE left[c][q]
  <2>1. left \in [Blocks -> [Ranks -> Nat]] /\ arrived \in [Blocks -> [Ranks -> Nat]]
    BY DEF ControlInv, TypeOK
  <2>2. /\ left'[b][r] = left[b][r] + 1
        /\ \A q \in Ranks, c \in Blocks : q # r \/ c # b => left'[c][q] = left[c][q]
    BY <2>1
  <2> QED
    BY <2>1, <2>2
<1>3. arrived[b][r] = left[b][r] + 1
  BY DEF ControlInv, Counts
<1>4. Counts'
  BY <1>2, <1>3, OthersPassed DEF ControlInv, Counts
<1>5. NoneAhead'
  BY <1>2, <1>3 DEF ControlInv, NoneAhead
<1>6. ASSUME NEW q \in Ranks, NEW c \in Blocks
      PROVE  left'[c][q] + Passed(q, c) = left[c][q] + Passed(q, c)'
  <2>1. Passed(q, c) \in Nat
    BY DEF Passed
  <2>2. q # r \/ c # b => Passed(q, c)' = Passed(q, c)
    BY OthersPassed
  <2> QED
    BY <1>2, <2>1, <2>2
<1> QED
  BY <1>1, <1>4, <1>5, <1>6, LevelKept DEF ControlInv

LEMMA PassStartControl ==
  ASSUME ControlInv, NEW r \in Ranks, NEW b \in Blocks, PassStart(r, b)
  PROVE  ControlInv'
<1>1. /\ step[r][b] = "wait"
      /\ \A p \in Ranks : arrived[b][p] >= arrived[b][r]
      /\ left' = [left EXCEPT ![b][r] = @ + 1]
      /\ step' = [step EXCEPT ![r][b] = IF phase[r] = "start" THEN "idle" ELSE "read"]
      /\ UNCHANGED << program, op, phase, arrived, staging, scratch, out >>
  BY DEF PassStart, Row!MayLeave
<1>2. unread' \in [Ranks -> [Blocks -> SUBSET Ranks]] /\ acc' \in [Ranks -> [Blocks -> SUBSET Contributions]]
  <2>1. CASE phase[r] = "start"
    BY <2>1 DEF PassStart, ControlInv, TypeOK
  <2>2. CASE phase[r] # "start"
    <3>1. Sources(r) \in SUBSET Ranks /\ {} \in SUBSET Contributions
      BY DEF Sources
    <3>2. /\ unread' = [unread EXCEPT ![r][b] = Sources(r)]
          /\ acc' = [acc EXCEPT ![r][b] = {}]
      BY <2>2 DEF PassStart
    <3> HIDE DEF Sources
    <3> QED
      BY <3>1, <3>2 DEF ControlInv, TypeOK
  <2> QED
    BY <2>1, <2>2
<1>3. step' \in [Ranks -> [Blocks -> Steps]] /\ left' \in [Blocks -> [Ranks -> Nat]]
  BY <1>1 DEF ControlInv, TypeOK, Steps
<1>4. TypeOK'
  BY <1>1, <1>2, <1>3 DEF ControlInv, TypeOK
<1>5. ShapeOf(r, b) /\ op[r] <= MaxOps
  BY <1>1 DEF ControlInv, Shape, ShapeOf
<1>6. /\ ShapeOf(r, b)' /\ Passed(r, b)' = Passed(r, b) + 1
      /\ Waits(r, b) /\ ~ Waits(r, b)'
  <2>1. step'[r][b] = IF phase[r] = "start" THEN "idle" ELSE "read"
    BY <1>1 DEF ControlInv, TypeOK
  <2>2. ShapeOf(r, b)'
    BY <1>1, <1>5, <2>1 DEF ShapeOf, Gathers, Grid, Current
  <2>3. b < Rows(Current(r)) /\ ~ (b >= Rows(Current(r)))
    BY <1>1, <1>5, CurrentIs, BlocksAre DEF ShapeOf, Rows, Gathers, Grid, ControlInv
  <2>4. Passed(r, b) = 0 /\ Passed(r, b)' = 1
    BY <1>1, <1>5, <2>1, <2>3 DEF ShapeOf, Passed, Gathers, Rows, Grid, Current
  <2> QED
    BY <1>1, <2>1, <2>2, <2>4 DEF Waits
<1>7. \A q \in Ranks, c \in Blocks : q # r \/ c # b => step'[q][c] = step[q][c]
  BY <1>1 DEF ControlInv, TypeOK
<1> QED
  BY <1>1, <1>4, <1>6, <1>7, LeaveStep

LEMMA PassEndControl ==
  ASSUME ControlInv, NEW r \in Ranks, NEW b \in Blocks, PassEnd(r, b)
  PROVE  ControlInv'
<1>1. /\ step[r][b] = "waitEnd"
      /\ \A p \in Ranks : arrived[b][p] >= arrived[b][r]
      /\ left' = [left EXCEPT ![b][r] = @ + 1]
      /\ step' = [step EXCEPT ![r][b] = IF Current(r).kind = "two" THEN "collect" ELSE "idle"]
      /\ UNCHANGED << program, op, phase, arrived, staging, scratch, acc, out >>
  BY DEF PassEnd, Row!MayLeave
<1>2. unread' \in [Ranks -> [Blocks -> SUBSET Ranks]]
  <2>1. unread' = [unread EXCEPT ![r][b] = Ranks] \/ unread' = unread
    BY DEF PassEnd
  <2>2. unread \in [Ranks -> [Blocks -> SUBSET Ranks]] /\ Ranks \in SUBSET Ranks
    BY DEF ControlInv, TypeOK
  <2> QED
    BY <2>1, <2>2
<1>3. TypeOK'
  <2>1. left' \in [Blocks -> [Ranks -> Nat]]
    BY <1>1 DEF ControlInv, TypeOK
  <2>2. CASE Current(r).kind = "two"
    BY <1>1, <1>2, <2>1, <2>2 DEF ControlInv, TypeOK, Steps
  <2>3. CASE Current(r).kind # "two"
    BY <1>1, <1>2, <2>1, <2>3 DEF ControlInv, TypeOK, Steps
  <2> QED
    BY <2>2, <2>3
<1>4. ShapeOf(r, b) /\ op[r] <= MaxOps
  BY <1>1 DEF ControlInv, Shape, ShapeOf
<1>5. /\ ShapeOf(r, b)' /\ Passed(r, b)' = Passed(r, b) + 1
      /\ Waits(r, b) /\ ~ Waits(r, b)'
  <2>1. step'[r][b] = IF Current(r).kind = "two" THEN "collect" ELSE "idle"
    BY <1>1 DEF ControlInv, TypeOK
  <2>2. ShapeOf(r, b)'
    BY <1>1, <1>4, <2>1 DEF ShapeOf, Gathers, Grid, Current
  <2>3. b < Rows(Current(r)) /\ ~ (b >= Rows(Current(r)))
    BY <1>1, <1>4, CurrentIs, BlocksAre DEF ShapeOf, Rows, Gathers, Grid, ControlInv
  <2>4. Passed(r, b) = 1 /\ Passed(r, b)' = 2
    BY <1>1, <1>4, <2>1, <2>3 DEF ShapeOf, Passed, Gathers, Rows, Grid, Current
  <2> QED
    BY <1>1, <2>1, <2>2, <2>4 DEF Waits
<1>6. \A q \in Ranks, c \in Blocks : q # r \/ c # b => step'[q][c] = step[q][c]
  BY <1>1 DEF ControlInv, TypeOK
<1> QED
  BY <1>1, <1>3, <1>5, <1>6, LeaveStep

-----------------------------------------------------------------------------
(* What the steps of a block write.                                        *)

LEMMA BlockTypes ==
  ASSUME TypeOK, UNCHANGED << program, op, phase, arrived, left, staging >>,
         step' \in [Ranks -> [Blocks -> Steps]],
         scratch' \in [Ranks -> [Offsets -> SUBSET Contributions]],
         unread' \in [Ranks -> [Blocks -> SUBSET Ranks]],
         acc' \in [Ranks -> [Blocks -> SUBSET Contributions]],
         out' \in [Ranks -> [Ranks -> [Offsets -> SUBSET Contributions]]]
  PROVE  TypeOK'
BY DEF TypeOK

\* Writing the elements `mine` of one chunk of an output.
Rewritten(r, p, mine, V) ==
  [out EXCEPT ![r][p] = [x \in Offsets |-> IF x \in mine THEN V[x] ELSE @[x]]]

LEMMA WriteChunk ==
  ASSUME TypeOK, NEW r \in Ranks, NEW p \in Ranks, NEW mine,
         NEW V \in [Offsets -> SUBSET Contributions],
         out' = Rewritten(r, p, mine, V)
  PROVE  /\ out' \in [Ranks -> [Ranks -> [Offsets -> SUBSET Contributions]]]
         /\ \A s \in Ranks, q \in Ranks, x \in Offsets :
              out'[s][q][x] = IF s = r /\ q = p /\ x \in mine THEN V[x] ELSE out[s][q][x]
<1> DEFINE chunk == [x \in Offsets |-> IF x \in mine THEN V[x] ELSE out[r][p][x]]
<1>1. out \in [Ranks -> [Ranks -> [Offsets -> SUBSET Contributions]]]
  BY DEF TypeOK
<1>2. out' = [out EXCEPT ![r][p] = chunk]
  BY DEF Rewritten
<1>3. chunk \in [Offsets -> SUBSET Contributions]
  BY <1>1
<1>4. \A x \in Offsets : chunk[x] = IF x \in mine THEN V[x] ELSE out[r][p][x]
  OBVIOUS
<1> HIDE DEF chunk
<1>5. out' \in [Ranks -> [Ranks -> [Offsets -> SUBSET Contributions]]]
  BY <1>1, <1>2, <1>3
<1>6. ASSUME NEW s \in Ranks, NEW q \in Ranks, NEW x \in Offsets
      PROVE  out'[s][q][x] = IF s = r /\ q = p /\ x \in mine THEN V[x] ELSE out[s][q][x]
  <2>1. CASE s = r /\ q = p
    BY <1>1, <1>2, <1>4, <2>1
  <2>2. CASE ~ (s = r /\ q = p)
    BY <1>1, <1>2, <2>2
  <2> QED
    BY <2>1, <2>2
<1> QED
  BY <1>5, <1>6

LEMMA ReadInputWrites ==
  ASSUME ControlInv, NEW r \in Ranks, NEW b \in Blocks, NEW p \in Ranks, ReadInput(r, b, p)
  PROVE  /\ TypeOK'
         /\ step[r][b] = "read" /\ p \in unread[r][b]
         /\ UNCHANGED << program, op, phase, step, arrived, left, staging, scratch >>
         /\ unread'[r][b] = unread[r][b] \ {p}
         /\ ~ Gathers(r) => acc'[r][b] = acc[r][b] \cup {<<p, staging[p]>>} /\ out' = out
         /\ \A s \in Ranks, c \in Blocks :
              s # r \/ c # b => unread'[s][c] = unread[s][c] /\ acc'[s][c] = acc[s][c]
         /\ Gathers(r) =>
              \A x \in Offsets : x \in Handled(b, Grid(r)) => out'[r][p][x] = {<<p, staging[p]>>}
         /\ \A s \in Ranks, q \in Ranks, x \in Offsets :
              s # r \/ q # p \/ x \notin Handled(b, Grid(r)) => out'[s][q][x] = out[s][q][x]
<1>1. /\ step[r][b] = "read" /\ p \in unread[r][b]
      /\ unread' = [unread EXCEPT ![r][b] = @ \ {p}]
      /\ UNCHANGED << program, op, phase, step, arrived, left, staging, scratch >>
  BY DEF ReadInput, barrierVars
<1>2. TypeOK /\ <<p, staging[p]>> \in Contributions
  BY DEF ControlInv, TypeOK, Contributions
<1>3. /\ unread' \in [Ranks -> [Blocks -> SUBSET Ranks]]
      /\ unread'[r][b] = unread[r][b] \ {p}
      /\ \A s \in Ranks, c \in Blocks : s # r \/ c # b => unread'[s][c] = unread[s][c]
  BY <1>1, <1>2 DEF TypeOK
<1>4. CASE Gathers(r)
  <2> DEFINE V == [x \in Offsets |-> {<<p, staging[p]>>}]
             mine == Handled(b, Grid(r))
  <2>1. acc' = acc /\ out' = [out EXCEPT ![r][p] = [x \in Offsets |->
                       IF x \in mine THEN {<<p, staging[p]>>} ELSE @[x]]]
    BY <1>4 DEF ReadInput, Gathers
  <2>2. V \in [Offsets -> SUBSET Contributions] /\ \A x \in Offsets : V[x] = {<<p, staging[p]>>}
    BY <1>2
  <2> HIDE DEF V, mine
  <2>3. out' = Rewritten(r, p, mine, V)
    BY <2>1, <2>2 DEF Rewritten
  <2>4. /\ out' \in [Ranks -> [Ranks -> [Offsets -> SUBSET Contributions]]]
        /\ \A s \in Ranks, q \in Ranks, x \in Offsets :
              out'[s][q][x] = IF s = r /\ q = p /\ x \in mine THEN V[x] ELSE out[s][q][x]
    BY <1>2, <2>2, <2>3, WriteChunk
  <2>5. TypeOK'
    <3>1. /\ step' \in [Ranks -> [Blocks -> Steps]]
          /\ scratch' \in [Ranks -> [Offsets -> SUBSET Contributions]]
          /\ acc' \in [Ranks -> [Blocks -> SUBSET Contributions]]
      BY <1>1, <1>2, <2>1 DEF TypeOK
    <3> QED
      BY <1>1, <1>2, <1>3, <2>4, <3>1, BlockTypes
  <2> QED
    BY <1>1, <1>3, <1>4, <2>1, <2>2, <2>4, <2>5 DEF mine
<1>5. CASE ~ Gathers(r)
  <2>1. out' = out /\ acc' = [acc EXCEPT ![r][b] = @ \cup {<<p, staging[p]>>}]
    BY <1>5 DEF ReadInput, Gathers
  <2>2. /\ acc' \in [Ranks -> [Blocks -> SUBSET Contributions]]
        /\ acc'[r][b] = acc[r][b] \cup {<<p, staging[p]>>}
        /\ \A s \in Ranks, c \in Blocks : s # r \/ c # b => acc'[s][c] = acc[s][c]
    BY <1>2, <2>1 DEF TypeOK
  <2>3. TypeOK'
    BY <1>1, <1>2, <1>3, <2>1, <2>2 DEF TypeOK
  <2> QED
    BY <1>1, <1>3, <1>5, <2>1, <2>2, <2>3
<1> QED
  BY <1>4, <1>5

LEMMA CollectWrites ==
  ASSUME ControlInv, NEW r \in Ranks, NEW b \in Blocks, NEW p \in Ranks, Collect(r, b, p)
  PROVE  /\ TypeOK'
         /\ step[r][b] = "collect" /\ p \in unread[r][b]
         /\ UNCHANGED << program, op, phase, arrived, left, staging, scratch, acc >>
         /\ step'[r][b] = IF unread[r][b] = {p} THEN "idle" ELSE "collect"
         /\ \A s \in Ranks, c \in Blocks : s # r \/ c # b => step'[s][c] = step[s][c]
         /\ unread'[r][b] = unread[r][b] \ {p}
         /\ \A s \in Ranks, c \in Blocks : s # r \/ c # b => unread'[s][c] = unread[s][c]
         /\ \A x \in Offsets : x \in Handled(b, Grid(r)) => out'[r][p][x] = scratch[p][x]
         /\ \A s \in Ranks, q \in Ranks, x \in Offsets :
              s # r \/ q # p \/ x \notin Handled(b, Grid(r)) => out'[s][q][x] = out[s][q][x]
<1> DEFINE V == scratch[p]
           mine == Handled(b, Grid(r))
<1>1. /\ step[r][b] = "collect" /\ p \in unread[r][b]
      /\ unread' = [unread EXCEPT ![r][b] = @ \ {p}]
      /\ step' = [step EXCEPT ![r][b] = IF unread[r][b] = {p} THEN "idle" ELSE @]
      /\ UNCHANGED << program, op, phase, arrived, left, staging, scratch, acc >>
      /\ out' = Rewritten(r, p, mine, V)
  BY DEF Collect, Rewritten, barrierVars
<1>2. TypeOK /\ V \in [Offsets -> SUBSET Contributions]
  BY DEF ControlInv, TypeOK
<1> HIDE DEF V, mine
<1>3. /\ unread' \in [Ranks -> [Blocks -> SUBSET Ranks]]
      /\ unread'[r][b] = unread[r][b] \ {p}
      /\ \A s \in Ranks, c \in Blocks : s # r \/ c # b => unread'[s][c] = unread[s][c]
  BY <1>1, <1>2 DEF TypeOK
<1>4. /\ step' \in [Ranks -> [Blocks -> Steps]]
      /\ step'[r][b] = IF unread[r][b] = {p} THEN "idle" ELSE "collect"
      /\ \A s \in Ranks, c \in Blocks : s # r \/ c # b => step'[s][c] = step[s][c]
  BY <1>1, <1>2 DEF TypeOK, Steps
<1>5. /\ out' \in [Ranks -> [Ranks -> [Offsets -> SUBSET Contributions]]]
      /\ \A s \in Ranks, q \in Ranks, x \in Offsets :
            out'[s][q][x] = IF s = r /\ q = p /\ x \in mine THEN V[x] ELSE out[s][q][x]
  BY <1>1, <1>2, WriteChunk
<1>6. TypeOK'
  <2>1. /\ scratch' \in [Ranks -> [Offsets -> SUBSET Contributions]]
        /\ acc' \in [Ranks -> [Blocks -> SUBSET Contributions]]
    BY <1>1, <1>2 DEF TypeOK
  <2> QED
    BY <1>1, <1>2, <1>3, <1>4, <1>5, <2>1, BlockTypes
<1> QED
  BY <1>1, <1>3, <1>4, <1>5, <1>6 DEF V, mine

LEMMA FinishReduceWrites ==
  ASSUME ControlInv, NEW r \in Ranks, NEW b \in Blocks, FinishReduce(r, b)
  PROVE  /\ TypeOK'
         /\ step[r][b] = "read" /\ unread[r][b] = {}
         /\ UNCHANGED << program, op, phase, arrived, left, staging, unread, acc >>
         /\ step'[r][b] = IF Gathers(r) THEN "idle" ELSE "arriveEnd"
         /\ \A s \in Ranks, c \in Blocks : s # r \/ c # b => step'[s][c] = step[s][c]
         /\ Current(r).kind = "two" =>
              /\ out' = out
              /\ \A x \in Offsets : x \in Handled(b, Grid(r)) => scratch'[r][x] = acc[r][b]
         /\ Current(r).kind = "one" =>
              \A q \in Ranks, x \in Offsets :
                x \in Handled(b, Grid(r)) => out'[r][q][x] = acc[r][b]
         /\ Gathers(r) =>
              /\ \A x \in Offsets : x \in Handled(b, Grid(r)) => out'[r][r][x] = {<<r, op[r]>>}
              /\ \A q \in Ranks \ {r}, x \in Offsets : out'[r][q][x] = out[r][q][x]
         /\ Current(r).kind # "two" => scratch' = scratch
         /\ \A s \in Ranks, x \in Offsets :
              s # r \/ x \notin Handled(b, Grid(r)) => scratch'[s][x] = scratch[s][x]
         /\ \A s \in Ranks, q \in Ranks, x \in Offsets :
              s # r \/ x \notin Handled(b, Grid(r)) => out'[s][q][x] = out[s][q][x]
<1> DEFINE mine == Handled(b, Grid(r))
           sum == acc[r][b]
           to == IF Gathers(r) THEN "idle" ELSE "arriveEnd"
<1>1. /\ step[r][b] = "read" /\ unread[r][b] = {}
      /\ UNCHANGED << program, op, phase, arrived, left, staging, unread, acc >>
  BY DEF FinishReduce, barrierVars
<1>2. op[r] <= MaxOps /\ TypeOK
  BY <1>1 DEF ControlInv, Shape, ShapeOf
<1>3. /\ Current(r).kind \in {"one", "two", "gather"}
      /\ sum \in SUBSET Contributions /\ <<r, op[r]>> \in Contributions
  <2>1. Current(r).kind \in {"one", "two", "gather"}
    BY <1>2, CurrentIs DEF Kinds
  <2>2. sum \in SUBSET Contributions
    BY <1>2 DEF TypeOK
  <2>3. op[r] \in 0 .. MaxOps
    BY <1>2, CollectiveAssumption DEF TypeOK, CollectiveAssumption
  <2> QED
    BY <2>1, <2>2, <2>3 DEF Contributions
<1>4. step' = [step EXCEPT ![r][b] = to]
  BY <1>3 DEF FinishReduce, Gathers
<1>5. /\ step' \in [Ranks -> [Blocks -> Steps]]
      /\ step'[r][b] = to
      /\ \A s \in Ranks, c \in Blocks : s # r \/ c # b => step'[s][c] = step[s][c]
  <2>1. to \in Steps
    BY DEF Steps
  <2> HIDE DEF to
  <2> QED
    BY <1>2, <1>4, <2>1 DEF TypeOK
<1>6. /\ unread' \in [Ranks -> [Blocks -> SUBSET Ranks]]
      /\ acc' \in [Ranks -> [Blocks -> SUBSET Contributions]]
      /\ out \in [Ranks -> [Ranks -> [Offsets -> SUBSET Contributions]]]
      /\ scratch \in [Ranks -> [Offsets -> SUBSET Contributions]]
  BY <1>1, <1>2 DEF TypeOK
<1>7. CASE Current(r).kind = "one"
  <2> DEFINE chunks == [q \in Ranks |-> [x \in Offsets |-> IF x \in mine THEN sum ELSE out[r][q][x]]]
  <2>1. /\ scratch' = scratch
        /\ out' = [out EXCEPT ![r] = [q \in Ranks |-> [x \in Offsets |->
                     IF x \in mine THEN sum ELSE @[q][x]]]]
    BY <1>7 DEF FinishReduce
  <2> HIDE DEF mine, sum
  <2>2. out' = [out EXCEPT ![r] = chunks]
    BY <2>1
  <2>3. /\ chunks \in [Ranks -> [Offsets -> SUBSET Contributions]]
        /\ \A q \in Ranks, x \in Offsets :
             chunks[q][x] = IF x \in mine THEN sum ELSE out[r][q][x]
    BY <1>3, <1>6 
  <2> HIDE DEF chunks
  <2>4. /\ out' \in [Ranks -> [Ranks -> [Offsets -> SUBSET Contributions]]]
        /\ \A s \in Ranks, q \in Ranks, x \in Offsets :
             out'[s][q][x] = IF s = r /\ x \in mine THEN sum ELSE out[s][q][x]
    BY <1>6, <2>2, <2>3
  <2>5. TypeOK'
    BY <1>1, <1>2, <1>5, <1>6, <2>1, <2>4, BlockTypes
  <2> QED
    BY <1>1, <1>5, <1>7, <2>1, <2>4, <2>5 DEF mine, sum, Gathers
<1>8. CASE Current(r).kind = "two"
  <2> DEFINE chunk == [x \in Offsets |-> IF x \in mine THEN sum ELSE scratch[r][x]]
  <2>1. /\ out' = out
        /\ scratch' = [scratch EXCEPT ![r] = [x \in Offsets |-> IF x \in mine THEN sum ELSE @[x]]]
    BY <1>8 DEF FinishReduce
  <2> HIDE DEF mine, sum
  <2>2. scratch' = [scratch EXCEPT ![r] = chunk]
    BY <2>1
  <2>3. /\ chunk \in [Offsets -> SUBSET Contributions]
        /\ \A x \in Offsets : chunk[x] = IF x \in mine THEN sum ELSE scratch[r][x]
    BY <1>3, <1>6
  <2> HIDE DEF chunk
  <2>4. /\ scratch' \in [Ranks -> [Offsets -> SUBSET Contributions]]
        /\ \A s \in Ranks, x \in Offsets :
             scratch'[s][x] = IF s = r /\ x \in mine THEN sum ELSE scratch[s][x]
    BY <1>6, <2>2, <2>3
  <2>5. TypeOK'
    BY <1>1, <1>2, <1>5, <1>6, <2>1, <2>4, BlockTypes
  <2> QED
    BY <1>1, <1>5, <1>8, <2>1, <2>4, <2>5 DEF mine, sum, Gathers
<1>9. CASE Current(r).kind = "gather"
  <2> DEFINE V == [x \in Offsets |-> {<<r, op[r]>>}]
  <2>1. /\ scratch' = scratch
        /\ out' = [out EXCEPT ![r][r] = [x \in Offsets |->
                     IF x \in mine THEN {<<r, op[r]>>} ELSE @[x]]]
    BY <1>9 DEF FinishReduce
  <2>2. V \in [Offsets -> SUBSET Contributions] /\ \A x \in Offsets : V[x] = {<<r, op[r]>>}
    BY <1>3
  <2> HIDE DEF V, mine
  <2>3. out' = Rewritten(r, r, mine, V)
    BY <2>1, <2>2 DEF Rewritten
  <2>4. /\ out' \in [Ranks -> [Ranks -> [Offsets -> SUBSET Contributions]]]
        /\ \A s \in Ranks, q \in Ranks, x \in Offsets :
              out'[s][q][x] = IF s = r /\ q = r /\ x \in mine THEN V[x] ELSE out[s][q][x]
    BY <1>2, <2>2, <2>3, WriteChunk
  <2>5. TypeOK'
    BY <1>1, <1>2, <1>5, <1>6, <2>1, <2>4, BlockTypes
  <2> QED
    BY <1>1, <1>5, <1>9, <2>1, <2>2, <2>4, <2>5 DEF mine, Gathers
<1> QED
  BY <1>3, <1>7, <1>8, <1>9

LEMMA ReadInputControl ==
  ASSUME ControlInv, NEW r \in Ranks, NEW b \in Blocks, NEW p \in Ranks, ReadInput(r, b, p)
  PROVE  ControlInv'
<1>1. TypeOK' /\ UNCHANGED << program, op, phase, step, arrived, left >>
  BY ReadInputWrites
<1>2. \A q \in Ranks, c \in Blocks :
        /\ step'[q][c] = step[q][c] /\ ShapeOf(q, c)
        /\ ShapeOf(q, c)' = ShapeOf(q, c)
        /\ Passed(q, c)' = Passed(q, c) /\ Waits(q, c)' = Waits(q, c)
  BY <1>1, OthersPassed DEF ControlInv, Shape
<1> QED
  BY <1>1, <1>2, QuietStep

LEMMA CollectControl ==
  ASSUME ControlInv, NEW r \in Ranks, NEW b \in Blocks, NEW p \in Ranks, Collect(r, b, p)
  PROVE  ControlInv'
<1>1. /\ TypeOK' /\ step[r][b] = "collect"
      /\ UNCHANGED << program, op, phase, arrived, left >>
  BY CollectWrites
<1>4. /\ step'[r][b] \in {"collect", "idle"}
      /\ \A q \in Ranks, c \in Blocks : q # r \/ c # b => step'[q][c] = step[q][c]
  <2>1. step' = [step EXCEPT ![r][b] = IF unread[r][b] = {p} THEN "idle" ELSE @]
    BY DEF Collect
  <2> QED
    BY <1>1, <2>1 DEF ControlInv, TypeOK
<1>2. phase[r] = "body" /\ Current(r).kind = "two" /\ ShapeOf(r, b)
  BY <1>1 DEF ControlInv, Shape, ShapeOf, Gathers
<1>3. /\ Passed(r, b)' = Passed(r, b) /\ Waits(r, b)' = Waits(r, b)
      /\ ShapeOf(r, b)'
  <2>1. Current(r)' = Current(r) /\ Grid(r)' = Grid(r) /\ Gathers(r)' = Gathers(r)
    BY <1>1 DEF Current, Grid, Gathers
  <2>2. Passed(r, b)' = Passed(r, b)
    BY <1>1, <1>2, <1>4, <2>1 DEF Passed, Gathers
  <2>3. ~ Waits(r, b) /\ ~ Waits(r, b)'
    BY <1>1, <1>4 DEF Waits
  <2>4. ShapeOf(r, b)'
    BY <1>1, <1>2, <1>4, <2>1 DEF ShapeOf, Gathers
  <2> QED
    BY <2>2, <2>3, <2>4 DEF Waits
<1> QED
  BY <1>1, <1>3, <1>4, QuietStep

LEMMA FinishReduceControl ==
  ASSUME ControlInv, NEW r \in Ranks, NEW b \in Blocks, FinishReduce(r, b)
  PROVE  ControlInv'
<1>1. /\ TypeOK' /\ step[r][b] = "read"
      /\ UNCHANGED << program, op, phase, arrived, left >>
  BY FinishReduceWrites
<1>4. /\ step'[r][b] = IF Gathers(r) THEN "idle" ELSE "arriveEnd"
      /\ \A q \in Ranks, c \in Blocks : q # r \/ c # b => step'[q][c] = step[q][c]
  BY FinishReduceWrites
<1>2. phase[r] = "body" /\ ShapeOf(r, b)
  BY <1>1 DEF ControlInv, Shape, ShapeOf
<1>3. /\ Passed(r, b)' = Passed(r, b) /\ Waits(r, b)' = Waits(r, b)
      /\ ShapeOf(r, b)'
  <2>1. Current(r)' = Current(r) /\ Grid(r)' = Grid(r) /\ Gathers(r)' = Gathers(r)
    BY <1>1 DEF Current, Grid, Gathers
  <2>2. Passed(r, b)' = Passed(r, b)
    BY <1>1, <1>2, <1>4, <2>1 DEF Passed, Gathers
  <2>3. ~ Waits(r, b) /\ ~ Waits(r, b)'
    BY <1>1, <1>4 DEF Waits
  <2>4. ShapeOf(r, b)'
    BY <1>1, <1>2, <1>4, <2>1 DEF ShapeOf, Gathers
  <2> QED
    BY <2>2, <2>3, <2>4 DEF Waits
<1> QED
  BY <1>1, <1>3, <1>4, QuietStep

-----------------------------------------------------------------------------
(* Steps of a stream.                                                      *)

LEMMA OtherRanks ==
  ASSUME NEW q, UNCHANGED program, op'[q] = op[q], phase'[q] = phase[q], step'[q] = step[q]
  PROVE  \A c : /\ Passed(q, c)' = Passed(q, c) /\ Waits(q, c)' = Waits(q, c)
                /\ ShapeOf(q, c)' = ShapeOf(q, c)
BY DEF Passed, Waits, ShapeOf, Current, Grid, Gathers, Rows

LEMMA StreamMove ==
  ASSUME ControlInv, NEW r \in Ranks, TypeOK',
         UNCHANGED << program, op, arrived, left >>,
         \A q \in Ranks \ {r} : phase'[q] = phase[q] /\ step'[q] = step[q],
         \A b \in Blocks : /\ ShapeOf(r, b)' /\ Passed(r, b)' = Passed(r, b)
                           /\ ~ Waits(r, b) /\ ~ Waits(r, b)'
  PROVE  ControlInv'
<1>1. \A q \in Ranks, c \in Blocks :
        /\ Passed(q, c)' = Passed(q, c) /\ (Waits(q, c)' <=> Waits(q, c))
        /\ ShapeOf(q, c)'
  <2> SUFFICES ASSUME NEW q \in Ranks, NEW c \in Blocks
               PROVE  /\ Passed(q, c)' = Passed(q, c) /\ (Waits(q, c)' <=> Waits(q, c))
                      /\ ShapeOf(q, c)'
    OBVIOUS
  <2>1. CASE q = r
    BY <2>1
  <2>2. CASE q # r
    BY <2>2, OtherRanks DEF ControlInv, Shape
  <2> QED
    BY <2>1, <2>2
<1>2. Shape' /\ Counts' /\ NoneAhead'
  BY <1>1 DEF ControlInv, Shape, Counts, NoneAhead
<1>3. \A q \in Ranks, c \in Blocks :
        left'[c][q] + Passed(q, c) = left[c][q] + Passed(q, c)'
  BY <1>1
<1> QED
  BY <1>2, <1>3, LevelKept DEF ControlInv

\* The blocks of a kernel that is launched.
LEMMA LaunchIs ==
  ASSUME TypeOK, NEW r \in Ranks, NEW n \in Nat, NEW first \in Steps, Launch(r, n, first)
  PROVE  /\ step' \in [Ranks -> [Blocks -> Steps]]
         /\ \A c \in Blocks : step'[r][c] = IF c < n THEN first ELSE "idle"
         /\ \A q \in Ranks \ {r} : step'[q] = step[q]
<1> DEFINE blocks == [b \in Blocks |-> IF b < n THEN first ELSE "idle"]
<1>1. step' = [step EXCEPT ![r] = blocks]
  BY DEF Launch
<1>2. blocks \in [Blocks -> Steps]
  BY DEF Steps
<1>3. \A c \in Blocks : blocks[c] = IF c < n THEN first ELSE "idle"
  OBVIOUS
<1> HIDE DEF blocks
<1> QED
  BY <1>1, <1>2, <1>3 DEF TypeOK

LEMMA CopyIs ==
  ASSUME ControlInv, NEW r \in Ranks, Copy(r)
  PROVE  /\ TypeOK' /\ phase[r] = "copy" /\ op[r] <= MaxOps
         /\ UNCHANGED << program, op, arrived, left, scratch, unread, acc, out >>
         /\ staging' = [staging EXCEPT ![r] = op[r]]
         /\ phase' = [phase EXCEPT ![r] = IF Gathers(r) THEN "start" ELSE "body"]
         /\ \A c \in Blocks : step'[r][c] = IF c < Rows(Current(r)) THEN "arrive" ELSE "idle"
         /\ \A q \in Ranks \ {r} : step'[q] = step[q]
<1>1. /\ phase[r] = "copy" /\ op[r] <= MaxOps
      /\ UNCHANGED << program, op, arrived, left, scratch, unread, acc, out >>
      /\ staging' = [staging EXCEPT ![r] = op[r]]
      /\ phase' = [phase EXCEPT ![r] = IF Gathers(r) THEN "start" ELSE "body"]
      /\ Launch(r, Rows(Current(r)), "arrive")
  BY DEF Copy, Running, Gathers, Rows, Grid
<1>2. Rows(Current(r)) \in Nat /\ "arrive" \in Steps /\ TypeOK
  BY <1>1, CurrentIs DEF Steps, ControlInv
<1>3. /\ step' \in [Ranks -> [Blocks -> Steps]]
      /\ \A c \in Blocks : step'[r][c] = IF c < Rows(Current(r)) THEN "arrive" ELSE "idle"
      /\ \A q \in Ranks \ {r} : step'[q] = step[q]
  BY <1>1, <1>2, LaunchIs
<1>4. /\ phase' \in [Ranks -> {"copy", "start", "body", "end", "done"}]
      /\ staging' \in [Ranks -> 0 .. MaxOps]
  <2>1. op[r] \in 0 .. MaxOps
    BY <1>1, <1>2, CollectiveAssumption DEF TypeOK, CollectiveAssumption
  <2> QED
    BY <1>1, <1>2, <2>1 DEF TypeOK
<1>5. TypeOK'
  BY <1>1, <1>2, <1>3, <1>4 DEF TypeOK
<1> QED
  BY <1>1, <1>3, <1>5

LEMMA CopyControl ==
  ASSUME ControlInv, NEW r \in Ranks, Copy(r)
  PROVE  ControlInv'
<1>1. /\ TypeOK' /\ phase[r] = "copy" /\ op[r] <= MaxOps
      /\ UNCHANGED << program, op, arrived, left >>
      /\ phase' = [phase EXCEPT ![r] = IF Gathers(r) THEN "start" ELSE "body"]
      /\ \A c \in Blocks : step'[r][c] = IF c < Rows(Current(r)) THEN "arrive" ELSE "idle"
      /\ \A q \in Ranks \ {r} : step'[q] = step[q]
  BY CopyIs
<1>2. /\ phase'[r] = IF Gathers(r) THEN "start" ELSE "body"
      /\ \A q \in Ranks \ {r} : phase'[q] = phase[q]
  BY <1>1 DEF ControlInv, TypeOK
<1>3. Current(r)' = Current(r) /\ Grid(r)' = Grid(r) /\ Gathers(r)' = Gathers(r)
  BY <1>1 DEF Current, Grid, Gathers
<1>4. ASSUME NEW b \in Blocks
      PROVE  /\ ShapeOf(r, b)' /\ Passed(r, b)' = Passed(r, b)
             /\ ~ Waits(r, b) /\ ~ Waits(r, b)'
  <2>1. step[r][b] = "idle"
    BY <1>1 DEF ControlInv, Shape, ShapeOf
  <2>2. ShapeOf(r, b)'
    BY <1>1, <1>2, <1>3, CurrentIs, BlocksAre DEF ShapeOf, Gathers, Rows, Grid, ControlInv
  <2>3. Rows(Current(r)) \in Nat /\ b \in Nat
    BY <1>1, CurrentIs, BlocksAre DEF ControlInv
  <2>4. Passed(r, b) = 0 /\ Passed(r, b)' = 0
    BY <1>1, <1>2, <1>3, <2>3 DEF Passed
  <2>5. ~ Waits(r, b) /\ ~ Waits(r, b)'
    BY <1>1, <2>1 DEF Waits
  <2> QED
    BY <2>2, <2>4, <2>5
<1> QED
  BY <1>1, <1>2, <1>4, StreamMove

\* The three transitions between the kernels of an operation.
LEMMA NextKernelIs ==
  ASSUME ControlInv, NEW r \in Ranks, NextKernel(r)
  PROVE  /\ TypeOK' /\ op[r] <= MaxOps /\ phase[r] # "copy"
         /\ UNCHANGED << program, op, arrived, left, staging, scratch, acc, out >>
         /\ \A c \in Blocks : step[r][c] = "idle"
         /\ \A q \in Ranks \ {r} :
              phase'[q] = phase[q] /\ step'[q] = step[q] /\ unread'[q] = unread[q]
         /\ \/ /\ phase[r] = "start" /\ phase'[r] = "body" /\ Gathers(r)
               /\ \A c \in Blocks : step'[r][c] = IF c < Grid(r) THEN "read" ELSE "idle"
               /\ \A c \in Blocks : unread'[r][c] = IF c < Grid(r) THEN Sources(r) ELSE {}
            \/ /\ phase[r] = "body" /\ phase'[r] = "end" /\ Gathers(r) /\ unread' = unread
               /\ \A c \in Blocks : step'[r][c] = IF c < 1 THEN "arriveEnd" ELSE "idle"
            \/ /\ (phase[r] = "end" /\ Gathers(r)) \/ (phase[r] = "body" /\ ~ Gathers(r))
               /\ phase'[r] = "done" /\ unread' = unread /\ step' = step
<1>1. /\ op[r] <= MaxOps /\ \A c \in Blocks : step[r][c] = "idle"
      /\ UNCHANGED << program, op, arrived, left, staging, scratch, acc, out >>
  BY DEF NextKernel, Running, KernelOver, barrierVars
<1>2. TypeOK /\ (phase[r] \in {"start", "end"} => Gathers(r))
  BY BlocksAre DEF ControlInv, Shape, ShapeOf
<1>3. CASE /\ phase[r] = "start"
           /\ phase' = [phase EXCEPT ![r] = "body"]
           /\ Launch(r, Grid(r), "read")
           /\ unread' = [unread EXCEPT ![r] =
                           [b \in Blocks |-> IF b < Grid(r) THEN Sources(r) ELSE {}]]
  <2> DEFINE n == Grid(r)
             all == Sources(r)
             blocks == [b \in Blocks |-> IF b < n THEN all ELSE {}]
  <2>1. Gathers(r) /\ n \in Nat /\ "read" \in Steps /\ all \in SUBSET Ranks
    BY <1>1, <1>2, <1>3, CurrentIs DEF Steps, Sources
  <2>2. unread' = [unread EXCEPT ![r] = blocks] /\ Launch(r, n, "read")
    BY <1>3
  <2> HIDE DEF n, all
  <2>3. /\ blocks \in [Blocks -> SUBSET Ranks]
        /\ \A c \in Blocks : blocks[c] = IF c < n THEN all ELSE {}
    BY <2>1
  <2> HIDE DEF blocks
  <2>4. /\ step' \in [Ranks -> [Blocks -> Steps]]
        /\ \A c \in Blocks : step'[r][c] = IF c < n THEN "read" ELSE "idle"
        /\ \A q \in Ranks \ {r} : step'[q] = step[q]
    BY <1>2, <2>1, <2>2, LaunchIs
  <2>5. /\ unread' \in [Ranks -> [Blocks -> SUBSET Ranks]]
        /\ \A c \in Blocks : unread'[r][c] = IF c < n THEN all ELSE {}
        /\ \A q \in Ranks \ {r} : unread'[q] = unread[q]
    BY <1>2, <2>2, <2>3 DEF TypeOK
  <2>6. /\ phase' \in [Ranks -> {"copy", "start", "body", "end", "done"}]
        /\ phase'[r] = "body" /\ \A q \in Ranks \ {r} : phase'[q] = phase[q]
    BY <1>2, <1>3 DEF TypeOK
  <2>7. TypeOK'
    BY <1>1, <1>2, <2>4, <2>5, <2>6 DEF TypeOK
  <2> QED
    BY <1>1, <1>3, <2>1, <2>4, <2>5, <2>6, <2>7 DEF n, all
<1>4. CASE /\ phase[r] = "body" /\ Current(r).kind = "gather"
           /\ phase' = [phase EXCEPT ![r] = "end"]
           /\ Launch(r, 1, "arriveEnd")
           /\ UNCHANGED unread
  <2>1. 1 \in Nat /\ "arriveEnd" \in Steps
    BY DEF Steps
  <2>2. /\ step' \in [Ranks -> [Blocks -> Steps]]
        /\ \A c \in Blocks : step'[r][c] = IF c < 1 THEN "arriveEnd" ELSE "idle"
        /\ \A q \in Ranks \ {r} : step'[q] = step[q]
    BY <1>2, <1>4, <2>1, LaunchIs
  <2>3. /\ phase' \in [Ranks -> {"copy", "start", "body", "end", "done"}]
        /\ phase'[r] = "end" /\ \A q \in Ranks \ {r} : phase'[q] = phase[q]
    BY <1>2, <1>4 DEF TypeOK
  <2>4. TypeOK'
    BY <1>1, <1>2, <1>4, <2>2, <2>3 DEF TypeOK
  <2> QED
    BY <1>1, <1>4, <2>2, <2>3, <2>4 DEF Gathers
<1>5. CASE /\ phase[r] = "end" \/ (phase[r] = "body" /\ Current(r).kind # "gather")
           /\ phase' = [phase EXCEPT ![r] = "done"]
           /\ UNCHANGED <<step, unread>>
  <2>1. /\ phase' \in [Ranks -> {"copy", "start", "body", "end", "done"}]
        /\ phase'[r] = "done" /\ \A q \in Ranks \ {r} : phase'[q] = phase[q]
    BY <1>2, <1>5 DEF TypeOK
  <2>2. TypeOK'
    BY <1>1, <1>2, <1>5, <2>1 DEF TypeOK
  <2>3. (phase[r] = "end" /\ Gathers(r)) \/ (phase[r] = "body" /\ ~ Gathers(r))
    BY <1>2, <1>5 DEF Gathers
  <2> QED
    BY <1>1, <1>5, <2>1, <2>2, <2>3
<1> QED
  BY <1>3, <1>4, <1>5 DEF NextKernel

LEMMA NextKernelControl ==
  ASSUME ControlInv, NEW r \in Ranks, NextKernel(r)
  PROVE  ControlInv'
<1>1. /\ TypeOK' /\ op[r] <= MaxOps /\ phase[r] # "copy"
      /\ UNCHANGED << program, op, arrived, left >>
      /\ \A c \in Blocks : step[r][c] = "idle"
      /\ \A q \in Ranks \ {r} : phase'[q] = phase[q] /\ step'[q] = step[q]
  BY NextKernelIs
<1>2. \/ /\ phase[r] = "start" /\ phase'[r] = "body" /\ Gathers(r)
         /\ \A c \in Blocks : step'[r][c] = IF c < Grid(r) THEN "read" ELSE "idle"
      \/ /\ phase[r] = "body" /\ phase'[r] = "end" /\ Gathers(r)
         /\ \A c \in Blocks : step'[r][c] = IF c < 1 THEN "arriveEnd" ELSE "idle"
      \/ /\ (phase[r] = "end" /\ Gathers(r)) \/ (phase[r] = "body" /\ ~ Gathers(r))
         /\ phase'[r] = "done" /\ step' = step
  BY NextKernelIs
<1>3. Current(r)' = Current(r) /\ Grid(r)' = Grid(r) /\ Gathers(r)' = Gathers(r)
  BY <1>1 DEF Current, Grid, Gathers
<1>4. Rows(Current(r)) \in Nat \ {0} /\ Grid(r) \in Nat
  BY <1>1, CurrentIs DEF ControlInv
<1>5. Gathers(r) => Rows(Current(r)) = 1
  BY DEF Gathers, Rows
<1>6. ASSUME NEW b \in Blocks
      PROVE  /\ ShapeOf(r, b)' /\ Passed(r, b)' = Passed(r, b)
             /\ ~ Waits(r, b) /\ ~ Waits(r, b)'
  <2>1. b \in Nat
    BY BlocksAre
  <2>2. ShapeOf(r, b)'
    BY <1>1, <1>2, <1>3, <2>1 DEF ShapeOf, Gathers
  <2>3. Passed(r, b)' = Passed(r, b)
    BY <1>1, <1>2, <1>3, <1>4, <1>5, <2>1 DEF Passed
  <2>4. ~ Waits(r, b) /\ ~ Waits(r, b)'
    BY <1>1, <1>2 DEF Waits
  <2> QED
    BY <2>2, <2>3, <2>4
<1> QED
  BY <1>1, <1>6, StreamMove

LEMMA RetireIs ==
  ASSUME ControlInv, NEW r \in Ranks, Retire(r)
  PROVE  /\ TypeOK' /\ op[r] \in 1 .. MaxOps /\ phase[r] = "done"
         /\ UNCHANGED << program, step, arrived, left, staging, scratch, unread >>
         /\ op'[r] = op[r] + 1 /\ phase'[r] = "copy"
         /\ \A q \in Ranks \ {r} : /\ op'[q] = op[q] /\ phase'[q] = phase[q]
                                   /\ acc'[q] = acc[q] /\ out'[q] = out[q]
<1>1. /\ op[r] <= MaxOps /\ phase[r] = "done" /\ TypeOK
      /\ UNCHANGED << program, step, arrived, left, staging, scratch, unread >>
      /\ op' = [op EXCEPT ![r] = @ + 1]
      /\ phase' = [phase EXCEPT ![r] = "copy"]
      /\ out' = [out EXCEPT ![r] = NoOutput]
      /\ acc' = [acc EXCEPT ![r] = [b \in Blocks |-> {}]]
  BY DEF Retire, Running, barrierVars, ControlInv
<1>2. op[r] \in 1 .. MaxOps
  BY <1>1, CollectiveAssumption DEF TypeOK, CollectiveAssumption
<1>3. /\ op' \in [Ranks -> 1 .. MaxOps + 1] /\ op'[r] = op[r] + 1
      /\ phase' \in [Ranks -> {"copy", "start", "body", "end", "done"}] /\ phase'[r] = "copy"
      /\ \A q \in Ranks \ {r} : op'[q] = op[q] /\ phase'[q] = phase[q]
  BY <1>1, <1>2, CollectiveAssumption DEF TypeOK, CollectiveAssumption
<1>4. /\ out' \in [Ranks -> [Ranks -> [Offsets -> SUBSET Contributions]]]
      /\ \A q \in Ranks \ {r} : out'[q] = out[q]
  <2>1. NoOutput \in [Ranks -> [Offsets -> SUBSET Contributions]]
    BY DEF NoOutput
  <2> QED
    BY <1>1, <2>1 DEF TypeOK
<1>5. /\ acc' \in [Ranks -> [Blocks -> SUBSET Contributions]]
      /\ \A q \in Ranks \ {r} : acc'[q] = acc[q]
  <2> DEFINE none == [b \in Blocks |-> {}]
  <2>1. none \in [Blocks -> SUBSET Contributions]
    OBVIOUS
  <2>2. acc' = [acc EXCEPT ![r] = none]
    BY <1>1
  <2> HIDE DEF none
  <2> QED
    BY <1>1, <2>1, <2>2 DEF TypeOK
<1>6. TypeOK'
  BY <1>1, <1>3, <1>4, <1>5 DEF TypeOK
<1> QED
  BY <1>1, <1>2, <1>3, <1>4, <1>5, <1>6

LEMMA RetireControl ==
  ASSUME ControlInv, NEW r \in Ranks, Retire(r)
  PROVE  ControlInv'
<1>1. /\ TypeOK' /\ op[r] \in 1 .. MaxOps /\ phase[r] = "done"
      /\ UNCHANGED << program, step, arrived, left >>
      /\ op'[r] = op[r] + 1 /\ phase'[r] = "copy"
      /\ \A q \in Ranks \ {r} : op'[q] = op[q] /\ phase'[q] = phase[q]
  BY RetireIs
<1>2. /\ op[r] <= MaxOps /\ op[r] \in Nat /\ \A c \in Blocks : step[r][c] = "idle"
  BY <1>1, CollectiveAssumption DEF ControlInv, Shape, ShapeOf, CollectiveAssumption
<1>3. ASSUME NEW c \in Blocks
      PROVE  /\ ShapeOf(r, c)' /\ ~ Waits(r, c) /\ ~ Waits(r, c)'
             /\ Passed(r, c)' = 0 /\ Passed(r, c) = Needs(Current(r), c)
  <2>1. c \in Nat /\ Rows(Current(r)) \in Nat
    BY <1>2, CurrentIs, BlocksAre DEF ControlInv
  <2> QED
    BY <1>1, <1>2, <2>1 DEF ShapeOf, Waits, Passed, Needs
<1>4. \A q \in Ranks, c \in Blocks :
        /\ ShapeOf(q, c)' /\ (Waits(q, c)' <=> Waits(q, c))
        /\ q # r => Passed(q, c)' = Passed(q, c)
  <2> SUFFICES ASSUME NEW q \in Ranks, NEW c \in Blocks
               PROVE  /\ ShapeOf(q, c)' /\ (Waits(q, c)' <=> Waits(q, c))
                      /\ q # r => Passed(q, c)' = Passed(q, c)
    OBVIOUS
  <2>1. CASE q = r
    BY <1>3, <2>1
  <2>2. CASE q # r
    BY <1>1, <2>2, OtherRanks DEF ControlInv, Shape
  <2> QED
    BY <2>1, <2>2
<1>5. Shape' /\ Counts' /\ NoneAhead'
  BY <1>1, <1>4 DEF ControlInv, Shape, Counts, NoneAhead
\* Everybody has reached this operation: row 0 has left a barrier of it.
<1>6. ASSUME NEW p \in Ranks
      PROVE  op[p] \in Nat /\ (op[p] = op[r] \/ op[p] = op[r] + 1)
  <2>1. Passed(r, 0) = 2
    BY <1>2, <1>3, BlocksAre, CurrentIs DEF Needs, ControlInv
  <2>2. op[r] # op[p] + 1
    BY <2>1, Meet, BlocksAre
  <2> QED
    BY <2>2, Neighbours
<1>7. Near'
  <2> SUFFICES ASSUME NEW q \in Ranks, NEW p \in Ranks
               PROVE  op'[q] <= op'[p] + 1
    BY DEF Near
  <2>1. op[q] <= op[p] + 1
    BY DEF ControlInv, Near
  <2> QED
    BY <1>1, <1>2, <1>6, <2>1
<1>8. Level'
  <2>1. ASSUME NEW q \in Ranks, NEW p \in Ranks, NEW c \in Blocks
        PROVE  /\ op'[q] = op'[p] => left[c][q] + Passed(p, c)' = left[c][p] + Passed(q, c)'
               /\ op'[q] = op'[p] + 1 =>
                    left[c][q] + Passed(p, c)' =
                      left[c][p] + Needs(program[op'[p]], c) + Passed(q, c)'
    <3>1. /\ op[q] = op[p] => left[c][q] + Passed(p, c) = left[c][p] + Passed(q, c)
          /\ op[q] = op[p] + 1 => left[c][q] + Passed(p, c) =
                                   left[c][p] + Needs(program[op[p]], c) + Passed(q, c)
          /\ op[p] = op[q] + 1 => left[c][p] + Passed(q, c) =
                                   left[c][q] + Needs(program[op[q]], c) + Passed(p, c)
      BY DEF ControlInv, Level
    <3>2. /\ left[c][q] \in Nat /\ left[c][p] \in Nat
          /\ Passed(q, c) \in Nat /\ Passed(p, c) \in Nat
      BY DEF ControlInv, TypeOK, Passed
    <3>3. \A o : Needs(o, c) \in Nat
      BY DEF Needs
    <3>4. /\ op[q] \in Nat /\ (op[q] = op[r] \/ op[q] = op[r] + 1)
          /\ op[p] \in Nat /\ (op[p] = op[r] \/ op[p] = op[r] + 1)
      BY <1>6
    <3>5. CASE q = r /\ p = r
      BY <1>1, <1>2, <3>2, <3>5
    <3>6. CASE q = r /\ p # r
      <4>1. Passed(q, c)' = 0 /\ Passed(p, c)' = Passed(p, c)
            /\ Passed(q, c) = Needs(program[op[q]], c)
        BY <1>3, <1>4, <3>6 DEF Current
      <4>2. op'[q] = op[q] + 1 /\ op'[p] = op[p]
        BY <1>1, <3>6
      <4>3. op'[q] = op'[p] => left[c][q] + Passed(p, c)' = left[c][p] + Passed(q, c)'
        BY <3>1, <3>2, <4>1, <4>2
      <4>4. ASSUME op'[q] = op'[p] + 1
            PROVE  left[c][q] + Passed(p, c)' =
                     left[c][p] + Needs(program[op'[p]], c) + Passed(q, c)'
        <5>1. op[q] = op[p]
          BY <3>4, <4>2, <4>4
        <5> DEFINE n == Needs(program[op[q]], c)
        <5>2. n \in Nat /\ Needs(program[op'[p]], c) = n /\ Passed(q, c) = n
          BY <3>3, <4>1, <4>2, <5>1
        <5> HIDE DEF n
        <5> QED
          BY <3>1, <3>2, <4>1, <5>1, <5>2
      <4> QED
        BY <4>3, <4>4
    <3>7. CASE q # r /\ p = r
      <4>1. Passed(p, c)' = 0 /\ Passed(q, c)' = Passed(q, c)
            /\ Passed(p, c) = Needs(program[op[p]], c)
        BY <1>3, <1>4, <3>7 DEF Current
      <4>2. op'[p] = op[p] + 1 /\ op'[q] = op[q]
        BY <1>1, <3>7
      <4>3. op'[q] # op'[p] + 1
        BY <3>4, <3>7, <4>2
      <4>4. ASSUME op'[q] = op'[p]
            PROVE  left[c][q] + Passed(p, c)' = left[c][p] + Passed(q, c)'
        <5> DEFINE n == Needs(program[op[p]], c)
        <5>1. n \in Nat /\ Passed(p, c) = n
          BY <3>3, <4>1
        <5>2. left[c][q] + Passed(p, c) = left[c][p] + n + Passed(q, c)
          BY <3>1, <4>2, <4>4
        <5> HIDE DEF n
        <5> QED
          BY <3>2, <4>1, <5>1, <5>2
      <4> QED
        BY <4>3, <4>4
    <3>8. CASE q # r /\ p # r
      <4>1. /\ Passed(p, c)' = Passed(p, c) /\ Passed(q, c)' = Passed(q, c)
            /\ op'[p] = op[p] /\ op'[q] = op[q]
        BY <1>1, <1>4, <3>8
      <4> QED
        BY <3>1, <4>1
    <3> QED
      BY <3>5, <3>6, <3>7, <3>8
  <2> QED
    BY <1>1, <2>1 DEF Level
<1> QED
  BY <1>1, <1>5, <1>7, <1>8 DEF ControlInv

LEMMA ControlKept ==
  ASSUME ControlInv, [Next]_vars
  PROVE  ControlInv'
<1>1. ASSUME NEW r \in Ranks, StreamStep(r)
      PROVE  ControlInv'
  BY <1>1, CopyControl, NextKernelControl, RetireControl DEF StreamStep
<1>2. ASSUME NEW r \in Ranks, NEW b \in Blocks, BlockStep(r, b)
      PROVE  ControlInv'
  BY <1>2, ArriveControl, PassStartControl, ReadInputControl, FinishReduceControl,
     PassEndControl, CollectControl DEF BlockStep
<1>3. CASE UNCHANGED vars
  <2>1. \A q \in Ranks, c \in Blocks : /\ Passed(q, c)' = Passed(q, c)
                                       /\ (Waits(q, c)' <=> Waits(q, c))
                                       /\ ShapeOf(q, c)'
    BY <1>3, OtherRanks DEF vars, ControlInv, Shape
  <2>2. TypeOK'
    BY <1>3 DEF vars, ControlInv, TypeOK
  <2>3. Shape' /\ Counts' /\ NoneAhead'
    BY <1>3, <2>1 DEF vars, ControlInv, Shape, Counts, NoneAhead
  <2>4. \A q \in Ranks, c \in Blocks :
          left'[c][q] + Passed(q, c) = left[c][q] + Passed(q, c)'
    BY <1>3, <2>1 DEF vars
  <2> QED
    BY <1>3, <2>2, <2>3, <2>4, LevelKept DEF vars, ControlInv
<1> QED
  BY <1>1, <1>2, <1>3 DEF Next, Finished

LEMMA ControlInitially ==
  ASSUME Init
  PROVE  ControlInv
<1>1. TypeOK
  BY CollectiveAssumption DEF Init, TypeOK, CollectiveAssumption, Steps, NoOutput
<1>2. \A r \in Ranks, b \in Blocks :
        /\ ShapeOf(r, b) /\ ~ Waits(r, b) /\ Passed(r, b) = 0
        /\ arrived[b][r] = 0 /\ left[b][r] = 0 /\ op[r] = 1
  BY DEF Init, ShapeOf, Waits, Passed
<1>3. Shape /\ Counts /\ NoneAhead
  BY <1>2 DEF Shape, Counts, NoneAhead
<1>4. Near /\ Level
  BY <1>2 DEF Init, Near, Level
<1> QED
  BY <1>1, <1>3, <1>4 DEF ControlInv

-----------------------------------------------------------------------------
(* Data.                                                                   *)

\* The strided loops split the elements of a chunk.
LEMMA HandledIs ==
  ASSUME NEW g \in Nat \ {0}, g <= MaxGrid
  PROVE  /\ \A b, c, x : x \in Handled(b, g) /\ x \in Handled(c, g) => b = c
         /\ \A x \in Offsets : \E b \in Blocks : b < g /\ x \in Handled(b, g)
         /\ \A b : Handled(b, g) \subseteq Offsets
<1>1. ASSUME NEW x \in Offsets
      PROVE  x % g \in Blocks /\ x % g < g /\ x \in Handled(x % g, g)
  <2>1. x \in Nat /\ MaxGrid \in Nat
    BY BlocksAre DEF Offsets
  <2>2. x % g \in 0 .. g - 1
    BY <2>1
  <2> QED
    BY <2>1, <2>2 DEF Blocks, Handled
<1> QED
  BY <1>1 DEF Handled

\* What the other steps of a block do.
LEMMA ArriveIs ==
  ASSUME ControlInv, NEW r \in Ranks, NEW b \in Blocks, ArriveBarrier(r, b)
  PROVE  /\ UNCHANGED << program, op, phase, staging, scratch, unread, acc, out >>
         /\ \/ step[r][b] = "arrive" /\ step'[r][b] = "wait"
            \/ step[r][b] = "arriveEnd" /\ step'[r][b] = "waitEnd"
         /\ \A s \in Ranks, c \in Blocks : s # r \/ c # b => step'[s][c] = step[s][c]
BY DEF ArriveBarrier, dataVars, ControlInv, TypeOK

LEMMA PassStartIs ==
  ASSUME ControlInv, NEW r \in Ranks, NEW b \in Blocks, PassStart(r, b)
  PROVE  /\ UNCHANGED << program, op, phase, staging, scratch, out >>
         /\ step[r][b] = "wait"
         /\ \/ phase[r] = "start" /\ step'[r][b] = "idle" /\ UNCHANGED << unread, acc >>
            \/ /\ phase[r] = "body" /\ ~ Gathers(r) /\ step'[r][b] = "read"
               /\ unread'[r][b] = Ranks /\ acc'[r][b] = {}
         /\ \A s \in Ranks, c \in Blocks :
              s # r \/ c # b =>
                step'[s][c] = step[s][c] /\ unread'[s][c] = unread[s][c] /\ acc'[s][c] = acc[s][c]
<1>1. step[r][b] = "wait" /\ TypeOK /\ ShapeOf(r, b)
  BY DEF PassStart, ControlInv, Shape
<1>2. phase[r] = "start" \/ (phase[r] = "body" /\ ~ Gathers(r))
  BY <1>1 DEF ShapeOf
<1>3. CASE phase[r] = "start"
  BY <1>1, <1>3 DEF PassStart, TypeOK
<1>4. CASE phase[r] = "body" /\ ~ Gathers(r)
  <2>1. Sources(r) = Ranks
    BY <1>4 DEF Sources, Gathers
  <2> QED
    BY <1>1, <1>4, <2>1 DEF PassStart, TypeOK
<1> QED
  BY <1>2, <1>3, <1>4

LEMMA PassEndIs ==
  ASSUME ControlInv, NEW r \in Ranks, NEW b \in Blocks, PassEnd(r, b)
  PROVE  /\ UNCHANGED << program, op, phase, staging, scratch, acc, out >>
         /\ step[r][b] = "waitEnd"
         /\ \/ Current(r).kind = "two" /\ step'[r][b] = "collect" /\ unread'[r][b] = Ranks
            \/ Current(r).kind # "two" /\ step'[r][b] = "idle"
         /\ \A s \in Ranks, c \in Blocks :
              s # r \/ c # b => step'[s][c] = step[s][c] /\ unread'[s][c] = unread[s][c]
<1>1. CASE Current(r).kind = "two"
  BY <1>1 DEF PassEnd, ControlInv, TypeOK
<1>2. CASE Current(r).kind # "two"
  BY <1>2 DEF PassEnd, ControlInv, TypeOK
<1> QED
  BY <1>1, <1>2

LEMMA SameOperation ==
  ASSUME NEW r, UNCHANGED program, op'[r] = op[r]
  PROVE  /\ Current(r)' = Current(r) /\ Grid(r)' = Grid(r) /\ Gathers(r)' = Gathers(r)
         /\ Sources(r)' = Sources(r)
         /\ \A q : Wanted(r, q)' = Wanted(r, q)
BY DEF Current, Grid, Gathers, Sources, Wanted, Whole

LEMMA StagedKept ==
  ASSUME ControlInv, Staged, [Next]_vars
  PROVE  Staged'
<1>1. ASSUME NEW r \in Ranks, Copy(r)
      PROVE  Staged'
  <2>1. /\ UNCHANGED op
        /\ staging' = [staging EXCEPT ![r] = op[r]]
        /\ phase' = [phase EXCEPT ![r] = IF Gathers(r) THEN "start" ELSE "body"]
    BY <1>1, CopyIs
  <2> QED
    BY <2>1 DEF Staged, ControlInv, TypeOK
<1>2. ASSUME NEW r \in Ranks, NextKernel(r)
      PROVE  Staged'
  <2>1. /\ UNCHANGED << op, staging >> /\ phase[r] # "copy"
        /\ \A q \in Ranks \ {r} : phase'[q] = phase[q]
    BY <1>2, NextKernelIs
  <2>2. phase'[r] # "copy"
    BY <1>2, NextKernelIs
  <2> QED
    BY <2>1, <2>2 DEF Staged
<1>3. ASSUME NEW r \in Ranks, Retire(r)
      PROVE  Staged'
  <2>1. /\ phase[r] = "done" /\ op[r] \in 1 .. MaxOps /\ staging' = staging
        /\ op'[r] = op[r] + 1 /\ phase'[r] = "copy"
        /\ \A q \in Ranks \ {r} : op'[q] = op[q] /\ phase'[q] = phase[q]
    BY <1>3, RetireIs
  <2> QED
    BY <2>1 DEF Staged
<1>4. ASSUME NEW r \in Ranks, NEW b \in Blocks, BlockStep(r, b)
      PROVE  Staged'
  <2>1. UNCHANGED << op, phase, staging >>
    BY <1>4 DEF BlockStep, ArriveBarrier, PassStart, ReadInput, FinishReduce, PassEnd, Collect,
       dataVars
  <2> QED
    BY <2>1 DEF Staged
<1>5. CASE UNCHANGED vars
  BY <1>5 DEF vars, Staged
<1> QED
  BY <1>1, <1>2, <1>3, <1>4, <1>5 DEF Next, StreamStep, Finished

LEMMA AddedKept ==
  ASSUME ControlInv, Staged, Added, [Next]_vars
  PROVE  Added'
<1>0. \A s \in Ranks, c \in Blocks : AddedOf(s, c)
  BY DEF Added
<1>s. ASSUME NEW s \in Ranks, NEW c \in Blocks, UNCHANGED program, op'[s] = op[s],
             step'[s][c] = step[s][c], unread'[s][c] = unread[s][c], acc'[s][c] = acc[s][c]
      PROVE  AddedOf(s, c)'
  <2>1. Gathers(s)' = Gathers(s) /\ Sources(s)' = Sources(s)
    BY <1>s, SameOperation
  <2> QED
    BY <1>0, <1>s, <2>1 DEF AddedOf
<1>i. ASSUME NEW s \in Ranks, NEW c \in Blocks, step'[s][c] # "read"
      PROVE  AddedOf(s, c)'
  BY <1>i DEF AddedOf
<1> SUFFICES ASSUME NEW s \in Ranks, NEW c \in Blocks
             PROVE  AddedOf(s, c)'
  BY DEF Added
<1>1. ASSUME NEW r \in Ranks, Copy(r)
      PROVE  AddedOf(s, c)'
  <2>1. /\ UNCHANGED << program, op, unread, acc >>
        /\ \A q \in Ranks \ {r} : step'[q] = step[q]
        /\ step'[r][c] = IF c < Rows(Current(r)) THEN "arrive" ELSE "idle"
    BY <1>1, CopyIs
  <2> QED
    BY <1>s, <1>i, <2>1
<1>2. ASSUME NEW r \in Ranks, NextKernel(r)
      PROVE  AddedOf(s, c)'
  <2>1. /\ UNCHANGED << program, op, acc >>
        /\ \A q \in Ranks \ {r} : step'[q] = step[q] /\ unread'[q] = unread[q]
    BY <1>2, NextKernelIs
  <2>2. \/ /\ Gathers(r) /\ step'[r][c] = IF c < Grid(r) THEN "read" ELSE "idle"
           /\ unread'[r][c] = IF c < Grid(r) THEN Sources(r) ELSE {}
        \/ step'[r][c] = IF c < 1 THEN "arriveEnd" ELSE "idle"
        \/ step'[r][c] = "idle"
    BY <1>2, NextKernelIs
  <2>3. Gathers(r)' = Gathers(r) /\ Sources(r)' = Sources(r)
    BY <2>1, SameOperation
  <2>4. CASE s = r
    BY <2>2, <2>3, <2>4 DEF AddedOf
  <2> QED
    BY <1>s, <2>1, <2>4
<1>3. ASSUME NEW r \in Ranks, Retire(r)
      PROVE  AddedOf(s, c)'
  <2>1. /\ UNCHANGED << program, step, unread >> /\ phase[r] = "done"
        /\ \A q \in Ranks \ {r} : op'[q] = op[q] /\ acc'[q] = acc[q]
    BY <1>3, RetireIs
  <2>2. step[r][c] = "idle"
    BY <2>1 DEF ControlInv, Shape, ShapeOf
  <2> QED
    BY <1>s, <1>i, <2>1, <2>2
<1>4. ASSUME NEW r \in Ranks, NEW b \in Blocks, BlockStep(r, b)
      PROVE  AddedOf(s, c)'
  <2>1. CASE ArriveBarrier(r, b)
    BY <1>s, <1>i, <2>1, ArriveIs
  <2>2. CASE PassStart(r, b)
    <3>1. UNCHANGED << program, op >> /\ Gathers(r)' = Gathers(r) /\ Sources(r)' = Sources(r)
      BY <2>2, PassStartIs, SameOperation
    <3>2. s # r \/ c # b =>
            step'[s][c] = step[s][c] /\ unread'[s][c] = unread[s][c] /\ acc'[s][c] = acc[s][c]
      BY <2>2, PassStartIs
    <3>3. \/ step'[r][b] = "idle"
          \/ /\ ~ Gathers(r) /\ step'[r][b] = "read"
             /\ unread'[r][b] = Ranks /\ acc'[r][b] = {}
      BY <2>2, PassStartIs
    <3>4. ~ Gathers(r) => Sources(r) = Ranks
      BY DEF Sources, Gathers
    <3>5. CASE s = r /\ c = b
      BY <3>1, <3>3, <3>4, <3>5 DEF AddedOf, Inputs
    <3> QED
      BY <1>s, <3>1, <3>2, <3>5
  <2>3. ASSUME NEW p \in Ranks, ReadInput(r, b, p)
        PROVE  AddedOf(s, c)'
    <3>1. /\ UNCHANGED << program, op, step >> /\ step[r][b] = "read" /\ p \in unread[r][b]
          /\ unread'[r][b] = unread[r][b] \ {p}
          /\ ~ Gathers(r) => acc'[r][b] = acc[r][b] \cup {<<p, staging[p]>>}
          /\ s # r \/ c # b => unread'[s][c] = unread[s][c] /\ acc'[s][c] = acc[s][c]
      BY <2>3, ReadInputWrites
    <3>2. Gathers(r)' = Gathers(r) /\ Sources(r)' = Sources(r)
      BY <3>1, SameOperation
    <3>3. staging[p] = op[r]
      BY <3>1, Reader DEF Staged
    <3>4. CASE s = r /\ c = b
      <4>1. unread[r][b] \subseteq Sources(r) /\ Sources(r) \subseteq Ranks
        BY <1>0, <3>1 DEF Sources, AddedOf
      <4>2. ASSUME ~ Gathers(r)
            PROVE  acc'[r][b] = Inputs(op[r], Ranks \ unread'[r][b])
        <5>1. acc[r][b] = Inputs(op[r], Ranks \ unread[r][b])
          BY <1>0, <3>1, <4>2 DEF AddedOf
        <5>2. acc'[r][b] = acc[r][b] \cup {<<p, op[r]>>}
          BY <3>1, <3>3, <3>4, <4>2
        <5>3. Ranks \ unread'[r][b] = (Ranks \ unread[r][b]) \cup {p}
          BY <3>1, <3>4
        <5> QED
          BY <5>1, <5>2, <5>3 DEF Inputs
      <4> QED
        BY <3>1, <3>2, <3>4, <4>1, <4>2 DEF AddedOf
    <3> QED
      BY <1>s, <3>1, <3>4
  <2>4. CASE FinishReduce(r, b)
    BY <1>s, <1>i, <2>4, FinishReduceWrites
  <2>5. CASE PassEnd(r, b)
    BY <1>s, <1>i, <2>5, PassEndIs
  <2>6. ASSUME NEW p \in Ranks, Collect(r, b, p)
        PROVE  AddedOf(s, c)'
    <3>1. /\ UNCHANGED << program, op, acc >>
          /\ s # r \/ c # b => unread'[s][c] = unread[s][c]
          /\ step'[r][b] = IF unread[r][b] = {p} THEN "idle" ELSE "collect"
          /\ s # r \/ c # b => step'[s][c] = step[s][c]
      BY <2>6, CollectWrites
    <3> QED
      BY <1>s, <1>i, <3>1
  <2> QED
    BY <1>4, <2>1, <2>2, <2>3, <2>4, <2>5, <2>6 DEF BlockStep
<1>5. CASE UNCHANGED vars
  BY <1>s, <1>5 DEF vars
<1> QED
  BY <1>1, <1>2, <1>3, <1>4, <1>5 DEF Next, StreamStep, Finished

\* What all the blocks of an operation add up to is the whole.
LEMMA SumIs ==
  ASSUME Added, NEW r \in Ranks, NEW b \in Blocks,
         step[r][b] = "read", unread[r][b] = {}, ~ Gathers(r)
  PROVE  acc[r][b] = Whole(op[r])
<1>1. Ranks \ unread[r][b] = Ranks
  OBVIOUS
<1> QED
  BY <1>1 DEF Added, AddedOf, Whole

\* Rows of one kernel handle different elements.
LEMMA OtherRow ==
  ASSUME TypeOK, NEW r \in Ranks, op[r] <= MaxOps, NEW b \in Blocks, NEW c \in Blocks, c # b
  PROVE  \A x \in Handled(c, Grid(r)) : x \in Offsets /\ x \notin Handled(b, Grid(r))
BY CurrentIs, HandledIs

LEMMA ReducedChunkKept ==
  ASSUME ControlInv, Added, Chunks, [Next]_vars, NEW s \in Ranks, NEW c \in Blocks
  PROVE  ReducedChunk(s, c)'
<1>0. ReducedChunk(s, c) /\ ShapeOf(s, c) /\ TypeOK
  BY DEF Chunks, ControlInv, Shape
<1>s. ASSUME UNCHANGED program, op'[s] = op[s],
             phase'[s] # "copy" /\ Current(s).kind = "two" /\ c < Grid(s) /\ Reduced(s, c)' =>
               /\ phase[s] # "copy" /\ Reduced(s, c)
               /\ \A x \in Handled(c, Grid(s)) : scratch'[s][x] = scratch[s][x]
      PROVE  ReducedChunk(s, c)'
  <2>1. Current(s)' = Current(s) /\ Grid(s)' = Grid(s) /\ Whole(op[s])' = Whole(op[s])
    BY <1>s, SameOperation DEF Whole
  <2>2. Handled(c, Grid(s))' = Handled(c, Grid(s))
    BY <2>1 DEF Handled
  <2> QED
    BY <1>0, <1>s, <2>1, <2>2 DEF ReducedChunk
<1>1. ASSUME NEW r \in Ranks, Copy(r)
      PROVE  ReducedChunk(s, c)'
  <2>1. /\ UNCHANGED << program, op, scratch >>
        /\ \A q \in Ranks \ {r} : step'[q] = step[q]
        /\ phase' = [phase EXCEPT ![r] = IF Gathers(r) THEN "start" ELSE "body"]
        /\ step'[r][c] = IF c < Rows(Current(r)) THEN "arrive" ELSE "idle"
    BY <1>1, CopyIs
  <2>2. CASE s = r
    <3>1. phase'[s] = IF Gathers(r) THEN "start" ELSE "body"
      BY <1>0, <2>1, <2>2 DEF TypeOK
    <3>2. Current(s).kind = "two" /\ c < Grid(s) => ~ Reduced(s, c)'
      BY <2>1, <2>2, <3>1 DEF Reduced, Gathers, Rows, Grid
    <3> QED
      BY <1>s, <2>1, <3>2
  <2>3. CASE s # r
    BY <1>0, <1>s, <2>1, <2>3 DEF TypeOK, Reduced
  <2> QED
    BY <2>2, <2>3
<1>2. ASSUME NEW r \in Ranks, NextKernel(r)
      PROVE  ReducedChunk(s, c)'
  <2>1. /\ UNCHANGED << program, op, scratch >> /\ phase[r] # "copy" /\ step[r][c] = "idle"
        /\ \A q \in Ranks \ {r} : phase'[q] = phase[q] /\ step'[q] = step[q]
    BY <1>2, NextKernelIs
  <2>2. Gathers(r) \/ phase[r] = "body"
    BY <1>2, NextKernelIs
  <2>3. CASE s = r
    <3>1. Current(s).kind = "two" => phase[s] # "copy" /\ Reduced(s, c)
      BY <2>1, <2>2, <2>3 DEF Reduced, Gathers
    <3> QED
      BY <1>s, <2>1, <3>1
  <2>4. CASE s # r
    BY <1>s, <2>1, <2>4 DEF Reduced
  <2> QED
    BY <2>3, <2>4
<1>3. ASSUME NEW r \in Ranks, Retire(r)
      PROVE  ReducedChunk(s, c)'
  <2>1. /\ UNCHANGED << program, step, scratch >> /\ phase'[r] = "copy"
        /\ \A q \in Ranks \ {r} : op'[q] = op[q] /\ phase'[q] = phase[q]
    BY <1>3, RetireIs
  <2>2. CASE s = r
    BY <2>1, <2>2 DEF ReducedChunk
  <2>3. CASE s # r
    BY <1>s, <2>1, <2>3 DEF Reduced
  <2> QED
    BY <2>2, <2>3
<1>4. ASSUME NEW r \in Ranks, NEW b \in Blocks, BlockStep(r, b)
      PROVE  ReducedChunk(s, c)'
  <2>1. CASE ArriveBarrier(r, b)
    <3>1. /\ UNCHANGED << program, op, phase, scratch >>
          /\ \/ step[r][b] = "arrive" /\ step'[r][b] = "wait"
             \/ step[r][b] = "arriveEnd" /\ step'[r][b] = "waitEnd"
          /\ s # r \/ c # b => step'[s][c] = step[s][c]
      BY <2>1, ArriveIs
    <3>2. Reduced(s, c)' => Reduced(s, c)
      BY <3>1 DEF Reduced
    <3> QED
      BY <1>s, <3>1, <3>2
  <2>2. CASE PassStart(r, b)
    <3>1. /\ UNCHANGED << program, op, phase, scratch >>
          /\ \/ phase[r] = "start"
             \/ step'[r][b] = "read"
          /\ s # r \/ c # b => step'[s][c] = step[s][c]
      BY <2>2, PassStartIs
    <3>2. phase[r] = "start" \/ phase[r] = "body"
      BY <2>2, PassStartIs
    <3>3. Reduced(s, c)' => Reduced(s, c)
      BY <3>1, <3>2 DEF Reduced
    <3> QED
      BY <1>s, <3>1, <3>3
  <2>3. ASSUME NEW p \in Ranks, ReadInput(r, b, p)
        PROVE  ReducedChunk(s, c)'
    <3>1. UNCHANGED << program, op, phase, step, scratch >>
      BY <2>3, ReadInputWrites
    <3> QED
      BY <1>s, <3>1 DEF Reduced
  <2>4. CASE FinishReduce(r, b)
    <3>1. /\ UNCHANGED << program, op, phase >>
          /\ step[r][b] = "read" /\ unread[r][b] = {}
          /\ s # r \/ c # b => step'[s][c] = step[s][c]
          /\ \A x \in Offsets : s # r \/ x \notin Handled(b, Grid(r)) => scratch'[s][x] = scratch[s][x]
      BY <2>4, FinishReduceWrites
    <3>2. op[r] <= MaxOps
      BY <3>1 DEF ControlInv, Shape, ShapeOf
    <3>3. CASE s = r /\ c = b /\ Current(r).kind = "two"
      <4>1. \A x \in Offsets : x \in Handled(b, Grid(r)) => scratch'[r][x] = acc[r][b]
        BY <2>4, <3>3, FinishReduceWrites
      <4>2. acc[r][b] = Whole(op[r])
        BY <3>1, <3>3, SumIs DEF Gathers
      <4>3. Grid(r)' = Grid(r) /\ op'[r] = op[r]
        BY <3>1, SameOperation
      <4>4. \A x \in Handled(b, Grid(r)) : scratch'[r][x] = Whole(op[r])
        BY <4>1, <4>2 DEF Handled
      <4>5. Handled(b, Grid(r))' = Handled(b, Grid(r)) /\ Whole(op[r])' = Whole(op[r])
        BY <4>3 DEF Handled, Whole
      <4> QED
        BY <3>3, <4>4, <4>5 DEF ReducedChunk
    <3>4. CASE s = r /\ c = b /\ Current(r).kind # "two"
      BY <1>s, <3>1, <3>4
    <3>5. CASE s # r \/ c # b
      <4>1. \A x \in Handled(c, Grid(s)) : x \in Offsets
        BY DEF Handled
      <4>2. \A x \in Handled(c, Grid(s)) : scratch'[s][x] = scratch[s][x]
        <5>1. CASE s # r
          BY <3>1, <4>1, <5>1
        <5>2. CASE s = r
          BY <1>0, <3>1, <3>2, <3>5, <5>2, OtherRow
        <5> QED
          BY <5>1, <5>2
      <4>3. Reduced(s, c)' => Reduced(s, c)
        BY <3>1, <3>5 DEF Reduced
      <4> QED
        BY <1>s, <3>1, <4>2, <4>3
    <3> QED
      BY <3>3, <3>4, <3>5
  <2>5. CASE PassEnd(r, b)
    <3>1. /\ UNCHANGED << program, op, phase, scratch >> /\ step[r][b] = "waitEnd"
          /\ s # r \/ c # b => step'[s][c] = step[s][c]
      BY <2>5, PassEndIs
    <3>2. Reduced(s, c)' => Reduced(s, c)
      BY <3>1 DEF Reduced
    <3> QED
      BY <1>s, <3>1, <3>2
  <2>6. ASSUME NEW p \in Ranks, Collect(r, b, p)
        PROVE  ReducedChunk(s, c)'
    <3>1. /\ UNCHANGED << program, op, phase, scratch >> /\ step[r][b] = "collect"
          /\ s # r \/ c # b => step'[s][c] = step[s][c]
      BY <2>6, CollectWrites
    <3>2. Reduced(s, c)' => Reduced(s, c)
      BY <3>1 DEF Reduced
    <3> QED
      BY <1>s, <3>1, <3>2
  <2> QED
    BY <1>4, <2>1, <2>2, <2>3, <2>4, <2>5, <2>6 DEF BlockStep
<1>5. CASE UNCHANGED vars
  BY <1>s, <1>5 DEF vars, Reduced
<1> QED
  BY <1>1, <1>2, <1>3, <1>4, <1>5 DEF Next, StreamStep, Finished

LEMMA KeptChunkKept ==
  ASSUME ControlInv, Chunks, [Next]_vars, NEW p \in Ranks, NEW s \in Ranks
  PROVE  KeptChunk(p, s)'
<1>0. KeptChunk(p, s) /\ TypeOK
  BY DEF Chunks, ControlInv
<1>s. ASSUME UNCHANGED << program, op >>,
             op[p] = op[s] + 1 => \A x \in Offsets : scratch'[p][x] = scratch[p][x]
      PROVE  KeptChunk(p, s)'
  <2>1. Current(s)' = Current(s) /\ Whole(op[s])' = Whole(op[s])
    BY <1>s, SameOperation DEF Whole
  <2> QED
    BY <1>0, <1>s, <2>1 DEF KeptChunk
<1>1. ASSUME NEW r \in Ranks, Copy(r) \/ NextKernel(r)
      PROVE  KeptChunk(p, s)'
  <2>1. UNCHANGED << program, op, scratch >>
    BY <1>1, CopyIs, NextKernelIs
  <2> QED
    BY <1>s, <2>1
<1>2. ASSUME NEW r \in Ranks, Retire(r)
      PROVE  KeptChunk(p, s)'
  <2>1. /\ UNCHANGED << program, scratch >> /\ op[r] \in 1 .. MaxOps /\ phase[r] = "done"
        /\ op'[r] = op[r] + 1 /\ \A q \in Ranks \ {r} : op'[q] = op[q]
    BY <1>2, RetireIs
  <2>2. op[p] \in Nat /\ op[s] \in Nat /\ op[r] \in Nat /\ op[p] <= op[s] + 1 /\ op[r] <= MaxOps
    BY <2>1, Neighbours DEF ControlInv, Near
  <2>3. CASE p = r /\ s # r
    <3>1. op'[p] = op'[s] + 1 => op[r] = op[s]
      BY <2>1, <2>2, <2>3
    <3>2. ASSUME op[r] = op[s], Current(s).kind = "two", NEW x \in Offsets
          PROVE  scratch[p][x] = Whole(op[s])
      <4>1. Current(r) = Current(s)
        BY <3>2 DEF Current
      <4>2. PICK b \in Blocks : b < Grid(r) /\ x \in Handled(b, Grid(r))
        BY <1>0, <2>2, CurrentIs, HandledIs
      <4>3. ReducedChunk(r, b)
        BY DEF Chunks
      <4> QED
        BY <2>1, <2>3, <3>2, <4>1, <4>2, <4>3 DEF ReducedChunk, Reduced
    <3>3. op'[s] = op[s] /\ Current(s)' = Current(s) /\ Whole(op[s])' = Whole(op[s])
      BY <2>1, <2>3, SameOperation DEF Whole
    <3> QED
      BY <2>1, <3>1, <3>2, <3>3 DEF KeptChunk
  <2>4. CASE s = r
    <3>1. op'[p] # op'[s] + 1
      BY <2>1, <2>2, <2>4
    <3> QED
      BY <3>1 DEF KeptChunk
  <2>5. CASE p # r /\ s # r
    <3>1. /\ op'[p] = op[p] /\ op'[s] = op[s]
          /\ Current(s)' = Current(s) /\ Whole(op[s])' = Whole(op[s])
      BY <2>1, <2>5, SameOperation DEF Whole
    <3> QED
      BY <1>0, <2>1, <3>1 DEF KeptChunk
  <2> QED
    BY <2>3, <2>4, <2>5
<1>3. ASSUME NEW r \in Ranks, NEW b \in Blocks, BlockStep(r, b)
      PROVE  KeptChunk(p, s)'
  <2>1. CASE FinishReduce(r, b)
    <3>1. /\ UNCHANGED << program, op >> /\ step[r][b] = "read"
          /\ \A x \in Offsets : p # r => scratch'[p][x] = scratch[p][x]
      BY <2>1, FinishReduceWrites
    <3>2. op[s] = op[r] /\ op[s] \in Nat
      BY <3>1, Reader, Neighbours
    <3>3. p = r => op[p] # op[s] + 1
      BY <3>2
    <3> QED
      BY <1>s, <3>1, <3>3
  <2>2. CASE ~ FinishReduce(r, b)
    <3>1. UNCHANGED << program, op, scratch >>
      BY <1>3, <2>2 DEF BlockStep, ArriveBarrier, PassStart, ReadInput, PassEnd, Collect, dataVars
    <3> QED
      BY <1>s, <3>1
  <2> QED
    BY <2>1, <2>2
<1>4. CASE UNCHANGED vars
  BY <1>s, <1>4 DEF vars
<1> QED
  BY <1>1, <1>2, <1>3, <1>4 DEF Next, StreamStep, Finished

LEMMA ChunksKept ==
  ASSUME ControlInv, Added, Chunks, [Next]_vars
  PROVE  Chunks'
BY ReducedChunkKept, KeptChunkKept DEF Chunks

\* What a collecting block finds behind the Signal of a peer.
LEMMA Collected ==
  ASSUME ControlInv, Chunks, NEW r \in Ranks, NEW b \in Blocks, step[r][b] = "collect",
         NEW p \in Ranks
  PROVE  \A x \in Handled(b, Grid(r)) : x \in Offsets /\ scratch[p][x] = Whole(op[r])
<1>1. /\ op[r] <= MaxOps /\ phase[r] = "body" /\ Current(r).kind = "two" /\ b < Grid(r)
      /\ \/ op[p] = op[r] /\ phase[p] # "copy" /\ Reduced(p, b)
         \/ op[p] = op[r] + 1
  BY Collector
<1>2. \A x \in Handled(b, Grid(r)) : x \in Offsets
  BY DEF Handled
<1>3. CASE op[p] = op[r] /\ phase[p] # "copy" /\ Reduced(p, b)
  <2>1. Current(p) = Current(r) /\ Grid(p) = Grid(r)
    BY <1>3 DEF Current, Grid
  <2>2. ReducedChunk(p, b)
    BY DEF Chunks
  <2> QED
    BY <1>1, <1>2, <1>3, <2>1, <2>2 DEF ReducedChunk
<1>4. CASE op[p] = op[r] + 1
  BY <1>1, <1>2, <1>4 DEF Chunks, KeptChunk
<1> QED
  BY <1>1, <1>3, <1>4

LEMMA OutputKept ==
  ASSUME ControlInv, Staged, Added, Chunks, Outputs, [Next]_vars,
         NEW s \in Ranks, NEW c \in Blocks, NEW q \in Ranks
  PROVE  OutputOf(s, c, q)'
<1>0. OutputOf(s, c, q) /\ ShapeOf(s, c) /\ TypeOK
  BY DEF Outputs, ControlInv, Shape
<1>s. ASSUME UNCHANGED program, op'[s] = op[s],
             phase'[s] \in {"body", "end", "done"} /\ c < Grid(s) /\ Written(s, c, q)' =>
               /\ phase[s] \in {"body", "end", "done"} /\ Written(s, c, q)
               /\ \A x \in Handled(c, Grid(s)) : out'[s][q][x] = out[s][q][x]
      PROVE  OutputOf(s, c, q)'
  <2>1. Grid(s)' = Grid(s) /\ Wanted(s, q)' = Wanted(s, q)
    BY <1>s, SameOperation
  <2>2. Handled(c, Grid(s))' = Handled(c, Grid(s))
    BY <2>1 DEF Handled
  <2> QED
    BY <1>0, <1>s, <2>1, <2>2 DEF OutputOf
<1>w. ASSUME UNCHANGED program, op'[s] = op[s],
             \A x \in Handled(c, Grid(s)) : out'[s][q][x] = Wanted(s, q)
      PROVE  OutputOf(s, c, q)'
  <2>1. Grid(s)' = Grid(s) /\ Wanted(s, q)' = Wanted(s, q)
    BY <1>w, SameOperation
  <2>2. Handled(c, Grid(s))' = Handled(c, Grid(s))
    BY <2>1 DEF Handled
  <2> QED
    BY <1>w, <2>1, <2>2 DEF OutputOf
<1>k. ASSUME UNCHANGED << program, op >>, phase'[s] = phase[s], step'[s][c] = step[s][c],
             unread'[s][c] = unread[s][c]
      PROVE  Written(s, c, q)' = Written(s, c, q)
  <2>1. Current(s)' = Current(s) /\ Gathers(s)' = Gathers(s)
    BY <1>k, SameOperation
  <2> QED
    BY <1>k, <2>1 DEF Written
<1>1. ASSUME NEW r \in Ranks, Copy(r)
      PROVE  OutputOf(s, c, q)'
  <2>1. /\ UNCHANGED << program, op, unread, out >>
        /\ \A t \in Ranks \ {r} : step'[t] = step[t]
        /\ phase' = [phase EXCEPT ![r] = IF Gathers(r) THEN "start" ELSE "body"]
        /\ step'[r][c] = IF c < Rows(Current(r)) THEN "arrive" ELSE "idle"
    BY <1>1, CopyIs
  <2>2. CASE s = r
    <3>1. phase'[s] = IF Gathers(r) THEN "start" ELSE "body"
      BY <1>0, <2>1, <2>2 DEF TypeOK
    <3>2. phase'[s] = "body" /\ c < Grid(s) => ~ Written(s, c, q)'
      BY <2>1, <2>2, <3>1 DEF Written, Gathers, Rows, Grid
    <3>3. phase'[s] \in {"body", "end", "done"} => phase'[s] = "body"
      BY <3>1
    <3> QED
      BY <1>s, <2>1, <3>2, <3>3
  <2>3. CASE s # r
    BY <1>0, <1>s, <1>k, <2>1, <2>3 DEF TypeOK
  <2> QED
    BY <2>2, <2>3
<1>2. ASSUME NEW r \in Ranks, NextKernel(r)
      PROVE  OutputOf(s, c, q)'
  <2>1. /\ UNCHANGED << program, op, out >> /\ step[r][c] = "idle"
        /\ \A t \in Ranks \ {r} : phase'[t] = phase[t] /\ step'[t] = step[t] /\ unread'[t] = unread[t]
    BY <1>2, NextKernelIs
  <2>2. \/ /\ phase[r] = "start" /\ phase'[r] = "body" /\ Gathers(r)
           /\ step'[r][c] = IF c < Grid(r) THEN "read" ELSE "idle"
           /\ unread'[r][c] = IF c < Grid(r) THEN Sources(r) ELSE {}
        \/ phase[r] = "body" \/ phase[r] = "end"
    BY <1>2, NextKernelIs
  <2>3. CASE s = r /\ (phase[r] = "body" \/ phase[r] = "end")
    <3>1. Written(s, c, q)
      BY <2>1, <2>3 DEF Written
    <3> QED
      BY <1>s, <2>1, <2>3, <3>1
  <2>4. CASE /\ s = r /\ phase[r] = "start" /\ phase'[r] = "body" /\ Gathers(r)
             /\ step'[r][c] = IF c < Grid(r) THEN "read" ELSE "idle"
             /\ unread'[r][c] = IF c < Grid(r) THEN Sources(r) ELSE {}
    <3>1. Sources(r) = Ranks \ {r}
      BY <2>4 DEF Sources, Gathers
    <3>2. Current(r)' = Current(r)
      BY <2>1, SameOperation
    <3>3. c < Grid(s) => ~ Written(s, c, q)'
      BY <2>4, <3>1, <3>2 DEF Written
    <3> QED
      BY <1>s, <2>1, <3>3
  <2>5. CASE s # r
    BY <1>s, <1>k, <2>1, <2>5
  <2> QED
    BY <2>2, <2>3, <2>4, <2>5
<1>3. ASSUME NEW r \in Ranks, Retire(r)
      PROVE  OutputOf(s, c, q)'
  <2>1. /\ UNCHANGED << program, step, unread >> /\ phase'[r] = "copy"
        /\ \A t \in Ranks \ {r} : op'[t] = op[t] /\ phase'[t] = phase[t] /\ out'[t] = out[t]
    BY <1>3, RetireIs
  <2>2. CASE s = r
    BY <2>1, <2>2 DEF OutputOf
  <2>3. CASE s # r
    <3>1. Current(s)' = Current(s) /\ Gathers(s)' = Gathers(s)
      BY <2>1, <2>3, SameOperation
    <3> QED
      BY <1>s, <2>1, <2>3, <3>1 DEF Written
  <2> QED
    BY <2>2, <2>3
<1>5. CASE UNCHANGED vars
  BY <1>s, <1>k, <1>5 DEF vars
<1>4. ASSUME NEW r \in Ranks, NEW b \in Blocks, BlockStep(r, b)
      PROVE  OutputOf(s, c, q)'
  <2>1. CASE ArriveBarrier(r, b)
    <3>1. /\ UNCHANGED << program, op, phase, unread, out >>
          /\ \/ step[r][b] = "arrive" /\ step'[r][b] = "wait"
             \/ step[r][b] = "arriveEnd" /\ step'[r][b] = "waitEnd"
          /\ s # r \/ c # b => step'[s][c] = step[s][c]
      BY <2>1, ArriveIs
    <3>2. Current(s)' = Current(s) /\ Gathers(s)' = Gathers(s)
      BY <3>1, SameOperation
    <3>3. Written(s, c, q)' => Written(s, c, q)
      BY <3>1, <3>2 DEF Written
    <3> QED
      BY <1>s, <3>1, <3>3
  <2>2. CASE PassStart(r, b)
    <3>1. /\ UNCHANGED << program, op, phase, out >>
          /\ \/ phase[r] = "start"
             \/ phase[r] = "body" /\ ~ Gathers(r) /\ step'[r][b] = "read"
          /\ s # r \/ c # b => step'[s][c] = step[s][c] /\ unread'[s][c] = unread[s][c]
      BY <2>2, PassStartIs
    <3>2. Gathers(r)' = Gathers(r)
      BY <3>1, SameOperation
    <3>3. CASE s = r /\ c = b
      <4>1. phase'[s] \in {"body", "end", "done"} => ~ Written(s, c, q)'
        BY <3>1, <3>2, <3>3 DEF Written
      <4> QED
        BY <1>s, <3>1, <4>1
    <3> QED
      BY <1>s, <1>k, <3>1, <3>3
  <2>3. ASSUME NEW p \in Ranks, ReadInput(r, b, p)
        PROVE  OutputOf(s, c, q)'
    <3>1. /\ UNCHANGED << program, op, phase, step >> /\ step[r][b] = "read" /\ p \in unread[r][b]
          /\ unread'[r][b] = unread[r][b] \ {p}
          /\ s # r \/ c # b => unread'[s][c] = unread[s][c]
          /\ Gathers(r) =>
              \A x \in Offsets : x \in Handled(b, Grid(r)) => out'[r][p][x] = {<<p, staging[p]>>}
          /\ \A x \in Offsets :
              s # r \/ q # p \/ x \notin Handled(b, Grid(r)) => out'[s][q][x] = out[s][q][x]
      BY <2>3, ReadInputWrites
    <3>2. phase[r] = "body" /\ op[r] <= MaxOps
      BY <3>1 DEF ControlInv, Shape, ShapeOf
    <3>3. staging[p] = op[r]
      BY <3>1, Reader DEF Staged
    <3>4. \A x \in Handled(c, Grid(s)) : x \in Offsets
      BY DEF Handled
    <3>5. Current(r)' = Current(r) /\ Gathers(r)' = Gathers(r)
      BY <3>1, SameOperation
    <3>6. CASE s = r /\ c = b /\ ~ Gathers(r)
      <4>1. ~ Written(s, c, q)'
        BY <3>1, <3>2, <3>5, <3>6 DEF Written
      <4> QED
        BY <1>s, <3>1, <4>1
    <3>7. CASE s = r /\ c = b /\ Gathers(r) /\ q = p
      <4>1. \A x \in Handled(c, Grid(s)) : out'[s][q][x] = {<<p, op[r]>>}
        BY <3>1, <3>3, <3>4, <3>7
      <4> QED
        BY <1>w, <3>1, <3>7, <4>1 DEF Wanted
    <3>8. CASE s = r /\ c = b /\ Gathers(r) /\ q # p
      <4>1. Written(s, c, q)' => Written(s, c, q)
        BY <3>1, <3>5, <3>8 DEF Written
      <4> QED
        BY <1>s, <3>1, <3>4, <3>8, <4>1
    <3>9. CASE s = r /\ c # b
      <4>1. \A x \in Handled(c, Grid(s)) : out'[s][q][x] = out[s][q][x]
        BY <1>0, <3>1, <3>2, <3>9, OtherRow
      <4> QED
        BY <1>s, <1>k, <3>1, <3>9, <4>1
    <3>10. CASE s # r
      BY <1>s, <1>k, <3>1, <3>4, <3>10
    <3> QED
      BY <3>6, <3>7, <3>8, <3>9, <3>10
  <2>4. CASE FinishReduce(r, b)
    <3>1. /\ UNCHANGED << program, op, phase, unread >>
          /\ step[r][b] = "read" /\ unread[r][b] = {}
          /\ step'[r][b] = IF Gathers(r) THEN "idle" ELSE "arriveEnd"
          /\ s # r \/ c # b => step'[s][c] = step[s][c]
          /\ \A x \in Offsets :
              s # r \/ x \notin Handled(b, Grid(r)) => out'[s][q][x] = out[s][q][x]
      BY <2>4, FinishReduceWrites
    <3>2. phase[r] = "body" /\ op[r] <= MaxOps
      BY <3>1 DEF ControlInv, Shape, ShapeOf
    <3>3. Current(r).kind \in {"one", "two", "gather"}
      BY <1>0, <3>2, CurrentIs DEF Kinds
    <3>4. \A x \in Handled(c, Grid(s)) : x \in Offsets
      BY DEF Handled
    <3>5. Current(r)' = Current(r) /\ Gathers(r)' = Gathers(r)
      BY <3>1, SameOperation
    <3>6. CASE s = r /\ c = b /\ Current(r).kind = "one"
      <4>1. \A x \in Offsets : x \in Handled(b, Grid(r)) => out'[r][q][x] = acc[r][b]
        BY <2>4, <3>6, FinishReduceWrites
      <4>2. ~ Gathers(r) /\ acc[r][b] = Whole(op[r])
        BY <3>1, <3>6, SumIs DEF Gathers
      <4>3. Wanted(r, q) = Whole(op[r])
        BY <4>2 DEF Wanted
      <4>4. \A x \in Handled(c, Grid(s)) : out'[s][q][x] = Wanted(s, q)
        BY <3>4, <3>6, <4>1, <4>2, <4>3
      <4> QED
        BY <1>w, <3>1, <4>4
    <3>7. CASE s = r /\ c = b /\ Current(r).kind = "two"
      <4>1. ~ Written(s, c, q)'
        BY <3>1, <3>2, <3>5, <3>7 DEF Written, Gathers
      <4> QED
        BY <1>s, <3>1, <4>1
    <3>8. CASE s = r /\ c = b /\ Current(r).kind = "gather"
      <4>1. /\ Gathers(r)
            /\ \A x \in Offsets : x \in Handled(b, Grid(r)) => out'[r][r][x] = {<<r, op[r]>>}
            /\ \A t \in Ranks \ {r}, x \in Offsets : out'[r][t][x] = out[r][t][x]
        BY <2>4, <3>8, FinishReduceWrites DEF Gathers
      <4>2. CASE q = r
        <5>1. \A x \in Handled(c, Grid(s)) : out'[s][q][x] = Wanted(s, q)
          BY <3>4, <3>8, <4>1, <4>2 DEF Wanted
        <5> QED
          BY <1>w, <3>1, <5>1
      <4>3. CASE q # r
        <5>1. Written(s, c, q)
          BY <3>1, <3>8, <4>1, <4>3 DEF Written
        <5>2. \A x \in Handled(c, Grid(s)) : out'[s][q][x] = out[s][q][x]
          BY <3>4, <3>8, <4>1, <4>3
        <5> QED
          BY <1>s, <3>1, <3>2, <3>8, <5>1, <5>2
      <4> QED
        BY <4>2, <4>3
    <3>9. CASE s = r /\ c # b
      <4>1. \A x \in Handled(c, Grid(s)) : out'[s][q][x] = out[s][q][x]
        BY <1>0, <3>1, <3>2, <3>9, OtherRow
      <4> QED
        BY <1>s, <1>k, <3>1, <3>9, <4>1
    <3>10. CASE s # r
      BY <1>s, <1>k, <3>1, <3>4, <3>10
    <3> QED
      BY <3>3, <3>6, <3>7, <3>8, <3>9, <3>10
  <2>5. CASE PassEnd(r, b)
    <3>1. /\ UNCHANGED << program, op, phase, out >> /\ step[r][b] = "waitEnd"
          /\ s # r \/ c # b => step'[s][c] = step[s][c] /\ unread'[s][c] = unread[s][c]
      BY <2>5, PassEndIs
    <3>2. \/ Current(r).kind = "two" /\ step'[r][b] = "collect" /\ unread'[r][b] = Ranks
          \/ Current(r).kind # "two" /\ step'[r][b] = "idle"
      BY <2>5, PassEndIs
    <3>3. /\ op[r] <= MaxOps
          /\ (phase[r] = "end" /\ Gathers(r)) \/ (phase[r] = "body" /\ ~ Gathers(r))
      BY <3>1 DEF ControlInv, Shape, ShapeOf
    <3>4. Current(r).kind \in {"one", "two", "gather"}
      BY <1>0, <3>3, CurrentIs DEF Kinds
    <3>5. Current(r)' = Current(r) /\ Gathers(r)' = Gathers(r)
      BY <3>1, SameOperation
    <3>6. CASE s = r /\ c = b
      <4>1. Written(s, c, q)' => Written(s, c, q)
        BY <3>1, <3>2, <3>3, <3>4, <3>5, <3>6 DEF Written, Gathers
      <4> QED
        BY <1>s, <3>1, <4>1
    <3> QED
      BY <1>s, <1>k, <3>1, <3>6
  <2>6. ASSUME NEW p \in Ranks, Collect(r, b, p)
        PROVE  OutputOf(s, c, q)'
    <3>1. /\ UNCHANGED << program, op, phase >> /\ step[r][b] = "collect" /\ p \in unread[r][b]
          /\ step'[r][b] = IF unread[r][b] = {p} THEN "idle" ELSE "collect"
          /\ s # r \/ c # b => step'[s][c] = step[s][c]
          /\ unread'[r][b] = unread[r][b] \ {p}
          /\ s # r \/ c # b => unread'[s][c] = unread[s][c]
          /\ \A x \in Offsets : x \in Handled(b, Grid(r)) => out'[r][p][x] = scratch[p][x]
          /\ \A x \in Offsets :
              s # r \/ q # p \/ x \notin Handled(b, Grid(r)) => out'[s][q][x] = out[s][q][x]
      BY <2>6, CollectWrites
    <3>2. /\ op[r] <= MaxOps /\ Current(r).kind = "two" /\ phase[r] = "body"
          /\ \A x \in Handled(b, Grid(r)) : x \in Offsets /\ scratch[p][x] = Whole(op[r])
      BY <3>1, Collector, Collected
    <3>4. \A x \in Handled(c, Grid(s)) : x \in Offsets
      BY DEF Handled
    <3>5. Current(r)' = Current(r) /\ Gathers(r)' = Gathers(r)
      BY <3>1, SameOperation
    <3>6. CASE s = r /\ c = b /\ q = p
      <4>1. Wanted(r, q) = Whole(op[r])
        BY <3>2 DEF Wanted, Gathers
      <4>2. \A x \in Handled(c, Grid(s)) : out'[s][q][x] = Wanted(s, q)
        BY <3>1, <3>2, <3>6, <4>1
      <4> QED
        BY <1>w, <3>1, <4>2
    <3>7. CASE s = r /\ c = b /\ q # p
      <4>1. Written(s, c, q)' => Written(s, c, q)
        BY <3>1, <3>2, <3>5, <3>7 DEF Written, Gathers
      <4> QED
        BY <1>s, <3>1, <3>4, <3>7, <4>1
    <3>8. CASE s = r /\ c # b
      <4>1. \A x \in Handled(c, Grid(s)) : out'[s][q][x] = out[s][q][x]
        BY <1>0, <3>1, <3>2, <3>8, OtherRow
      <4> QED
        BY <1>s, <1>k, <3>1, <3>8, <4>1
    <3>9. CASE s # r
      BY <1>s, <1>k, <3>1, <3>4, <3>9
    <3> QED
      BY <3>6, <3>7, <3>8, <3>9
  <2> QED
    BY <1>4, <2>1, <2>2, <2>3, <2>4, <2>5, <2>6 DEF BlockStep
<1> QED
  BY <1>1, <1>2, <1>3, <1>4, <1>5 DEF Next, StreamStep, Finished

LEMMA DataKept ==
  ASSUME CollectiveInv, [Next]_vars
  PROVE  DataInv'
<1>1. Outputs'
  BY OutputKept DEF CollectiveInv, DataInv, Outputs
<1> QED
  BY <1>1, StagedKept, AddedKept, ChunksKept DEF CollectiveInv, DataInv

LEMMA DataInitially ==
  ASSUME Init
  PROVE  DataInv
<1>1. \A r \in Ranks : /\ phase[r] = "copy" /\ staging[r] = 0 /\ op[r] = 1
                       /\ \A b \in Blocks : step[r][b] = "idle"
  BY DEF Init
<1>2. Staged
  <2>1. 1 - 1 = 0
    OBVIOUS
  <2> QED
    BY <1>1, <2>1 DEF Staged
<1>5. Added
  BY <1>1 DEF Added, AddedOf
<1>3. Chunks
  BY <1>1 DEF Chunks, ReducedChunk, KeptChunk
<1>4. Outputs
  BY <1>1 DEF Outputs, OutputOf
<1> QED
  BY <1>2, <1>3, <1>4, <1>5 DEF DataInv

-----------------------------------------------------------------------------
(* The promises of the collectives.                                        *)

\* The barrier counts and the contents of the buffers stay as the argument
\* above needs them, whatever the order of the blocks, streams and ranks.
THEOREM CollectiveInvariance == Spec => []CollectiveInv
<1>1. Init => CollectiveInv
  BY ControlInitially, DataInitially DEF CollectiveInv
<1>2. CollectiveInv /\ [Next]_vars => CollectiveInv'
  <2> SUFFICES ASSUME CollectiveInv, [Next]_vars
               PROVE  CollectiveInv'
    OBVIOUS
  <2>1. ControlInv'
    BY ControlKept DEF CollectiveInv
  <2>2. DataInv'
    BY DataKept
  <2> QED
    BY <2>1, <2>2 DEF CollectiveInv
<1> QED
  BY <1>1, <1>2, PTL DEF Spec

\* The variables keep their types.
THEOREM CollectiveTypes == Spec => []TypeOK
<1>1. CollectiveInv => TypeOK
  BY DEF CollectiveInv, ControlInv
<1> QED
  BY <1>1, CollectiveInvariance, PTL

\* Whatever sequence of 1-stage, 2-stage and gather kernels the ranks issue,
\* with whatever grids, a finished collective has delivered the inputs all
\* ranks gave to it, in every element and on every rank.
THEOREM ResultCorrectHolds == Spec => []ResultCorrect
<1>1. CollectiveInv => ResultCorrect
  <2> SUFFICES ASSUME CollectiveInv, NEW r \in Ranks, phase[r] = "done",
                      NEW q \in Ranks, NEW x \in Offsets
               PROVE  out[r][q][x] = IF Current(r).kind = "gather"
                                     THEN {<<q, op[r]>>}
                                     ELSE {<<p, op[r]>> : p \in Ranks}
    BY DEF ResultCorrect
  <2>1. TypeOK /\ op[r] <= MaxOps
    BY BlocksAre DEF CollectiveInv, ControlInv, Shape, ShapeOf
  <2>2. PICK b \in Blocks : b < Grid(r) /\ x \in Handled(b, Grid(r))
    BY <2>1, CurrentIs, HandledIs
  <2>3. step[r][b] = "idle"
    BY DEF CollectiveInv, ControlInv, Shape, ShapeOf
  <2>4. OutputOf(r, b, q) /\ Written(r, b, q)
    BY <2>3 DEF CollectiveInv, DataInv, Outputs, Written
  <2>5. out[r][q][x] = Wanted(r, q)
    BY <2>2, <2>4 DEF OutputOf
  <2> QED
    BY <2>5 DEF Wanted, Gathers, Whole, Inputs
<1> QED
  BY <1>1, CollectiveInvariance, PTL

\* A rank copies its next input over its staging buffer only when no block of
\* any peer is still to read the one before.
THEOREM StagingNotOverwrittenHolds == Spec => StagingNotOverwritten
<1> DEFINE Kept == \A p \in Ranks : staging'[p] # staging[p] =>
                     \A r \in Ranks, b \in Blocks :
                       step[r][b] = "read" => p \notin unread[r][b]
<1>1. CollectiveInv /\ [Next]_vars => Kept
  <2> SUFFICES ASSUME CollectiveInv, [Next]_vars, NEW p \in Ranks, staging'[p] # staging[p],
                      NEW r \in Ranks, NEW b \in Blocks, step[r][b] = "read"
               PROVE  FALSE
    OBVIOUS
  <2>1. ControlInv
    BY DEF CollectiveInv
  <2>2. PICK s \in Ranks : Copy(s)
    <3>1. ASSUME NEW s \in Ranks, NextKernel(s) \/ Retire(s)
          PROVE  FALSE
      BY <2>1, <3>1, NextKernelIs, RetireIs
    <3>2. ASSUME NEW s \in Ranks, NEW c \in Blocks, BlockStep(s, c)
          PROVE  FALSE
      BY <3>2 DEF BlockStep, ArriveBarrier, PassStart, ReadInput, FinishReduce, PassEnd, Collect,
         dataVars
    <3>3. CASE UNCHANGED vars
      BY <3>3 DEF vars
    <3> QED
      BY <3>1, <3>2, <3>3 DEF Next, StreamStep, Finished
  <2>3. phase[s] = "copy" /\ staging' = [staging EXCEPT ![s] = op[s]]
    BY <2>1, <2>2, CopyIs
  <2>4. s = p
    BY <2>1, <2>3 DEF ControlInv, TypeOK
  <2>5. phase[p] # "copy"
    BY <2>1, Reader
  <2> QED
    BY <2>3, <2>4, <2>5
<1>2. [][Kept]_vars => StagingNotOverwritten
  BY PTL DEF StagingNotOverwritten
<1> QED
  BY <1>1, <1>2, CollectiveInvariance, PTL DEF Spec

\* A rank writes a reduced chunk only over elements that no block of any peer
\* is still to collect.
THEOREM ScratchNotOverwrittenHolds == Spec => ScratchNotOverwritten
<1> DEFINE Kept == \A p \in Ranks, x \in Offsets : scratch'[p][x] # scratch[p][x] =>
                     \A r \in Ranks, b \in Blocks :
                       (step[r][b] = "collect" /\ x \in Handled(b, Grid(r)))
                         => p \notin unread[r][b]
<1>1. CollectiveInv /\ [Next]_vars => Kept
  <2> SUFFICES ASSUME CollectiveInv, [Next]_vars, NEW p \in Ranks, NEW x \in Offsets,
                      scratch'[p][x] # scratch[p][x],
                      NEW r \in Ranks, NEW b \in Blocks, step[r][b] = "collect",
                      x \in Handled(b, Grid(r))
               PROVE  FALSE
    OBVIOUS
  <2>1. ControlInv
    BY DEF CollectiveInv
  <2>2. PICK s \in Ranks, c \in Blocks : FinishReduce(s, c)
    <3>1. ASSUME NEW s \in Ranks, StreamStep(s)
          PROVE  FALSE
      BY <2>1, <3>1, CopyIs, NextKernelIs, RetireIs DEF StreamStep
    <3>2. ASSUME NEW s \in Ranks, NEW c \in Blocks, BlockStep(s, c), ~ FinishReduce(s, c)
          PROVE  FALSE
      BY <3>2 DEF BlockStep, ArriveBarrier, PassStart, ReadInput, PassEnd, Collect, dataVars
    <3>3. CASE UNCHANGED vars
      BY <3>3 DEF vars
    <3> QED
      BY <3>1, <3>2, <3>3 DEF Next, Finished
  <2>3. /\ step[s][c] = "read"
        /\ \A t \in Ranks, y \in Offsets :
             t # s \/ y \notin Handled(c, Grid(s)) => scratch'[t][y] = scratch[t][y]
    BY <2>1, <2>2, FinishReduceWrites
  <2>4. s = p /\ x \in Handled(c, Grid(p))
    BY <2>3
  <2>5. op[r] = op[p] /\ op[p] <= MaxOps /\ TypeOK /\ op[p] \in Nat
    BY <2>1, <2>3, <2>4, Reader, Neighbours DEF ControlInv
  <2>6. Grid(r) = Grid(p)
    BY <2>5 DEF Grid, Current
  <2>7. c = b
    BY <2>4, <2>5, <2>6, CurrentIs, HandledIs
  <2>8. Reduced(p, b)
    BY <2>1, <2>5, Collector
  <2> QED
    BY <2>1, <2>3, <2>4, <2>7, <2>8 DEF Reduced, ControlInv, Shape, ShapeOf
<1>2. [][Kept]_vars => ScratchNotOverwritten
  BY PTL DEF ScratchNotOverwritten
<1> QED
  BY <1>1, <1>2, CollectiveInvariance, PTL DEF Spec
=============================================================================
