------------------------- MODULE CaptureArenaProofs -------------------------
(***************************************************************************)
(* Graph capture with the staging arena, for every number of ranks, every  *)
(* plan, every size and every sequence of successful and failed captures.  *)
(*                                                                         *)
(* The slots never overlap.  The argument is an allocator's: both cursors  *)
(* only grow, and every ledger entry lies between the start of the arena   *)
(* and the cursor, behind all earlier entries.                             *)
(*                                                                         *)
(* The ranks agree about every capture.  The argument: a rank posts one    *)
(* payload per context and never again, so once a rank has been through    *)
(* all broadcasts of a context its payloads are final; and the verdict,    *)
(* written as a comparison with the rank's own ledger, is a function of    *)
(* those payloads alone.  A captured descriptor takes no further           *)
(* operation, so what the payloads said of it stays true.                  *)
(*                                                                         *)
(* The plan has room for its operations.  The argument: as long as a rank  *)
(* has captured only planned ones, its cursors are behind a sum over the   *)
(* descriptors of the plan, in which the next one still counts.            *)
(***************************************************************************)
EXTENDS CaptureArena, SumLemmas

----------------------------------------------------------------------------
(* The slots.                                                              *)

\* A ledger entry lies inside the arena, before the cursors d and m.
Behind(e, d, m) ==
  /\ DataStart <= e.data /\ e.data + e.dataSize <= d /\ e.data + e.dataSize <= DataLimit
  /\ MetaStart <= e.meta /\ e.meta + e.metaSize <= m /\ e.meta + e.metaSize <= MetaLimit

\* Entry e was handed out before entry f.
Before(e, f) ==
  /\ e.data + e.dataSize <= f.data
  /\ e.meta + e.metaSize <= f.meta

\* What holds of the arena of one rank with ledger l and cursors d and m.
ArenaOK(l, d, m) ==
  /\ l \in Seq(LedgerEntries)
  /\ d \in Nat /\ m \in Nat
  /\ DataStart <= d /\ MetaStart <= m
  /\ \A i \in 1 .. Len(l) : Behind(l[i], d, m)
  /\ \A i, j \in 1 .. Len(l) : i < j => Before(l[i], l[j])

\* The inductive invariant.
ArenaInv ==
  /\ ledger \in [Ranks -> Seq(LedgerEntries)]
  /\ dataOffset \in [Ranks -> Nat]
  /\ metaOffset \in [Ranks -> Nat]
  /\ \A r \in Ranks : ArenaOK(ledger[r], dataOffset[r], metaOffset[r])

\* _align_graph_staging_size never shrinks a size.
LEMMA AlignedGrows ==
  ASSUME NEW n \in Nat
  PROVE  Aligned(n) \in Nat /\ n <= Aligned(n)
  <1> DEFINE a == Alignment
             up == n + a - 1
             q == up \div a
  <1>1. a \in Nat /\ a > 0
    BY ArenaAssumption
  <1>2. up \in Nat
    BY <1>1
  <1>3. up = a * q + (up % a) /\ q \in Nat /\ up % a \in 0 .. a - 1
    BY <1>1, <1>2
  <1>4. q * a = a * q /\ a * q \in Nat
    BY <1>1, <1>3
  <1>5. n <= q * a
    BY <1>1, <1>3, <1>4
  <1>6. QED
    BY <1>4, <1>5 DEF Aligned

\* The arena begins behind everything an eager operation may touch.
LEMMA Starts ==
  /\ DataStart \in Nat /\ MetaStart \in Nat
  /\ EagerReserve <= DataStart
  /\ MetaSize + EagerReserve <= MetaStart
  <1>1. MetaSize + EagerReserve \in Nat /\ EagerReserve \in Nat
    BY ArenaAssumption
  <1>2. QED
    BY <1>1, AlignedGrows DEF DataStart, MetaStart

\* An input has a natural number of bytes.
LEMMA InputSizes ==
  \A bytes \in {InputBytes(d) : d \in Descriptors} \cup OtherBytes : bytes \in Nat
  <1>1. \A d \in Descriptors : InputBytes(d) \in Nat
    BY ArenaAssumption DEF InputBytes
  <1>2. QED
    BY <1>1, ArenaAssumption

\* A slot that ends at a cursor ends at the cursor also after it has grown.
LEMMA GrownCursor ==
  ASSUME NEW start \in Nat, NEW size \in Nat, NEW cursor \in Nat, NEW more \in Nat,
         start + size <= cursor
  PROVE  start + size <= cursor + more
  OBVIOUS

\* Appending the slice at the cursors, when it fits, and moving both cursors
\* behind it keeps the arena in order.
LEMMA AppendSlot ==
  ASSUME NEW l, NEW d, NEW m, ArenaOK(l, d, m),
         NEW e \in LedgerEntries,
         e.data = d, e.meta = m,
         d + e.dataSize <= DataLimit, m + e.metaSize <= MetaLimit
  PROVE  ArenaOK(Append(l, e), d + e.dataSize, m + e.metaSize)
  <1> DEFINE k == Append(l, e)
  <1>1. l \in Seq(LedgerEntries) /\ d \in Nat /\ m \in Nat
        /\ DataStart <= d /\ MetaStart <= m
    BY DEF ArenaOK
  <1>2. e.dataSize \in Nat /\ e.metaSize \in Nat /\ e.data \in Nat /\ e.meta \in Nat
    BY DEF LedgerEntries
  <1>3. /\ k \in Seq(LedgerEntries)
        /\ Len(k) = Len(l) + 1 /\ Len(l) \in Nat
        /\ \A i \in 1 .. Len(l) : k[i] = l[i]
        /\ k[Len(l) + 1] = e
    BY <1>1
  <1>4. \A i \in 1 .. Len(l) : Behind(l[i], d, m) /\ l[i] \in LedgerEntries
    BY <1>1 DEF ArenaOK
  <1>5. \A i \in 1 .. Len(l) : Behind(l[i], d + e.dataSize, m + e.metaSize)
    <2> TAKE i \in 1 .. Len(l)
    <2>1. /\ l[i].data \in Nat /\ l[i].dataSize \in Nat
          /\ l[i].meta \in Nat /\ l[i].metaSize \in Nat
      BY <1>4 DEF LedgerEntries
    <2>2. /\ DataStart <= l[i].data /\ l[i].data + l[i].dataSize <= d
          /\ l[i].data + l[i].dataSize <= DataLimit
          /\ MetaStart <= l[i].meta /\ l[i].meta + l[i].metaSize <= m
          /\ l[i].meta + l[i].metaSize <= MetaLimit
      BY <1>4 DEF Behind
    <2>3. /\ l[i].data + l[i].dataSize <= d + e.dataSize
          /\ l[i].meta + l[i].metaSize <= m + e.metaSize
      <3>1. l[i].data + l[i].dataSize <= d + e.dataSize
        BY <1>1, <1>2, <2>1, <2>2, GrownCursor
      <3>2. l[i].meta + l[i].metaSize <= m + e.metaSize
        BY <1>1, <1>2, <2>1, <2>2, GrownCursor
      <3>3. QED
        BY <3>1, <3>2
    <2>4. QED
      BY <2>2, <2>3 DEF Behind
  <1>6. Behind(e, d + e.dataSize, m + e.metaSize)
    BY <1>1, <1>2 DEF Behind
  <1>7. \A i \in 1 .. Len(l) : Before(l[i], e)
    BY <1>4 DEF Behind, Before
  <1>8. \A i \in 1 .. Len(k) : Behind(k[i], d + e.dataSize, m + e.metaSize)
    BY <1>3, <1>5, <1>6
  <1>9. \A i, j \in 1 .. Len(k) : i < j => Before(k[i], k[j])
    <2> SUFFICES ASSUME NEW i \in 1 .. Len(k), NEW j \in 1 .. Len(k), i < j
                 PROVE  Before(k[i], k[j])
      OBVIOUS
    <2>1. i \in 1 .. Len(l) /\ k[i] = l[i]
      BY <1>3
    <2>2. CASE j = Len(l) + 1
      BY <1>3, <1>7, <2>1, <2>2
    <2>3. CASE j \in 1 .. Len(l)
      BY <1>3, <2>1, <2>3 DEF ArenaOK
    <2>4. QED
      BY <1>3, <2>2, <2>3
  <1>10. d + e.dataSize \in Nat /\ m + e.metaSize \in Nat
         /\ DataStart <= d + e.dataSize /\ MetaStart <= m + e.metaSize
    BY <1>1, <1>2, Starts
  <1>11. QED
    BY <1>3, <1>8, <1>9, <1>10 DEF ArenaOK

\* Launch, the only action that moves the cursors, keeps every arena in order.
LEMMA LaunchPreserves ==
  ASSUME ArenaInv, NEW r \in Ranks, NEW kind \in Kinds, NEW bytes \in Nat,
         Launch(r, kind, bytes)
  PROVE  ArenaInv'
  <1> DEFINE e == Entry(r, kind, bytes)
  <1>1. MetaSize + bytes \in Nat
    BY ArenaAssumption
  <1>2. DataSize(bytes) \in Nat /\ MetaSlotSize(bytes) \in Nat
    BY <1>1, AlignedGrows DEF DataSize, MetaSlotSize
  <1>3. /\ dataOffset[r] \in Nat /\ metaOffset[r] \in Nat
        /\ ArenaOK(ledger[r], dataOffset[r], metaOffset[r])
    BY DEF ArenaInv
  <1>4. Descriptor(r) \in Descriptors
    BY ArenaAssumption DEF Launch
  <1>5. e \in LedgerEntries
    BY <1>2, <1>3, <1>4 DEF Entry, LedgerEntries
  <1>6. /\ e.data = dataOffset[r] /\ e.dataSize = DataSize(bytes)
        /\ e.meta = metaOffset[r] /\ e.metaSize = MetaSlotSize(bytes)
    BY DEF Entry
  <1>7. /\ dataOffset[r] + e.dataSize <= DataLimit
        /\ metaOffset[r] + e.metaSize <= MetaLimit
    BY <1>6 DEF Launch, Fits
  <1>8. ArenaOK(Append(ledger[r], e), dataOffset[r] + e.dataSize, metaOffset[r] + e.metaSize)
    BY <1>3, <1>5, <1>6, <1>7, AppendSlot
  <1>9. /\ ledger' = [ledger EXCEPT ![r] = Append(ledger[r], e)]
        /\ dataOffset' = [dataOffset EXCEPT ![r] = dataOffset[r] + e.dataSize]
        /\ metaOffset' = [metaOffset EXCEPT ![r] = metaOffset[r] + e.metaSize]
    BY <1>6 DEF Launch
  <1>10. /\ ledger' \in [Ranks -> Seq(LedgerEntries)]
         /\ dataOffset' \in [Ranks -> Nat] /\ metaOffset' \in [Ranks -> Nat]
    BY <1>8, <1>9 DEF ArenaInv, ArenaOK
  <1>11. ASSUME NEW q \in Ranks
         PROVE  ArenaOK(ledger'[q], dataOffset'[q], metaOffset'[q])
    <2>1. CASE q = r
      BY <1>8, <1>9, <2>1 DEF ArenaInv
    <2>2. CASE q # r
      BY <1>9, <2>2 DEF ArenaInv
    <2>3. QED
      BY <2>1, <2>2
  <1>12. QED
    BY <1>10, <1>11 DEF ArenaInv, ArenaOK, Behind, Before

\* Every other step leaves ledger and cursors alone.
LEMMA OthersPreserve ==
  ASSUME ArenaInv, UNCHANGED arenaVars
  PROVE  ArenaInv'
  BY DEF ArenaInv, ArenaOK, Behind, Before, arenaVars

\* The arena stays in order through every run.
THEOREM ArenaInvariance == Spec => []ArenaInv
  <1>1. Init => ArenaInv
    <2> SUFFICES ASSUME Init PROVE ArenaInv
      OBVIOUS
    <2>1. /\ ledger = [r \in Ranks |-> <<>>]
          /\ dataOffset = [r \in Ranks |-> DataStart]
          /\ metaOffset = [r \in Ranks |-> MetaStart]
      BY DEF Init
    <2>2. ArenaOK(<<>>, DataStart, MetaStart)
      BY Starts DEF ArenaOK
    <2>3. QED
      BY <2>1, <2>2, Starts DEF ArenaInv
  <1>2. ArenaInv /\ [Next]_vars => ArenaInv'
    <2> SUFFICES ASSUME ArenaInv, [Next]_vars PROVE ArenaInv'
      OBVIOUS
    <2>1. ASSUME NEW r \in Ranks, Enter(r) PROVE ArenaInv'
      BY <2>1, OthersPreserve DEF Enter
    <2>2. ASSUME NEW r \in Ranks, BodyRaises(r) PROVE ArenaInv'
      BY <2>2, OthersPreserve DEF BodyRaises
    <2>3. ASSUME NEW r \in Ranks, LeaveBody(r) PROVE ArenaInv'
      BY <2>3, OthersPreserve DEF LeaveBody
    <2>4. ASSUME NEW r \in Ranks, Broadcast(r) PROVE ArenaInv'
      BY <2>4, OthersPreserve DEF Broadcast
    <2>5. ASSUME NEW r \in Ranks, Conclude(r) PROVE ArenaInv'
      BY <2>5, OthersPreserve DEF Conclude
    <2>6. ASSUME NEW r \in Ranks, NEW kind \in Kinds,
                 NEW bytes \in {InputBytes(d) : d \in Descriptors} \cup OtherBytes,
                 Launch(r, kind, bytes)
          PROVE  ArenaInv'
      BY <2>6, InputSizes, LaunchPreserves
    <2>7. CASE Finished \/ UNCHANGED vars
      BY <2>7, OthersPreserve DEF Finished, vars, arenaVars
    <2>8. QED
      BY <2>1, <2>2, <2>3, <2>4, <2>5, <2>6, <2>7 DEF Next, RankStep
  <1>3. QED
    BY <1>1, <1>2, PTL DEF Spec

\* No two captured operations of a rank share a byte of the staging buffer or
\* of the signal allocation, whatever contexts they were captured in.
THEOREM SlotsApartHolds == Spec => []SlotsApart
  <1>1. ArenaInv => SlotsApart
    <2> SUFFICES ASSUME ArenaInv, NEW r \in Ranks,
                        NEW i \in 1 .. Len(ledger[r]), NEW j \in 1 .. Len(ledger[r]), i # j
                 PROVE  LET e == ledger[r][i]
                            f == ledger[r][j]
                        IN /\ Apart(e.data, e.dataSize, f.data, f.dataSize)
                           /\ Apart(e.meta, e.metaSize, f.meta, f.metaSize)
      BY DEF SlotsApart
    <2>1. Len(ledger[r]) \in Nat
      BY DEF ArenaInv
    <2>2. CASE i < j
      <3>1. Before(ledger[r][i], ledger[r][j])
        BY <2>2 DEF ArenaInv, ArenaOK
      <3>2. QED
        BY <3>1 DEF Before, Apart
    <2>3. CASE j < i
      <3>1. Before(ledger[r][j], ledger[r][i])
        BY <2>3 DEF ArenaInv, ArenaOK
      <3>2. QED
        BY <3>1 DEF Before, Apart
    <2>4. QED
      BY <2>1, <2>2, <2>3
  <1>2. QED
    BY <1>1, ArenaInvariance, PTL

\* No captured slot reaches into what an eager operation uses or out of the
\* plan's capacity.
THEOREM EagerApartHolds == Spec => []EagerApart
  <1>1. ArenaInv => EagerApart
    <2> SUFFICES ASSUME ArenaInv, NEW r \in Ranks, NEW i \in 1 .. Len(ledger[r])
                 PROVE  LET e == ledger[r][i] IN
                        /\ \A bytes \in 0 .. BufferBytes :
                             EagerAccepts(bytes) => bytes <= e.data /\ MetaSize + bytes <= e.meta
                        /\ e.data + e.dataSize <= DataLimit
                        /\ e.meta + e.metaSize <= MetaLimit
      BY DEF EagerApart
    <2> DEFINE e == ledger[r][i]
    <2>1. Behind(e, dataOffset[r], metaOffset[r]) /\ e \in LedgerEntries
      BY DEF ArenaInv, ArenaOK
    <2>2. e.data \in Nat /\ e.meta \in Nat
      BY <2>1 DEF LedgerEntries
    <2>3. ASSUME NEW bytes \in 0 .. BufferBytes, EagerAccepts(bytes)
          PROVE  bytes <= e.data /\ MetaSize + bytes <= e.meta
      <3>1. bytes \in Int /\ bytes <= EagerReserve
        BY <2>3 DEF EagerAccepts
      <3>2. EagerReserve \in Nat /\ MetaSize \in Nat
        BY ArenaAssumption
      <3>3. QED
        BY <2>1, <2>2, <3>1, <3>2, Starts DEF Behind
    <2>4. QED
      BY <2>1, <2>3 DEF Behind
  <1>2. QED
    BY <1>1, ArenaInvariance, PTL

----------------------------------------------------------------------------
(* The agreement of the ranks.                                             *)

Payloads == [success : BOOLEAN, ledger : Seq(LedgerEntries), present : BOOLEAN]

\* The types the argument needs.
AgreeTypes ==
  /\ schedule \in [Contexts -> Descriptors]
  /\ context \in [Ranks -> 0 .. MaxContexts]
  /\ pc \in [Ranks -> {"idle", "body", "exchange"}]
  /\ \A r \in Ranks : pc[r] # "idle" => context[r] \in Contexts
  /\ bodyError \in [Ranks -> BOOLEAN]
  /\ ledger \in [Ranks -> Seq(LedgerEntries)]
  /\ ledgerStart \in [Ranks -> Nat]
  /\ captured \in [Ranks -> SUBSET Descriptors]
  /\ sealed \in [Ranks -> BOOLEAN]
  /\ posted \in [Contexts -> [Ranks -> Payloads]]
  /\ gathered \in [Ranks -> 0 .. RankCount]
  /\ \A r \in Ranks : pc[r] # "exchange" => gathered[r] = 0
  /\ outcome \in [Ranks -> [Contexts -> {"open", "accepted", "raised"}]]

\* Rank r has posted its payload of context k; it is through with context k.
HasPosted(r, k) ==
  \/ k < context[r]
  \/ k = context[r] /\ pc[r] = "idle"
  \/ k = context[r] /\ pc[r] = "exchange" /\ r < gathered[r]
IsThrough(r, k) == k < context[r] \/ (k = context[r] /\ pc[r] = "idle")

AllPresent(k) == \A q \in Ranks : posted[k][q].present

\* The verdict on context k as a function of the payloads.
Agreed(k) ==
  /\ \A q \in Ranks : posted[k][q].success
  /\ \A q, p \in Ranks : posted[k][q].ledger = posted[k][p].ledger

\* A payload is there only when its rank has posted it.
PostedOnce ==
  \A r \in Ranks, k \in Contexts : posted[k][r].present => HasPosted(r, k)

\* A rank in the exchange has seen the payloads of the roots behind it, and its
\* own is its ledger, which passed the manifest if it says so.
SeenSoFar ==
  \A r \in Ranks : pc[r] = "exchange" =>
    /\ \A q \in Ranks : q < gathered[r] => posted[context[r]][q].present
    /\ r < gathered[r] =>
         /\ posted[context[r]][r].ledger = ledger[r]
         /\ posted[context[r]][r].success => ManifestOK(ledger[r])

\* A context that has ended on a rank ended on final payloads, as they say.
EndedAsAgreed ==
  \A r \in Ranks, k \in Contexts : outcome[r][k] # "open" =>
    /\ IsThrough(r, k)
    /\ AllPresent(k)
    /\ outcome[r][k] = "accepted" <=> Agreed(k)

\* The operations of a captured descriptor are those of the context that
\* captured it, in every payload since.
FrozenOnceCaptured ==
  \A r \in Ranks : \A d \in captured[r] :
    \E k \in Contexts :
      /\ outcome[r][k] = "accepted"
      /\ \A j \in Contexts : (k <= j /\ posted[j][r].present) =>
           OpsAt(posted[j][r].ledger, d) = OpsAt(ledger[r], d)

\* The inductive invariant.
AgreeInv ==
  /\ AgreeTypes
  /\ PostedOnce
  /\ SeenSoFar
  /\ EndedAsAgreed
  /\ FrozenOnceCaptured
  /\ CapturedComplete

LEMMA RankNumbers == \A r \in Ranks : r \in Nat /\ r < RankCount /\ RankCount \in Nat
  BY ArenaAssumption DEF Ranks

LEMMA ContextNumbers == MaxContexts \in Nat /\ \A k \in Contexts : k \in Nat /\ 1 <= k /\ k <= MaxContexts
  BY ArenaAssumption DEF Contexts

\* At the end of the exchange every payload of the context is there.
LEMMA ExchangeComplete ==
  ASSUME AgreeInv, NEW r \in Ranks, pc[r] = "exchange", gathered[r] = RankCount
  PROVE  /\ context[r] \in Contexts
         /\ AllPresent(context[r])
         /\ posted[context[r]][r].ledger = ledger[r]
         /\ posted[context[r]][r].success => ManifestOK(ledger[r])
  <1>1. context[r] \in Contexts
    BY DEF AgreeInv, AgreeTypes
  <1>2. \A q \in Ranks : q < gathered[r]
    BY RankNumbers
  <1>3. QED
    BY <1>1, <1>2 DEF AgreeInv, SeenSoFar, AllPresent

\* There the comparison with the local ledger is the verdict of all payloads.
LEMMA ConsensusIsAgreed ==
  ASSUME AgreeInv, NEW r \in Ranks, pc[r] = "exchange", gathered[r] = RankCount
  PROVE  Consensus(r) <=> Agreed(context[r])
  BY ExchangeComplete DEF Consensus, Agreed

\* Payloads of a context that is complete are final: no rank posts again.
LEMMA CompleteIsFinal ==
  ASSUME AgreeInv, NEW r \in Ranks, Broadcast(r), NEW k \in Contexts, AllPresent(k)
  PROVE  posted'[k] = posted[k]
  <1>1. CASE gathered[r] = r
    <2>1. context[r] \in Contexts /\ pc[r] = "exchange" /\ ~(r < gathered[r])
      BY <1>1, RankNumbers DEF AgreeInv, AgreeTypes, Broadcast
    <2>2. ~HasPosted(r, context[r])
      BY <2>1, ContextNumbers DEF HasPosted
    <2>3. k # context[r]
      BY <2>1, <2>2 DEF AgreeInv, PostedOnce, AllPresent
    <2>4. QED
      BY <1>1, <2>1, <2>3 DEF Broadcast, AgreeInv, AgreeTypes
  <1>2. CASE gathered[r] # r
    BY <1>2 DEF Broadcast
  <1>3. QED
    BY <1>1, <1>2

\* Appending an operation of another descriptor leaves those of d in place.
LEMMA OpsOfAppend ==
  ASSUME NEW l \in Seq(LedgerEntries), NEW e \in LedgerEntries, NEW d, e.descriptor # d
  PROVE  OpsOf(Append(l, e), d) = OpsOf(l, d) /\ OpsAt(Append(l, e), d) = OpsAt(l, d)
  <1> DEFINE m == Append(l, e)
  <1>1. /\ Len(m) = Len(l) + 1 /\ Len(l) \in Nat
        /\ \A i \in 1 .. Len(l) : m[i] = l[i]
        /\ m[Len(l) + 1] = e
    OBVIOUS
  <1>2. OpsOf(m, d) = OpsOf(l, d)
    BY <1>1 DEF OpsOf
  <1>3. \A i \in OpsOf(l, d) : m[i] = l[i]
    BY <1>1 DEF OpsOf
  <1>4. QED
    BY <1>2, <1>3 DEF OpsAt

LEMMA InitAgrees == Init => AgreeInv
  <1> SUFFICES ASSUME Init PROVE AgreeInv
    OBVIOUS
  <1>1. AgreeTypes
    <2>1. NoPayload \in Payloads
      BY DEF NoPayload, Payloads
    <2>2. QED
      BY <2>1, ArenaAssumption DEF Init, AgreeTypes, Payloads
  <1>2. PostedOnce /\ SeenSoFar /\ EndedAsAgreed
    BY DEF Init, PostedOnce, NoPayload, SeenSoFar, EndedAsAgreed
  <1>3. FrozenOnceCaptured /\ CapturedComplete
    BY DEF Init, FrozenOnceCaptured, CapturedComplete
  <1>4. QED
    BY <1>1, <1>2, <1>3 DEF AgreeInv

\* A step that keeps the verdicts, the payloads and the ledgers, and with them
\* what each rank has posted and seen, keeps the agreement.
LEMMA QuietPreserves ==
  ASSUME AgreeInv, AgreeTypes',
         UNCHANGED <<ledger, captured, sealed, posted, outcome>>,
         \A r \in Ranks : pc'[r] = "exchange" =>
           gathered'[r] = 0 \/ (pc[r] = "exchange" /\ context'[r] = context[r] /\ gathered'[r] = gathered[r]),
         \A r \in Ranks, k \in Contexts : HasPosted(r, k) => HasPosted(r, k)',
         \A r \in Ranks, k \in Contexts : IsThrough(r, k) => IsThrough(r, k)'
  PROVE  AgreeInv'
  <1>1. PostedOnce'
    BY DEF AgreeInv, PostedOnce
  <1>2. SeenSoFar'
    <2> SUFFICES ASSUME NEW r \in Ranks, pc'[r] = "exchange"
                 PROVE  /\ \A q \in Ranks : q < gathered'[r] => posted'[context'[r]][q].present
                        /\ r < gathered'[r] =>
                             /\ posted'[context'[r]][r].ledger = ledger'[r]
                             /\ posted'[context'[r]][r].success => ManifestOK(ledger'[r])
      BY DEF SeenSoFar, ManifestOK, Entered, OpsOf
    <2>1. CASE gathered'[r] = 0
      BY <2>1, RankNumbers
    <2>2. CASE pc[r] = "exchange" /\ context'[r] = context[r] /\ gathered'[r] = gathered[r]
      BY <2>2 DEF AgreeInv, SeenSoFar
    <2>3. QED
      BY <2>1, <2>2
  <1>3. EndedAsAgreed'
    BY DEF AgreeInv, EndedAsAgreed, AllPresent, Agreed
  <1>4. FrozenOnceCaptured'
    BY DEF AgreeInv, FrozenOnceCaptured, OpsAt, OpsOf
  <1>5. CapturedComplete'
    <2> SUFFICES ASSUME NEW r \in Ranks, NEW d \in captured'[r]
                 PROVE  /\ d \in PlanDescriptors
                        /\ Cardinality(OpsOf(ledger'[r], d)) = OpsPerDescriptor
                        /\ sealed'[r] => captured'[r] = PlanDescriptors
      BY DEF CapturedComplete, OpsOf
    <2>1. QED
      BY DEF AgreeInv, CapturedComplete
  <1>6. QED
    BY <1>1, <1>2, <1>3, <1>4, <1>5 DEF AgreeInv

LEMMA EnterPreserves ==
  ASSUME AgreeInv, NEW r \in Ranks, Enter(r)
  PROVE  AgreeInv'
  <1>1. AgreeTypes'
    <2>1. context[r] + 1 \in Contexts /\ context[r] + 1 \in 0 .. MaxContexts
      BY ContextNumbers DEF AgreeInv, AgreeTypes, Enter, Contexts
    <2>2. Len(ledger[r]) \in Nat
      BY DEF AgreeInv, AgreeTypes
    <2>3. QED
      BY <2>1, <2>2 DEF AgreeInv, AgreeTypes, Enter, arenaVars, verdictVars
  <1>2. \A q \in Ranks, k \in Contexts :
          /\ HasPosted(q, k) => HasPosted(q, k)'
          /\ IsThrough(q, k) => IsThrough(q, k)'
    BY ContextNumbers DEF AgreeInv, AgreeTypes, Enter, HasPosted, IsThrough
  <1>3. \A q \in Ranks : pc'[q] = "exchange" =>
          pc[q] = "exchange" /\ context'[q] = context[q] /\ gathered'[q] = gathered[q]
    BY DEF AgreeInv, AgreeTypes, Enter
  <1>4. UNCHANGED <<ledger, captured, sealed, posted, outcome>>
    BY DEF Enter, arenaVars, verdictVars
  <1>5. QED
    BY <1>1, <1>2, <1>3, <1>4, QuietPreserves

LEMMA BodyRaisesPreserves ==
  ASSUME AgreeInv, NEW r \in Ranks, BodyRaises(r)
  PROVE  AgreeInv'
  <1>1. AgreeTypes'
    BY DEF AgreeInv, AgreeTypes, BodyRaises, arenaVars, verdictVars
  <1>2. UNCHANGED <<ledger, captured, sealed, posted, outcome, pc, context, gathered>>
    BY DEF BodyRaises, arenaVars, verdictVars
  <1>3. \A q \in Ranks, k \in Contexts :
          /\ HasPosted(q, k) => HasPosted(q, k)'
          /\ IsThrough(q, k) => IsThrough(q, k)'
    BY <1>2 DEF HasPosted, IsThrough
  <1>4. QED
    BY <1>1, <1>2, <1>3, QuietPreserves

LEMMA LeaveBodyPreserves ==
  ASSUME AgreeInv, NEW r \in Ranks, LeaveBody(r)
  PROVE  AgreeInv'
  <1>1. AgreeTypes'
    BY DEF AgreeInv, AgreeTypes, LeaveBody, arenaVars, verdictVars
  <1>2. UNCHANGED <<ledger, captured, sealed, posted, outcome, context, gathered>>
    BY DEF LeaveBody, arenaVars, verdictVars
  <1>3. \A q \in Ranks, k \in Contexts :
          /\ HasPosted(q, k) => HasPosted(q, k)'
          /\ IsThrough(q, k) => IsThrough(q, k)'
    BY <1>2 DEF HasPosted, IsThrough, AgreeInv, AgreeTypes, LeaveBody
  <1>4. \A q \in Ranks : pc'[q] = "exchange" =>
          \/ gathered'[q] = 0
          \/ pc[q] = "exchange" /\ context'[q] = context[q] /\ gathered'[q] = gathered[q]
    BY <1>2 DEF AgreeInv, AgreeTypes, LeaveBody
  <1>5. QED
    BY <1>1, <1>2, <1>3, <1>4, QuietPreserves

\* An operation is entered only inside a body, for a descriptor that is not
\* captured yet.
LEMMA LaunchKeepsAgreement ==
  ASSUME AgreeInv, ArenaInv', NEW r \in Ranks, NEW kind \in Kinds, NEW bytes \in Nat,
         ArenaInv, Launch(r, kind, bytes)
  PROVE  AgreeInv'
  <1> DEFINE e == Entry(r, kind, bytes)
  <1>1. UNCHANGED <<schedule, context, pc, bodyError, ledgerStart, posted, gathered,
                    captured, sealed, outcome>>
    BY DEF Launch, verdictVars
  <1>2. ledger' = [ledger EXCEPT ![r] = Append(@, e)]
    BY DEF Launch
  <1>3. AgreeTypes'
    BY <1>1 DEF AgreeInv, AgreeTypes, ArenaInv
  <1>4. e \in LedgerEntries /\ e.descriptor = Descriptor(r) /\ e.descriptor \notin captured[r]
    <2>1. MetaSize + bytes \in Nat
      BY ArenaAssumption
    <2>2. DataSize(bytes) \in Nat /\ MetaSlotSize(bytes) \in Nat
      BY <2>1, AlignedGrows DEF DataSize, MetaSlotSize
    <2>3. Descriptor(r) \in Descriptors
      BY ArenaAssumption DEF Launch
    <2>4. QED
      BY <2>2, <2>3 DEF ArenaInv, Entry, LedgerEntries, Launch
  <1>5. \A q \in Ranks : \A d \in captured[q] :
          /\ OpsOf(ledger'[q], d) = OpsOf(ledger[q], d)
          /\ OpsAt(ledger'[q], d) = OpsAt(ledger[q], d)
    <2> SUFFICES ASSUME NEW q \in Ranks, NEW d \in captured[q]
                 PROVE  /\ OpsOf(ledger'[q], d) = OpsOf(ledger[q], d)
                        /\ OpsAt(ledger'[q], d) = OpsAt(ledger[q], d)
      OBVIOUS
    <2>1. CASE q = r
      BY <1>2, <1>4, <2>1, OpsOfAppend DEF AgreeInv, AgreeTypes
    <2>2. CASE q # r
      BY <1>2, <2>2 DEF AgreeInv, AgreeTypes
    <2>3. QED
      BY <2>1, <2>2
  <1>6. PostedOnce'
    BY <1>1 DEF AgreeInv, PostedOnce, HasPosted
  <1>7. SeenSoFar'
    <2>1. pc[r] = "body"
      BY DEF Launch, InBody
    <2>2. \A q \in Ranks : pc[q] = "exchange" => ledger'[q] = ledger[q]
      BY <1>2, <2>1 DEF AgreeInv, AgreeTypes
    <2> SUFFICES ASSUME NEW q \in Ranks, pc[q] = "exchange"
                 PROVE  /\ \A p \in Ranks : p < gathered[q] => posted[context[q]][p].present
                        /\ q < gathered[q] =>
                             /\ posted[context[q]][q].ledger = ledger'[q]
                             /\ posted[context[q]][q].success => ManifestOK(ledger'[q])
      BY <1>1 DEF SeenSoFar, ManifestOK, Entered, OpsOf
    <2>3. QED
      BY <2>2 DEF AgreeInv, SeenSoFar
  <1>8. EndedAsAgreed'
    BY <1>1 DEF AgreeInv, EndedAsAgreed, IsThrough, AllPresent, Agreed
  <1>9. FrozenOnceCaptured'
    <2> SUFFICES ASSUME NEW q \in Ranks, NEW d \in captured[q]
                 PROVE  \E k \in Contexts :
                          /\ outcome[q][k] = "accepted"
                          /\ \A j \in Contexts : (k <= j /\ posted[j][q].present) =>
                               OpsAt(posted[j][q].ledger, d) = OpsAt(ledger'[q], d)
      BY <1>1 DEF FrozenOnceCaptured, OpsAt, OpsOf
    <2>1. QED
      BY <1>5 DEF AgreeInv, FrozenOnceCaptured
  <1>10. CapturedComplete'
    <2>1. \A q \in Ranks : \A d \in captured[q] :
            Cardinality(OpsOf(ledger'[q], d)) = OpsPerDescriptor
      BY <1>5 DEF AgreeInv, CapturedComplete
    <2>2. QED
      BY <1>1, <2>1 DEF AgreeInv, CapturedComplete, OpsOf
  <1>11. QED
    BY <1>3, <1>6, <1>7, <1>8, <1>9, <1>10 DEF AgreeInv

\* A broadcast posts at most one payload, the root's own: its ledger, with
\* success only if that passes the manifest.
LEMMA BroadcastPosts ==
  ASSUME AgreeInv, NEW r \in Ranks, Broadcast(r)
  PROVE  \E m \in Payloads :
           /\ m.present /\ m.ledger = ledger[r]
           /\ m.success => ManifestOK(ledger[r])
           /\ \/ gathered[r] = r
                /\ posted' = [posted EXCEPT ![context[r]] = [posted[context[r]] EXCEPT ![r] = m]]
              \/ /\ gathered[r] # r /\ posted' = posted
                 /\ posted[context[r]][gathered[r]].present
  <1> DEFINE m == [success |-> ~bodyError[r] /\ ManifestOK(ledger[r]),
                   ledger |-> ledger[r], present |-> TRUE]
  <1>1. m \in Payloads
    <2>1. (~bodyError[r] /\ ManifestOK(ledger[r])) \in BOOLEAN
      BY DEF ManifestOK
    <2>2. ledger[r] \in Seq(LedgerEntries)
      BY DEF AgreeInv, AgreeTypes
    <2>3. QED
      BY <2>1, <2>2 DEF Payloads
  <1>2. m.present /\ m.ledger = ledger[r] /\ (m.success => ManifestOK(ledger[r]))
    OBVIOUS
  <1>3. \/ gathered[r] = r
           /\ posted' = [posted EXCEPT ![context[r]] = [posted[context[r]] EXCEPT ![r] = m]]
        \/ /\ gathered[r] # r /\ posted' = posted
           /\ posted[context[r]][gathered[r]].present
    BY DEF Broadcast
  <1>4. QED
    BY <1>1, <1>2, <1>3

\* So it keeps the agreement: the context it posts to is still open to it.
LEMMA BroadcastKeepsAgreement ==
  ASSUME AgreeInv, NEW r \in Ranks, Broadcast(r)
  PROVE  AgreeInv'
  <1> DEFINE k == context[r]
  <1>1. UNCHANGED <<schedule, context, pc, bodyError, ledger, ledgerStart,
                    captured, sealed, outcome>>
    BY DEF Broadcast, arenaVars, verdictVars
  <1>2. /\ k \in Contexts /\ pc[r] = "exchange"
        /\ gathered[r] \in Nat /\ gathered[r] < RankCount
        /\ gathered' = [gathered EXCEPT ![r] = @ + 1]
    BY RankNumbers DEF AgreeInv, AgreeTypes, Broadcast
  <1>3. PICK mine \in Payloads :
          /\ mine.present /\ mine.ledger = ledger[r]
          /\ mine.success => ManifestOK(ledger[r])
          /\ \/ gathered[r] = r
               /\ posted' = [posted EXCEPT ![k] = [posted[k] EXCEPT ![r] = mine]]
             \/ gathered[r] # r /\ posted' = posted /\ posted[k][gathered[r]].present
    BY BroadcastPosts
  <1>4. AgreeTypes'
    <2>1. [posted[k] EXCEPT ![r] = mine] \in [Ranks -> Payloads]
      BY <1>2 DEF AgreeInv, AgreeTypes
    <2>2. posted' \in [Contexts -> [Ranks -> Payloads]]
      <3>1. [posted EXCEPT ![k] = [posted[k] EXCEPT ![r] = mine]] \in [Contexts -> [Ranks -> Payloads]]
        BY <1>2, <2>1 DEF AgreeInv, AgreeTypes
      <3>2. QED
        BY <1>3, <3>1 DEF AgreeInv, AgreeTypes
    <2>3. gathered[r] + 1 \in 0 .. RankCount
      BY <1>2, RankNumbers
    <2>4. QED
      BY <1>1, <1>2, <2>2, <2>3 DEF AgreeInv, AgreeTypes, Payloads
  <1>5. \A q \in Ranks, j \in Contexts : (q # r \/ j # k) => posted'[j][q] = posted[j][q]
    BY <1>2, <1>3 DEF AgreeInv, AgreeTypes
  <1>6. \A q \in Ranks, j \in Contexts : posted[j][q].present => posted'[j][q].present
    <2> SUFFICES ASSUME NEW q \in Ranks, NEW j \in Contexts, posted[j][q].present
                 PROVE  posted'[j][q].present
      OBVIOUS
    <2>1. CASE q # r \/ j # k
      BY <1>5, <2>1
    <2>2. CASE q = r /\ j = k
      BY <1>2, <1>3, <2>2 DEF AgreeInv, AgreeTypes
    <2>3. QED
      BY <2>1, <2>2
  <1>7. gathered[r] = r => posted'[k][r] = mine
    BY <1>2, <1>3 DEF AgreeInv, AgreeTypes
  <1>8. PostedOnce'
    <2> SUFFICES ASSUME NEW q \in Ranks, NEW j \in Contexts, posted'[j][q].present
                 PROVE  HasPosted(q, j)'
      BY DEF PostedOnce
    <2>1. CASE posted[j][q].present
      <3>1. HasPosted(q, j)
        BY <2>1 DEF AgreeInv, PostedOnce
      <3>2. QED
        BY <1>1, <1>2, <3>1, RankNumbers DEF HasPosted, AgreeInv, AgreeTypes
    <2>2. CASE ~posted[j][q].present
      <3>1. q = r /\ j = k /\ gathered[r] = r
        BY <1>3, <1>5, <2>2
      <3>2. QED
        BY <1>1, <1>2, <3>1, RankNumbers DEF HasPosted, AgreeInv, AgreeTypes
    <2>3. QED
      BY <2>1, <2>2
  <1>9. SeenSoFar'
    <2> SUFFICES ASSUME NEW q \in Ranks, pc'[q] = "exchange"
                 PROVE  /\ \A p \in Ranks : p < gathered'[q] => posted'[context'[q]][p].present
                        /\ q < gathered'[q] =>
                             /\ posted'[context'[q]][q].ledger = ledger'[q]
                             /\ posted'[context'[q]][q].success => ManifestOK(ledger'[q])
      BY DEF SeenSoFar, ManifestOK, Entered, OpsOf
    <2>1. CASE q # r
      <3>1. /\ gathered'[q] = gathered[q] /\ pc[q] = "exchange" /\ context'[q] = context[q]
            /\ context[q] \in Contexts /\ ledger'[q] = ledger[q]
        BY <1>1, <1>2, <2>1 DEF AgreeInv, AgreeTypes
      <3>2. posted'[context[q]][q] = posted[context[q]][q]
        BY <1>5, <2>1, <3>1
      <3>3. QED
        BY <1>6, <3>1, <3>2 DEF AgreeInv, SeenSoFar
    <2>2. CASE q = r
      <3>1. gathered'[r] = gathered[r] + 1 /\ context'[r] = k /\ ledger'[r] = ledger[r]
        BY <1>1, <1>2 DEF AgreeInv, AgreeTypes
      <3>2. \A p \in Ranks : p < gathered'[r] => p < gathered[r] \/ p = gathered[r]
        BY <1>2, <3>1, RankNumbers
      <3>3. \A p \in Ranks : p < gathered'[r] => posted'[k][p].present
        <4>1. \A p \in Ranks : p < gathered[r] => posted'[k][p].present
          BY <1>2, <1>6 DEF AgreeInv, SeenSoFar
        <4>2. \A p \in Ranks : p = gathered[r] => posted'[k][p].present
          BY <1>2, <1>3, <1>7
        <4>3. QED
          BY <3>2, <4>1, <4>2
      <3>4. r < gathered'[r] => /\ posted'[k][r].ledger = ledger[r]
                                /\ posted'[k][r].success => ManifestOK(ledger[r])
        <4>1. CASE gathered[r] = r
          BY <1>3, <1>7, <4>1
        <4>2. CASE gathered[r] # r
          BY <1>2, <1>3, <3>2, <4>2 DEF AgreeInv, SeenSoFar
        <4>3. QED
          BY <4>1, <4>2
      <3>5. QED
        BY <2>2, <3>1, <3>3, <3>4
    <2>3. QED
      BY <2>1, <2>2
  <1>10. EndedAsAgreed'
    <2> SUFFICES ASSUME NEW q \in Ranks, NEW j \in Contexts, outcome'[q][j] # "open"
                 PROVE  /\ IsThrough(q, j)'
                        /\ AllPresent(j)'
                        /\ (outcome[q][j] = "accepted" <=> Agreed(j))'
      BY DEF EndedAsAgreed
    <2>1. /\ IsThrough(q, j) /\ AllPresent(j)
          /\ outcome[q][j] = "accepted" <=> Agreed(j)
      BY <1>1 DEF AgreeInv, EndedAsAgreed
    <2>2. posted'[j] = posted[j]
      BY <2>1, CompleteIsFinal
    <2>3. IsThrough(q, j)'
      BY <1>1, <2>1 DEF IsThrough
    <2>4. AllPresent(j)'
      BY <2>1, <2>2 DEF AllPresent
    <2>5. Agreed(j)' <=> Agreed(j)
      BY <2>2 DEF Agreed
    <2>6. QED
      BY <1>1, <2>1, <2>3, <2>4, <2>5
  <1>11. FrozenOnceCaptured'
    <2> SUFFICES ASSUME NEW q \in Ranks, NEW d \in captured[q]
                 PROVE  \E i \in Contexts :
                          /\ outcome[q][i] = "accepted"
                          /\ \A j \in Contexts : (i <= j /\ posted'[j][q].present) =>
                               OpsAt(posted'[j][q].ledger, d) = OpsAt(ledger[q], d)
      BY <1>1 DEF FrozenOnceCaptured, OpsAt, OpsOf
    <2>1. PICK i \in Contexts :
            /\ outcome[q][i] = "accepted"
            /\ \A j \in Contexts : (i <= j /\ posted[j][q].present) =>
                 OpsAt(posted[j][q].ledger, d) = OpsAt(ledger[q], d)
      BY DEF AgreeInv, FrozenOnceCaptured
    <2>2. ASSUME NEW j \in Contexts, i <= j, posted'[j][q].present
          PROVE  OpsAt(posted'[j][q].ledger, d) = OpsAt(ledger[q], d)
      <3>1. CASE posted'[j][q] = posted[j][q]
        BY <2>1, <2>2, <3>1
      <3>2. CASE posted'[j][q] # posted[j][q]
        <4>1. posted'[j][q].ledger = ledger[q]
          BY <1>3, <1>5, <1>7, <3>2
        <4>2. QED
          BY <4>1
      <3>3. QED
        BY <3>1, <3>2
    <2>3. QED
      BY <2>1, <2>2
  <1>12. CapturedComplete'
    <2> SUFFICES ASSUME NEW q \in Ranks, NEW d \in captured'[q]
                 PROVE  /\ d \in PlanDescriptors
                        /\ Cardinality(OpsOf(ledger'[q], d)) = OpsPerDescriptor
                        /\ sealed'[q] => captured'[q] = PlanDescriptors
      BY DEF CapturedComplete, OpsOf
    <2>1. QED
      BY <1>1 DEF AgreeInv, CapturedComplete
  <1>13. QED
    BY <1>4, <1>8, <1>9, <1>10, <1>11, <1>12 DEF AgreeInv

\* The end of a context: the verdict is the one all payloads give, and what is
\* captured now is in them as it is in the ledger.
LEMMA ConcludeKeepsAgreement ==
  ASSUME AgreeInv, NEW r \in Ranks, Conclude(r)
  PROVE  AgreeInv'
  <1> DEFINE k == context[r]
             new == Entered(ledger[r], ledgerStart[r] + 1)
             all == captured[r] \cup new
             verdict == IF Consensus(r) THEN "accepted" ELSE "raised"
  <1>1. UNCHANGED <<schedule, context, ledger, ledgerStart, posted>>
    BY DEF Conclude, arenaVars
  <1>2. /\ pc[r] = "exchange" /\ gathered[r] = RankCount
        /\ pc' = [pc EXCEPT ![r] = "idle"]
        /\ bodyError' = [bodyError EXCEPT ![r] = FALSE]
        /\ gathered' = [gathered EXCEPT ![r] = 0]
    BY DEF Conclude
  <1>3. /\ k \in Contexts /\ AllPresent(k)
        /\ posted[k][r].ledger = ledger[r]
        /\ posted[k][r].success => ManifestOK(ledger[r])
        /\ Consensus(r) <=> Agreed(k)
    BY <1>2, ExchangeComplete, ConsensusIsAgreed
  <1>4. outcome' = [outcome EXCEPT ![r][k] = verdict]
    BY DEF Conclude
  <1>5. /\ captured' = IF Consensus(r) THEN [captured EXCEPT ![r] = all] ELSE captured
        /\ sealed' = IF Consensus(r) THEN [sealed EXCEPT ![r] = PlanDescriptors \subseteq all] ELSE sealed
    BY DEF Conclude
  <1>6. \A d \in new : d \in Entered(ledger[r], 1) /\ d \in Descriptors
    <2>1. ledger[r] \in Seq(LedgerEntries) /\ ledgerStart[r] \in Nat
      BY DEF AgreeInv, AgreeTypes
    <2>2. \A j \in ledgerStart[r] + 1 .. Len(ledger[r]) : j \in 1 .. Len(ledger[r])
      BY <2>1
    <2>3. \A j \in 1 .. Len(ledger[r]) : ledger[r][j].descriptor \in Descriptors
      <3>1. \A j \in 1 .. Len(ledger[r]) : ledger[r][j] \in LedgerEntries
        BY <2>1
      <3>2. QED
        BY <3>1 DEF LedgerEntries
    <2>4. QED
      BY <2>2, <2>3 DEF Entered
  <1>7. Consensus(r) => \A d \in new : /\ d \in PlanDescriptors
                                      /\ Cardinality(OpsOf(ledger[r], d)) = OpsPerDescriptor
    BY <1>3, <1>6 DEF Consensus, ManifestOK
  <1>8. outcome[r][k] = "open"
    <2>1. ~IsThrough(r, k)
      BY <1>2, <1>3, ContextNumbers DEF IsThrough
    <2>2. QED
      BY <1>3, <2>1 DEF AgreeInv, EndedAsAgreed
  <1>9. \A q \in Ranks, j \in Contexts : (q # r \/ j # k) => outcome'[q][j] = outcome[q][j]
    BY <1>3, <1>4 DEF AgreeInv, AgreeTypes
  <1>10. outcome'[r][k] = verdict
    BY <1>3, <1>4 DEF AgreeInv, AgreeTypes
  <1>11. verdict \in {"open", "accepted", "raised"} /\ (verdict = "accepted" <=> Consensus(r))
    OBVIOUS
  <1>12. /\ captured' \in [Ranks -> SUBSET Descriptors]
         /\ \A q \in Ranks : q # r => captured'[q] = captured[q] /\ sealed'[q] = sealed[q]
         /\ ~Consensus(r) => captured'[r] = captured[r] /\ sealed'[r] = sealed[r]
         /\ Consensus(r) => captured'[r] = all /\ (sealed'[r] <=> PlanDescriptors \subseteq all)
         /\ sealed' \in [Ranks -> BOOLEAN]
    <2>1. all \subseteq Descriptors
      BY <1>6 DEF AgreeInv, AgreeTypes
    <2>2. QED
      BY <1>5, <2>1 DEF AgreeInv, AgreeTypes
  <1> HIDE DEF new, all, verdict
  <1>13. AgreeTypes'
    <2>1. [outcome[r] EXCEPT ![k] = verdict] \in [Contexts -> {"open", "accepted", "raised"}]
      BY <1>3, <1>11 DEF AgreeInv, AgreeTypes
    <2>2. outcome' \in [Ranks -> [Contexts -> {"open", "accepted", "raised"}]]
      BY <1>4, <2>1 DEF AgreeInv, AgreeTypes
    <2>3. RankCount \in Nat
      BY ArenaAssumption
    <2>4. /\ pc' \in [Ranks -> {"idle", "body", "exchange"}]
          /\ bodyError' \in [Ranks -> BOOLEAN]
          /\ gathered' \in [Ranks -> 0 .. RankCount]
      BY <1>2, <2>3 DEF AgreeInv, AgreeTypes
    <2>5. \A q \in Ranks :
            /\ pc'[q] # "idle" => context'[q] \in Contexts
            /\ pc'[q] # "exchange" => gathered'[q] = 0
      BY <1>1, <1>2 DEF AgreeInv, AgreeTypes
    <2>6. QED
      BY <1>1, <1>12, <2>2, <2>4, <2>5 DEF AgreeInv, AgreeTypes
  <1>14. \A q \in Ranks, j \in Contexts :
           /\ HasPosted(q, j) => HasPosted(q, j)'
           /\ IsThrough(q, j) => IsThrough(q, j)'
    BY <1>1, <1>2 DEF AgreeInv, AgreeTypes, HasPosted, IsThrough
  <1>15. PostedOnce'
    BY <1>1, <1>14 DEF AgreeInv, PostedOnce
  <1>16. SeenSoFar'
    <2> SUFFICES ASSUME NEW q \in Ranks, pc'[q] = "exchange"
                 PROVE  /\ \A p \in Ranks : p < gathered'[q] => posted'[context'[q]][p].present
                        /\ q < gathered'[q] =>
                             /\ posted'[context'[q]][q].ledger = ledger'[q]
                             /\ posted'[context'[q]][q].success => ManifestOK(ledger'[q])
      BY DEF SeenSoFar, ManifestOK, Entered, OpsOf
    <2>1. q # r /\ pc[q] = "exchange" /\ gathered'[q] = gathered[q]
      BY <1>2 DEF AgreeInv, AgreeTypes
    <2>2. QED
      BY <1>1, <2>1 DEF AgreeInv, SeenSoFar
  <1>17. EndedAsAgreed'
    <2> SUFFICES ASSUME NEW q \in Ranks, NEW j \in Contexts, outcome'[q][j] # "open"
                 PROVE  /\ IsThrough(q, j)'
                        /\ AllPresent(j)
                        /\ outcome'[q][j] = "accepted" <=> Agreed(j)
      BY <1>1 DEF EndedAsAgreed, AllPresent, Agreed
    <2>1. CASE q # r \/ j # k
      <3>1. outcome'[q][j] = outcome[q][j]
        BY <1>9, <2>1
      <3>2. /\ IsThrough(q, j) /\ AllPresent(j)
            /\ outcome[q][j] = "accepted" <=> Agreed(j)
        BY <3>1 DEF AgreeInv, EndedAsAgreed
      <3>3. IsThrough(q, j)'
        BY <1>14, <3>2
      <3>4. QED
        BY <3>1, <3>2, <3>3
    <2>2. CASE q = r /\ j = k
      <3>1. IsThrough(q, j)'
        BY <1>1, <1>2, <2>2 DEF AgreeInv, AgreeTypes, IsThrough
      <3>2. outcome'[r][k] = "accepted" <=> Agreed(k)
        BY <1>3, <1>10, <1>11
      <3>3. QED
        BY <1>3, <2>2, <3>1, <3>2
    <2>3. QED
      BY <2>1, <2>2
  <1>18. FrozenOnceCaptured'
    <2> SUFFICES ASSUME NEW q \in Ranks, NEW d \in captured'[q]
                 PROVE  \E i \in Contexts :
                          /\ outcome'[q][i] = "accepted"
                          /\ \A j \in Contexts : (i <= j /\ posted[j][q].present) =>
                               OpsAt(posted[j][q].ledger, d) = OpsAt(ledger[q], d)
      BY <1>1 DEF FrozenOnceCaptured, OpsAt, OpsOf
    <2>1. CASE d \in captured[q]
      <3>1. PICK i \in Contexts :
              /\ outcome[q][i] = "accepted"
              /\ \A j \in Contexts : (i <= j /\ posted[j][q].present) =>
                   OpsAt(posted[j][q].ledger, d) = OpsAt(ledger[q], d)
        BY <2>1 DEF AgreeInv, FrozenOnceCaptured
      <3>2. outcome'[q][i] = "accepted"
        BY <1>8, <1>9, <3>1
      <3>3. QED
        BY <3>1, <3>2
    <2>2. CASE d \notin captured[q]
      <3>1. q = r /\ Consensus(r)
        BY <1>12, <2>2
      <3>2. outcome'[r][k] = "accepted"
        BY <1>10, <1>11, <3>1
      <3>3. ASSUME NEW j \in Contexts, k <= j, posted[j][r].present
            PROVE  j = k
        <4>1. HasPosted(r, j)
          BY <3>3 DEF AgreeInv, PostedOnce
        <4>2. QED
          BY <1>3, <3>3, <4>1, ContextNumbers DEF HasPosted
      <3>4. \A j \in Contexts : (k <= j /\ posted[j][r].present) =>
              OpsAt(posted[j][r].ledger, d) = OpsAt(ledger[r], d)
        BY <1>3, <3>3
      <3>5. QED
        BY <1>3, <3>1, <3>2, <3>4
    <2>3. QED
      BY <2>1, <2>2
  <1>19. CapturedComplete'
    <2> SUFFICES ASSUME NEW q \in Ranks, NEW d \in captured'[q]
                 PROVE  /\ d \in PlanDescriptors
                        /\ Cardinality(OpsOf(ledger[q], d)) = OpsPerDescriptor
                        /\ sealed'[q] => captured'[q] = PlanDescriptors
      BY <1>1 DEF CapturedComplete, OpsOf
    <2>1. CASE q # r \/ ~Consensus(r)
      BY <1>12, <2>1 DEF AgreeInv, CapturedComplete
    <2>2. CASE q = r /\ Consensus(r)
      <3>1. \A c \in all : c \in PlanDescriptors /\ Cardinality(OpsOf(ledger[r], c)) = OpsPerDescriptor
        BY <1>7, <2>2 DEF AgreeInv, CapturedComplete, all
      <3>2. captured'[r] = all /\ (sealed'[r] <=> PlanDescriptors \subseteq all)
        BY <1>12, <2>2
      <3>3. QED
        BY <2>2, <3>1, <3>2
    <2>3. QED
      BY <2>1, <2>2
  <1>20. QED
    BY <1>13, <1>15, <1>16, <1>17, <1>18, <1>19 DEF AgreeInv

\* The invariant holds in every run.
THEOREM AgreeInvariance == Spec => []AgreeInv
  <1>1. ArenaInv /\ ArenaInv' /\ AgreeInv /\ [Next]_vars => AgreeInv'
    <2> SUFFICES ASSUME ArenaInv, ArenaInv', AgreeInv, [Next]_vars PROVE AgreeInv'
      OBVIOUS
    <2>1. ASSUME NEW r \in Ranks, NEW kind \in Kinds,
                 NEW bytes \in {InputBytes(d) : d \in Descriptors} \cup OtherBytes,
                 Launch(r, kind, bytes)
          PROVE  AgreeInv'
      BY <2>1, InputSizes, LaunchKeepsAgreement
    <2>2. CASE Finished \/ UNCHANGED vars
      <3>1. UNCHANGED vars
        BY <2>2 DEF Finished
      <3>2. AgreeTypes'
        BY <3>1 DEF AgreeInv, AgreeTypes, vars
      <3>3. \A r \in Ranks, k \in Contexts :
              /\ HasPosted(r, k) => HasPosted(r, k)'
              /\ IsThrough(r, k) => IsThrough(r, k)'
        BY <3>1 DEF HasPosted, IsThrough, vars
      <3>4. UNCHANGED <<ledger, captured, sealed, posted, outcome, pc, context, gathered>>
        BY <3>1 DEF vars
      <3>5. QED
        BY <3>2, <3>3, <3>4, QuietPreserves
    <2>3. QED
      BY <2>1, <2>2, EnterPreserves, BodyRaisesPreserves, LeaveBodyPreserves,
         BroadcastKeepsAgreement, ConcludeKeepsAgreement DEF Next, RankStep
  <1>2. QED
    BY <1>1, InitAgrees, ArenaInvariance, PTL DEF Spec

\* All ranks end a capture context the same way, however many ranks there are
\* and whichever of them failed in it.
THEOREM OutcomesAgreeHolds == Spec => []OutcomesAgree
  <1>1. AgreeInv => OutcomesAgree
    <2> SUFFICES ASSUME AgreeInv, NEW r \in Ranks, NEW q \in Ranks, NEW k \in Contexts,
                        outcome[r][k] # "open", outcome[q][k] # "open"
                 PROVE  outcome[r][k] = outcome[q][k]
      BY DEF OutcomesAgree
    <2>1. outcome[r][k] \in {"accepted", "raised"} /\ outcome[q][k] \in {"accepted", "raised"}
      BY DEF AgreeInv, AgreeTypes
    <2>2. (outcome[r][k] = "accepted" <=> Agreed(k)) /\ (outcome[q][k] = "accepted" <=> Agreed(k))
      BY DEF AgreeInv, EndedAsAgreed
    <2>3. QED
      BY <2>1, <2>2
  <1>2. QED
    BY <1>1, AgreeInvariance, PTL

\* A captured descriptor has exactly the planned operations, for good, and the
\* arena is sealed only when every planned descriptor is captured.
THEOREM CapturedCompleteHolds == Spec => []CapturedComplete
  <1>1. AgreeInv => CapturedComplete
    BY DEF AgreeInv
  <1>2. QED
    BY <1>1, AgreeInvariance, PTL

\* Two ranks that hold a descriptor captured hold the same operations of it at
\* the same slots: the later of the two acceptances compared both ledgers, and
\* the descriptor has taken no operation since on either rank.
THEOREM CapturedSlotsMatchHolds == Spec => []CapturedSlotsMatch
  <1>1. AgreeInv => CapturedSlotsMatch
    <2> SUFFICES ASSUME AgreeInv, NEW r \in Ranks, NEW q \in Ranks,
                        NEW d \in captured[r] \cap captured[q]
                 PROVE  OpsAt(ledger[r], d) = OpsAt(ledger[q], d)
      BY DEF CapturedSlotsMatch
    <2>1. PICK i \in Contexts :
            /\ outcome[r][i] = "accepted"
            /\ \A j \in Contexts : (i <= j /\ posted[j][r].present) =>
                 OpsAt(posted[j][r].ledger, d) = OpsAt(ledger[r], d)
      BY DEF AgreeInv, FrozenOnceCaptured
    <2>2. PICK j \in Contexts :
            /\ outcome[q][j] = "accepted"
            /\ \A k \in Contexts : (j <= k /\ posted[k][q].present) =>
                 OpsAt(posted[k][q].ledger, d) = OpsAt(ledger[q], d)
      BY DEF AgreeInv, FrozenOnceCaptured
    <2>3. ASSUME NEW k \in Contexts, i <= k, j <= k, AllPresent(k), Agreed(k)
          PROVE  OpsAt(ledger[r], d) = OpsAt(ledger[q], d)
      <3>1. /\ OpsAt(posted[k][r].ledger, d) = OpsAt(ledger[r], d)
            /\ OpsAt(posted[k][q].ledger, d) = OpsAt(ledger[q], d)
        BY <2>1, <2>2, <2>3 DEF AllPresent
      <3>2. posted[k][r].ledger = posted[k][q].ledger
        BY <2>3 DEF Agreed
      <3>3. QED
        BY <3>1, <3>2
    <2>4. /\ AllPresent(i) /\ Agreed(i)
          /\ AllPresent(j) /\ Agreed(j)
      BY <2>1, <2>2 DEF AgreeInv, EndedAsAgreed
    <2>5. CASE i <= j
      BY <2>3, <2>4, <2>5, ContextNumbers
    <2>6. CASE j <= i
      BY <2>3, <2>4, <2>6, ContextNumbers
    <2>7. QED
      BY <2>5, <2>6, ContextNumbers
  <1>2. QED
    BY <1>1, AgreeInvariance, PTL

----------------------------------------------------------------------------
(* The room for planned operations.                                        *)

\* The capacities of the plan, and the arena, bound the cursors.
Bounded == \A r \in Ranks : dataOffset[r] <= DataLimit /\ metaOffset[r] <= MetaLimit

\* The space an operation of each descriptor takes in the two buffers at most.
DataOf == [d \in PlanDescriptors |-> InputBytes(d)]
MetaOf == [d \in PlanDescriptors |-> InputBytes(d) + MaxMetaPerSlot]

\* The space the operations of ledger l take, with w[d] for one of descriptor d.
Counted(l, w) == [d \in PlanDescriptors |-> Cardinality(OpsOf(l, d)) * w[d]]
Room(l, w) == SumOf(Counted(l, w), PlanDescriptors)

OnlyPlanned(l) == \A i \in 1 .. Len(l) : l[i].descriptor \in PlanDescriptors
AsPlanned(l) == \A i \in 1 .. Len(l) : l[i].bytes = InputBytes(l[i].descriptor)

\* The cursors are no further than the space taken by planned operations.
RoomOK(l, d, m) ==
  /\ OnlyPlanned(l)
  /\ AsPlanned(l) => /\ d <= DataStart + Room(l, DataOf)
                     /\ m <= MetaStart + Room(l, MetaOf)

\* The inductive invariant.
RoomInv == \A r \in Ranks : RoomOK(ledger[r], dataOffset[r], metaOffset[r])

\* The descriptors of the plan are finitely many numbers.
LEMMA PlanNumbers ==
  /\ IsFiniteSet(PlanDescriptors)
  /\ Cardinality(PlanDescriptors) \in Nat
  /\ \A d \in PlanDescriptors : d \in Nat /\ d \in Descriptors
  BY ArenaAssumption, FS_CardinalityType

\* Both bounds on the space of an operation are natural numbers.
LEMMA Weights ==
  \A d \in PlanDescriptors :
    /\ InputBytes(d) \in Nat
    /\ DataOf[d] = InputBytes(d) /\ DataOf[d] \in Nat
    /\ MetaOf[d] = InputBytes(d) + MaxMetaPerSlot /\ MetaOf[d] \in Nat
  <1>1. \A d \in PlanDescriptors : InputBytes(d) \in Nat
    BY PlanNumbers, ArenaAssumption DEF InputBytes
  <1>2. QED
    BY <1>1, ArenaAssumption DEF DataOf, MetaOf

\* The capacity for staged inputs is that of all planned operations.
LEMMA DataCapacityIs ==
  /\ SumOf(DataOf, PlanDescriptors) \in Int
  /\ DataCapacity = OpsPerDescriptor * SumOf(DataOf, PlanDescriptors)
  <1> DEFINE own == [d \in PlanDescriptors |-> d]
             s == SumOf(own, PlanDescriptors)
  <1>1. SumSet(PlanDescriptors) = s
    BY PlanNumbers, SumSetIs
  <1>2. \A d \in PlanDescriptors : own[d] \in Int
    BY PlanNumbers
  <1>3. s \in Int
    BY <1>2, PlanNumbers, SumAdd
  <1>4. BytesPerToken \in Nat /\ OpsPerDescriptor \in Nat
    BY ArenaAssumption
  <1>5. \A d \in PlanDescriptors : DataOf[d] = BytesPerToken * own[d]
    BY <1>4, PlanNumbers DEF DataOf, InputBytes
  <1>6. SumOf(DataOf, PlanDescriptors) = BytesPerToken * s
    <2> HIDE DEF own
    <2>1. QED
      BY <1>2, <1>4, <1>5, PlanNumbers, SumScales
  <1>7. \A a \in Int, b \in Int, c \in Int : a * b * c = a * (c * b) /\ c * b \in Int
    OBVIOUS
  <1> HIDE DEF s
  <1>8. QED
    BY <1>1, <1>3, <1>4, <1>6, <1>7 DEF DataCapacity

\* So is the capacity for signals and scratch areas.
LEMMA MetaCapacityIs ==
  /\ SumOf(MetaOf, PlanDescriptors) \in Int
  /\ MetaCapacity = OpsPerDescriptor * SumOf(MetaOf, PlanDescriptors)
  <1> DEFINE s == SumOf(DataOf, PlanDescriptors)
             n == Cardinality(PlanDescriptors)
  <1>1. MaxMetaPerSlot \in Nat /\ OpsPerDescriptor \in Nat /\ n \in Nat
    BY ArenaAssumption, PlanNumbers
  <1>2. \A d \in PlanDescriptors : DataOf[d] \in Int /\ MetaOf[d] = DataOf[d] + MaxMetaPerSlot
    BY Weights
  <1>3. SumOf(MetaOf, PlanDescriptors) = s + n * MaxMetaPerSlot
    BY <1>1, <1>2, PlanNumbers, SumRaised
  <1>4. s \in Int /\ DataCapacity = OpsPerDescriptor * s
    BY DataCapacityIs
  <1>5. \A a \in Int, b \in Int, c \in Int, t \in Int :
          a * t + a * b * c = a * (t + b * c) /\ t + b * c \in Int
    OBVIOUS
  <1> HIDE DEF s, n
  <1>6. MetaCapacity = OpsPerDescriptor * s + OpsPerDescriptor * n * MaxMetaPerSlot
    BY <1>4 DEF MetaCapacity, n
  <1>7. QED
    BY <1>1, <1>3, <1>4, <1>5, <1>6

\* Products of integers are integers.
LEMMA ProductInt == \A a \in Int, b \in Int : a * b \in Int
  OBVIOUS

\* A product of natural numbers grows with its first factor.
LEMMA ProductGrows ==
  ASSUME NEW a \in Nat, NEW b \in Nat, NEW w \in Nat, a <= b
  PROVE  a * w <= b * w /\ a * w \in Nat
  <1>1. (b - a) * w \in Nat
    BY SMT
  <1>2. (b - a) * w = b * w - a * w /\ a * w \in Nat /\ b * w \in Nat
    BY SMT
  <1>3. QED
    BY <1>1, <1>2

\* The limits do not lie before the starts.
LEMMA Limits ==
  /\ DataLimit \in Int /\ MetaLimit \in Int
  /\ DataStart <= DataLimit /\ MetaStart <= MetaLimit
  <1>1. ASSUME NEW w, \A d \in PlanDescriptors : w[d] \in Nat
        PROVE  SumOf(w, PlanDescriptors) \in Nat
    <2> DEFINE none == [d \in PlanDescriptors |-> 0 * w[d]]
    <2>1. \A d \in PlanDescriptors : none[d] = 0 /\ w[d] \in Int /\ none[d] <= w[d]
      BY <1>1
    <2>2. SumOf(none, PlanDescriptors) = 0 * SumOf(w, PlanDescriptors)
      BY <2>1, PlanNumbers, SumScales
    <2>3. SumOf(w, PlanDescriptors) \in Int
      BY <2>1, PlanNumbers, SumAdd
    <2>4. SumOf(none, PlanDescriptors) <= SumOf(w, PlanDescriptors)
      BY <2>1, PlanNumbers, SumGrows
    <2>5. QED
      BY <2>2, <2>3, <2>4
  <1>2. SumOf(DataOf, PlanDescriptors) \in Nat /\ SumOf(MetaOf, PlanDescriptors) \in Nat
    BY <1>1, Weights
  <1>3. \A a \in Nat, b \in Nat : a * b \in Nat
    OBVIOUS
  <1>4. DataCapacity \in Nat /\ MetaCapacity \in Nat
    BY <1>2, <1>3, DataCapacityIs, MetaCapacityIs, ArenaAssumption
  <1>5. QED
    BY <1>4, Starts DEF DataLimit, MetaLimit

\* Aligning a size that fits into whole alignments stays within them.
LEMMA AlignedWithin ==
  ASSUME NEW n \in Nat, NEW k \in Nat, n <= Alignment * k
  PROVE  Aligned(n) <= Alignment * k
  <1> DEFINE a == Alignment
             up == n + a - 1
             q == up \div a
  <1>1. a \in Nat /\ a > 0
    BY ArenaAssumption
  <1>2. a * k \in Nat
    BY <1>1
  <1>3. up \in Nat /\ up < a * k + a
    BY <1>1, <1>2
  <1>4. up = a * q + (up % a) /\ q \in Nat /\ up % a \in 0 .. a - 1
    BY <1>1, <1>3
  <1>5. a * q < a * k + a
    <2>1. a * q \in Nat
      BY <1>1, <1>4
    <2>2. QED
      BY <1>1, <1>2, <1>3, <1>4, <2>1
  <1>6. q <= k
    <2> SUFFICES ASSUME k + 1 <= q PROVE FALSE
      BY <1>4
    <2>1. (k + 1) * a <= q * a
      BY <1>1, <1>4, ProductGrows
    <2>2. (k + 1) * a = a * k + a /\ q * a = a * q /\ a * q \in Nat
      BY <1>1, <1>4
    <2>3. QED
      BY <1>1, <1>2, <1>5, <2>1, <2>2
  <1>7. q * a <= k * a
    BY <1>1, <1>4, <1>6, ProductGrows
  <1>8. k * a = a * k
    BY <1>1
  <1>9. QED
    BY <1>7, <1>8 DEF Aligned

\* A planned operation takes no more than the plan counts for it.
LEMMA PlannedSizes ==
  ASSUME SizesAligned, NEW d \in PlanDescriptors
  PROVE  /\ DataSize(InputBytes(d)) \in Nat /\ DataSize(InputBytes(d)) <= DataOf[d]
         /\ MetaSlotSize(InputBytes(d)) \in Nat /\ MetaSlotSize(InputBytes(d)) <= MetaOf[d]
  <1> DEFINE b == InputBytes(d)
             i == BytesPerToken \div Alignment
             j == MaxMetaPerSlot \div Alignment
  <1>1. /\ Alignment \in Nat /\ Alignment > 0
        /\ BytesPerToken \in Nat /\ MaxMetaPerSlot \in Nat /\ MetaSize \in Nat
        /\ MetaSize <= MaxMetaPerSlot
    BY ArenaAssumption, ArenaFits
  <1>2. d \in Nat /\ b \in Nat /\ b = d * BytesPerToken
    BY PlanNumbers, Weights DEF InputBytes
  <1>3. i \in Nat /\ BytesPerToken = Alignment * i
    BY <1>1 DEF SizesAligned
  <1>4. j \in Nat /\ MaxMetaPerSlot = Alignment * j
    BY <1>1 DEF SizesAligned
  <1> HIDE DEF i, j
  <1>5. d * i \in Nat /\ b = Alignment * (d * i)
    <2>1. \A x \in Nat, y \in Nat, z \in Nat : x * y \in Nat /\ x * (z * y) = z * (x * y)
      OBVIOUS
    <2>2. QED
      BY <1>1, <1>2, <1>3, <2>1
  <1>6. d * i + j \in Nat /\ b + MaxMetaPerSlot = Alignment * (d * i + j)
    <2>1. \A x \in Nat, y \in Nat, z \in Nat : z * x + z * y = z * (x + y)
      OBVIOUS
    <2>2. QED
      BY <1>1, <1>4, <1>5, <2>1
  <1> HIDE DEF b
  <1>7. Aligned(b) \in Nat /\ Aligned(b) <= b
    <2>1. Aligned(b) <= Alignment * (d * i)
      BY <1>2, <1>5, AlignedWithin
    <2>2. QED
      BY <1>2, <1>5, <2>1, AlignedGrows
  <1>8. Aligned(MetaSize + b) \in Nat /\ Aligned(MetaSize + b) <= b + MaxMetaPerSlot
    <2>1. MetaSize + b \in Nat /\ MetaSize + b <= Alignment * (d * i + j)
      BY <1>1, <1>2, <1>6
    <2>2. Aligned(MetaSize + b) <= Alignment * (d * i + j)
      BY <1>6, <2>1, AlignedWithin
    <2>3. QED
      BY <1>6, <2>1, <2>2, AlignedGrows
  <1>9. DataOf[d] = b /\ MetaOf[d] = b + MaxMetaPerSlot
    BY Weights DEF b
  <1>10. QED
    BY <1>7, <1>8, <1>9 DEF DataSize, MetaSlotSize, b

\* The operations of a descriptor are finitely many; appending one adds one.
LEMMA OpsNumbers ==
  ASSUME NEW l \in Seq(LedgerEntries), NEW d
  PROVE  IsFiniteSet(OpsOf(l, d)) /\ Cardinality(OpsOf(l, d)) \in Nat
  <1>1. OpsOf(l, d) \subseteq 1 .. Len(l) /\ Len(l) \in Nat
    BY DEF OpsOf
  <1>2. IsFiniteSet(1 .. Len(l))
    BY <1>1, FS_Interval
  <1>3. QED
    BY <1>1, <1>2, FS_Subset, FS_CardinalityType

LEMMA OneMoreOp ==
  ASSUME NEW l \in Seq(LedgerEntries), NEW e \in LedgerEntries, NEW d, e.descriptor = d
  PROVE  Cardinality(OpsOf(Append(l, e), d)) = Cardinality(OpsOf(l, d)) + 1
  <1>1. OpsOf(Append(l, e), d) = OpsOf(l, d) \cup {Len(l) + 1}
    <2> DEFINE m == Append(l, e)
    <2>1. /\ Len(m) = Len(l) + 1 /\ Len(l) \in Nat
          /\ \A i \in 1 .. Len(l) : m[i] = l[i]
          /\ m[Len(l) + 1] = e
      OBVIOUS
    <2> HIDE DEF m
    <2>2. OpsOf(m, d) = OpsOf(l, d) \cup {Len(l) + 1}
      BY <2>1 DEF OpsOf
    <2>3. QED
      BY <2>2 DEF m
  <1>2. Len(l) + 1 \notin OpsOf(l, d)
    BY DEF OpsOf
  <1>3. IsFiniteSet(OpsOf(l, d))
    BY OpsNumbers
  <1>4. Cardinality(OpsOf(l, d) \cup {Len(l) + 1}) = Cardinality(OpsOf(l, d)) + 1
    BY <1>2, <1>3, FS_AddElement
  <1>5. QED
    BY <1>1, <1>4

\* An operation of a planned descriptor takes its share of the room.
LEMMA RoomTaken ==
  ASSUME NEW l \in Seq(LedgerEntries), NEW e \in LedgerEntries, e.descriptor \in PlanDescriptors,
         NEW w, \A d \in PlanDescriptors : w[d] \in Nat
  PROVE  /\ Room(l, w) \in Int
         /\ Room(Append(l, e), w) = Room(l, w) + w[e.descriptor]
  <1> DEFINE c == e.descriptor
             f == Counted(l, w)
             g == Counted(Append(l, e), w)
  <1>1. \A d \in PlanDescriptors : f[d] \in Int
    <2> TAKE d \in PlanDescriptors
    <2>1. Cardinality(OpsOf(l, d)) \in Nat /\ w[d] \in Nat
      BY OpsNumbers
    <2>2. \A x \in Nat, y \in Nat : x * y \in Int
      OBVIOUS
    <2>3. QED
      BY <2>1, <2>2 DEF Counted
  <1>2. \A d \in PlanDescriptors \ {c} : g[d] = f[d]
    BY OpsOfAppend DEF Counted
  <1>3. g[c] = f[c] + w[c]
    <2>1. Cardinality(OpsOf(l, c)) \in Nat /\ w[c] \in Nat
      BY OpsNumbers
    <2>2. g[c] = (Cardinality(OpsOf(l, c)) + 1) * w[c] /\ f[c] = Cardinality(OpsOf(l, c)) * w[c]
      BY OneMoreOp DEF Counted
    <2>3. \A x \in Nat, y \in Nat : (x + 1) * y = x * y + y
      OBVIOUS
    <2>4. QED
      BY <2>1, <2>2, <2>3
  <1> HIDE DEF f, g
  <1>4. SumOf(g, PlanDescriptors) = SumOf(f, PlanDescriptors) + w[c]
    <2>1. c \in PlanDescriptors /\ w[c] \in Int
      OBVIOUS
    <2> HIDE DEF c
    <2>2. QED
      BY <1>1, <1>2, <1>3, <2>1, PlanNumbers, SumChanges
  <1>5. SumOf(f, PlanDescriptors) \in Int
    BY <1>1, PlanNumbers, SumAdd
  <1>6. QED
    BY <1>4, <1>5 DEF Room, f, g

\* While every descriptor has at most its planned operations and c has one to
\* come, there is room for that one.
LEMMA RoomLeft ==
  ASSUME NEW l \in Seq(LedgerEntries), NEW c \in PlanDescriptors,
         \A d \in PlanDescriptors : Cardinality(OpsOf(l, d)) <= OpsPerDescriptor,
         Cardinality(OpsOf(l, c)) < OpsPerDescriptor,
         NEW w, \A d \in PlanDescriptors : w[d] \in Nat
  PROVE  /\ Room(l, w) \in Int
         /\ Room(l, w) + w[c] <= OpsPerDescriptor * SumOf(w, PlanDescriptors)
  <1> DEFINE f == Counted(l, w)
             g == [d \in PlanDescriptors |->
                     (IF d = c THEN Cardinality(OpsOf(l, d)) + 1 ELSE Cardinality(OpsOf(l, d))) * w[d]]
             full == [d \in PlanDescriptors |-> OpsPerDescriptor * w[d]]
  <1>1. OpsPerDescriptor \in Nat
    BY ArenaAssumption
  <1>2. ASSUME NEW d \in PlanDescriptors
        PROVE  f[d] \in Int /\ g[d] \in Int /\ full[d] \in Int /\ g[d] <= full[d]
    <2> DEFINE n == IF d = c THEN Cardinality(OpsOf(l, d)) + 1 ELSE Cardinality(OpsOf(l, d))
    <2>1. Cardinality(OpsOf(l, d)) \in Nat /\ w[d] \in Nat
      BY OpsNumbers
    <2>2. n \in Nat /\ n <= OpsPerDescriptor
      BY <1>1, <2>1
    <2>3. f[d] = Cardinality(OpsOf(l, d)) * w[d] /\ g[d] = n * w[d] /\ full[d] = OpsPerDescriptor * w[d]
      BY DEF Counted
    <2> HIDE DEF n, f, g, full
    <2>4. n * w[d] <= OpsPerDescriptor * w[d] /\ n * w[d] \in Nat
      BY <1>1, <2>1, <2>2, ProductGrows
    <2>5. Cardinality(OpsOf(l, d)) * w[d] \in Nat /\ OpsPerDescriptor * w[d] \in Nat
      BY <1>1, <2>1, ProductGrows
    <2>6. QED
      BY <2>3, <2>4, <2>5
  <1>3. \A d \in PlanDescriptors \ {c} : g[d] = f[d]
    BY DEF Counted
  <1>4. g[c] = f[c] + w[c]
    <2>1. Cardinality(OpsOf(l, c)) \in Nat /\ w[c] \in Nat
      BY OpsNumbers
    <2>2. g[c] = (Cardinality(OpsOf(l, c)) + 1) * w[c] /\ f[c] = Cardinality(OpsOf(l, c)) * w[c]
      BY DEF Counted
    <2>3. \A x \in Nat, y \in Nat : (x + 1) * y = x * y + y
      OBVIOUS
    <2>4. QED
      BY <2>1, <2>2, <2>3
  <1>5. \A d \in PlanDescriptors : w[d] \in Int /\ full[d] = OpsPerDescriptor * w[d]
    OBVIOUS
  <1> HIDE DEF f, g, full
  <1>6. SumOf(g, PlanDescriptors) = SumOf(f, PlanDescriptors) + w[c]
    <2>1. w[c] \in Int /\ \A d \in PlanDescriptors : f[d] \in Int
      BY <1>2
    <2>2. QED
      BY <1>3, <1>4, <2>1, PlanNumbers, SumChanges
  <1>7. SumOf(g, PlanDescriptors) <= SumOf(full, PlanDescriptors)
    BY <1>2, PlanNumbers, SumGrows
  <1>8. SumOf(full, PlanDescriptors) = OpsPerDescriptor * SumOf(w, PlanDescriptors)
    BY <1>1, <1>5, PlanNumbers, SumScales
  <1>9. SumOf(f, PlanDescriptors) \in Int
    BY <1>2, PlanNumbers, SumAdd
  <1>10. QED
    BY <1>6, <1>7, <1>8, <1>9 DEF Room, f

\* The cursors stay inside the capacity of the plan.
LEMMA BoundedInvariance == Spec => []Bounded
  <1>1. Init => Bounded
    BY Limits DEF Init, Bounded
  <1>2. ArenaInv /\ Bounded /\ [Next]_vars => Bounded'
    <2> SUFFICES ASSUME ArenaInv, Bounded, [Next]_vars PROVE Bounded'
      OBVIOUS
    <2>1. CASE UNCHANGED arenaVars
      BY <2>1 DEF Bounded, arenaVars
    <2>2. ASSUME NEW r \in Ranks, NEW kind \in Kinds,
                 NEW bytes \in {InputBytes(d) : d \in Descriptors} \cup OtherBytes,
                 Launch(r, kind, bytes)
          PROVE  Bounded'
      <3>1. dataOffset \in [Ranks -> Nat] /\ metaOffset \in [Ranks -> Nat]
        BY DEF ArenaInv
      <3>2. QED
        BY <2>2, <3>1 DEF Launch, Fits, Bounded
    <2>3. QED
      BY <2>1, <2>2 DEF Next, RankStep, Enter, BodyRaises, LeaveBody, Broadcast, Conclude,
                        Finished, vars, arenaVars
  <1>3. QED
    BY <1>1, <1>2, ArenaInvariance, PTL DEF Spec

\* Every variable keeps its type; the cursors stay inside the capacity of the
\* plan.
THEOREM TypeCorrect == Spec => []TypeOK
  <1>1. ArenaInv /\ AgreeInv /\ Bounded => TypeOK
    <2> SUFFICES ASSUME ArenaInv, AgreeInv, Bounded PROVE TypeOK
      OBVIOUS
    <2>1. AgreeTypes
      BY DEF AgreeInv
    <2>2. dataOffset \in [Ranks -> DataStart .. DataLimit]
      BY Starts, Limits DEF ArenaInv, ArenaOK, Bounded
    <2>3. metaOffset \in [Ranks -> MetaStart .. MetaLimit]
      BY Starts, Limits DEF ArenaInv, ArenaOK, Bounded
    <2>4. QED
      BY <2>1, <2>2, <2>3 DEF AgreeTypes, TypeOK, Payloads
  <1>2. QED
    BY <1>1, ArenaInvariance, AgreeInvariance, BoundedInvariance, PTL

\* Without operations no room is taken.
LEMMA NoRoomTaken ==
  ASSUME NEW w, \A d \in PlanDescriptors : w[d] \in Nat
  PROVE  Room(<<>>, w) = 0
  <1> DEFINE f == Counted(<<>>, w)
             z == [d \in PlanDescriptors |-> 0]
  <1>1. \A d \in PlanDescriptors : OpsOf(<<>>, d) = {}
    BY DEF OpsOf
  <1>2. \A d \in PlanDescriptors : f[d] = 0
    <2>1. Cardinality({}) = 0
      BY FS_EmptySet
    <2>2. \A y \in Nat : 0 * y = 0
      OBVIOUS
    <2>3. QED
      BY <1>1, <2>1, <2>2 DEF Counted
  <1>3. \A d \in PlanDescriptors : f[d] \in Int /\ f[d] = 0 * f[d]
    BY <1>2
  <1> HIDE DEF f
  <1>4. SumOf(f, PlanDescriptors) = 0 * SumOf(f, PlanDescriptors)
    BY <1>3, PlanNumbers, SumScales
  <1>5. SumOf(f, PlanDescriptors) \in Int
    BY <1>3, PlanNumbers, SumAdd
  <1>6. QED
    BY <1>4, <1>5 DEF Room, f

\* A cursor inside the taken room stays inside it with the share of one more.
LEMMA GrownWithin ==
  ASSUME NEW start \in Nat, NEW cursor \in Nat, NEW size \in Nat, NEW room \in Int,
         NEW share \in Nat, cursor <= start + room, size <= share
  PROVE  cursor + size <= start + (room + share)
  OBVIOUS

\* An operation of a planned descriptor keeps the cursors within the room.
LEMMA LaunchKeepsRoom ==
  ASSUME SizesAligned, ArenaInv, RoomInv, NEW r \in Ranks, NEW kind \in Kinds,
         NEW bytes \in Nat, AgreeTypes, Launch(r, kind, bytes)
  PROVE  RoomInv'
  <1> DEFINE e == Entry(r, kind, bytes)
             l == ledger[r]
             d == dataOffset[r]
             m == metaOffset[r]
  <1>1. /\ l \in Seq(LedgerEntries) /\ d \in Nat /\ m \in Nat
        /\ RoomOK(l, d, m)
    BY DEF ArenaInv, RoomInv
  <1>2. DataSize(bytes) \in Nat /\ MetaSlotSize(bytes) \in Nat
    BY ArenaAssumption, AlignedGrows DEF DataSize, MetaSlotSize
  <1>3. e \in LedgerEntries /\ e.descriptor \in PlanDescriptors /\ e.bytes = bytes
    BY <1>1, <1>2, PlanNumbers DEF Entry, LedgerEntries, Launch
  <1>4. /\ ledger' = [ledger EXCEPT ![r] = Append(l, e)]
        /\ dataOffset' = [dataOffset EXCEPT ![r] = d + DataSize(bytes)]
        /\ metaOffset' = [metaOffset EXCEPT ![r] = m + MetaSlotSize(bytes)]
    BY DEF Launch
  <1> HIDE DEF e
  <1>5. RoomOK(Append(l, e), d + DataSize(bytes), m + MetaSlotSize(bytes))
    <2> DEFINE k == Append(l, e)
    <2>1. /\ Len(k) = Len(l) + 1 /\ Len(l) \in Nat
          /\ \A i \in 1 .. Len(l) : k[i] = l[i]
          /\ k[Len(l) + 1] = e
      BY <1>1, <1>3
    <2> HIDE DEF k
    <2>2. OnlyPlanned(k)
      <3>1. \A i \in 1 .. Len(l) : k[i].descriptor \in PlanDescriptors
        BY <1>1, <2>1 DEF OnlyPlanned, RoomOK
      <3>2. \A i \in 1 .. Len(k) : i \in 1 .. Len(l) \/ i = Len(l) + 1
        BY <2>1
      <3>3. QED
        BY <1>3, <2>1, <3>1, <3>2 DEF OnlyPlanned
    <2>3. ASSUME AsPlanned(k)
          PROVE  /\ d + DataSize(bytes) <= DataStart + Room(k, DataOf)
                 /\ m + MetaSlotSize(bytes) <= MetaStart + Room(k, MetaOf)
      <3> DEFINE c == e.descriptor
      <3>1. AsPlanned(l) /\ bytes = InputBytes(c)
        BY <1>3, <2>1, <2>3 DEF AsPlanned
      <3>2. /\ d <= DataStart + Room(l, DataOf)
            /\ m <= MetaStart + Room(l, MetaOf)
        BY <1>1, <3>1 DEF RoomOK
      <3>3. \A x \in PlanDescriptors : DataOf[x] \in Nat /\ MetaOf[x] \in Nat
        BY Weights
      <3>4. Room(l, DataOf) \in Int /\ Room(k, DataOf) = Room(l, DataOf) + DataOf[c]
        BY <1>1, <1>3, <3>3, RoomTaken DEF k
      <3>5. Room(l, MetaOf) \in Int /\ Room(k, MetaOf) = Room(l, MetaOf) + MetaOf[c]
        BY <1>1, <1>3, <3>3, RoomTaken DEF k
      <3>6. DataSize(bytes) <= DataOf[c] /\ MetaSlotSize(bytes) <= MetaOf[c]
        BY <1>3, <3>1, PlannedSizes
      <3>7. DataOf[c] \in Nat /\ MetaOf[c] \in Nat
        BY <1>3, <3>3
      <3> HIDE DEF c, l, d, m
      <3>8. d + DataSize(bytes) <= DataStart + Room(k, DataOf)
        <4>1. d \in Nat /\ DataSize(bytes) \in Nat /\ DataStart \in Nat
          BY <1>1, <1>2, Starts
        <4>2. QED
          BY <3>2, <3>4, <3>6, <3>7, <4>1, GrownWithin
      <3>9. m + MetaSlotSize(bytes) <= MetaStart + Room(k, MetaOf)
        <4>1. m \in Nat /\ MetaSlotSize(bytes) \in Nat /\ MetaStart \in Nat
          BY <1>1, <1>2, Starts
        <4>2. QED
          BY <3>2, <3>5, <3>6, <3>7, <4>1, GrownWithin
      <3>10. QED
        BY <3>8, <3>9
    <2>4. QED
      BY <2>2, <2>3 DEF RoomOK, k
  <1>6. ASSUME NEW q \in Ranks PROVE RoomOK(ledger'[q], dataOffset'[q], metaOffset'[q])
    <2>1. CASE q = r
      BY <1>4, <1>5, <2>1 DEF ArenaInv
    <2>2. CASE q # r
      BY <1>4, <2>2 DEF ArenaInv, RoomInv
    <2>3. QED
      BY <2>1, <2>2
  <1>7. QED
    BY <1>6 DEF RoomInv

\* With sizes the alignment divides, the cursors stay within the room.
LEMMA RoomInvariance == SizesAligned => (Spec => []RoomInv)
  <1> SUFFICES ASSUME SizesAligned PROVE Spec => []RoomInv
    OBVIOUS
  <1>1. Init => RoomInv
    <2> SUFFICES ASSUME Init, NEW r \in Ranks PROVE RoomOK(<<>>, DataStart, MetaStart)
      BY DEF Init, RoomInv
    <2>1. Room(<<>>, DataOf) = 0 /\ Room(<<>>, MetaOf) = 0
      BY NoRoomTaken, Weights
    <2>2. QED
      BY <2>1, Starts DEF RoomOK, OnlyPlanned
  <1>2. ArenaInv /\ AgreeInv /\ RoomInv /\ [Next]_vars => RoomInv'
    <2> SUFFICES ASSUME ArenaInv, AgreeInv, RoomInv, [Next]_vars PROVE RoomInv'
      OBVIOUS
    <2>1. CASE UNCHANGED arenaVars
      BY <2>1 DEF RoomInv, arenaVars
    <2>2. ASSUME NEW r \in Ranks, NEW kind \in Kinds,
                 NEW bytes \in {InputBytes(d) : d \in Descriptors} \cup OtherBytes,
                 Launch(r, kind, bytes)
          PROVE  RoomInv'
      BY <2>2, InputSizes, LaunchKeepsRoom DEF AgreeInv
    <2>3. QED
      BY <2>1, <2>2 DEF Next, RankStep, Enter, BodyRaises, LeaveBody, Broadcast, Conclude,
                        Finished, vars, arenaVars
  <1>3. QED
    BY <1>1, <1>2, ArenaInvariance, AgreeInvariance, PTL DEF Spec

\* As long as a rank has captured only planned operations, the next planned one
\* finds room in both buffers.  It needs what policy.py says of the sizes: the
\* capacity of the plan has no room for the padding of unaligned slots.
THEOREM PlannedOpsFitHolds == SizesAligned => (Spec => []PlannedOpsFit)
  <1> SUFFICES ASSUME SizesAligned PROVE Spec => []PlannedOpsFit
    OBVIOUS
  <1>1. ArenaInv /\ RoomInv => PlannedOpsFit
    <2> SUFFICES ASSUME ArenaInv, RoomInv, NEW r \in Ranks,
                        NEW l, l = ledger[r], NEW d, d = Descriptor(r),
                        \A i \in 1 .. Len(l) :
                          /\ l[i].bytes = InputBytes(l[i].descriptor)
                          /\ Cardinality(OpsOf(l, l[i].descriptor)) <= OpsPerDescriptor,
                        d \in PlanDescriptors,
                        Cardinality(OpsOf(l, d)) < OpsPerDescriptor
                 PROVE  Fits(r, InputBytes(d))
      BY DEF PlannedOpsFit
    <2>1. /\ l \in Seq(LedgerEntries)
          /\ dataOffset[r] \in Nat /\ metaOffset[r] \in Nat
          /\ RoomOK(l, dataOffset[r], metaOffset[r])
      BY DEF ArenaInv, RoomInv
    <2>2. /\ dataOffset[r] <= DataStart + Room(l, DataOf)
          /\ metaOffset[r] <= MetaStart + Room(l, MetaOf)
      BY <2>1 DEF RoomOK, AsPlanned
    <2>3. ASSUME NEW c \in PlanDescriptors
          PROVE  Cardinality(OpsOf(l, c)) <= OpsPerDescriptor
      <3>1. CASE OpsOf(l, c) = {}
        BY <3>1, FS_EmptySet, ArenaAssumption
      <3>2. CASE OpsOf(l, c) # {}
        BY <3>2 DEF OpsOf
      <3>3. QED
        BY <3>1, <3>2
    <2>4. \A c \in PlanDescriptors : DataOf[c] \in Nat /\ MetaOf[c] \in Nat
      BY Weights
    <2>5. /\ Room(l, DataOf) \in Int
          /\ Room(l, DataOf) + DataOf[d] <= DataCapacity /\ DataCapacity \in Int
      <3>1. /\ Room(l, DataOf) \in Int
            /\ Room(l, DataOf) + DataOf[d] <= OpsPerDescriptor * SumOf(DataOf, PlanDescriptors)
        BY <2>1, <2>3, <2>4, RoomLeft
      <3>2. DataCapacity \in Int
        BY ProductInt, DataCapacityIs, ArenaAssumption
      <3>3. QED
        BY <3>1, <3>2, DataCapacityIs
    <2>6. /\ Room(l, MetaOf) \in Int
          /\ Room(l, MetaOf) + MetaOf[d] <= MetaCapacity /\ MetaCapacity \in Int
      <3>1. /\ Room(l, MetaOf) \in Int
            /\ Room(l, MetaOf) + MetaOf[d] <= OpsPerDescriptor * SumOf(MetaOf, PlanDescriptors)
        BY <2>1, <2>3, <2>4, RoomLeft
      <3>2. MetaCapacity \in Int
        BY ProductInt, MetaCapacityIs, ArenaAssumption
      <3>3. QED
        BY <3>1, <3>2, MetaCapacityIs
    <2>7. /\ DataSize(InputBytes(d)) \in Nat /\ DataSize(InputBytes(d)) <= DataOf[d]
          /\ MetaSlotSize(InputBytes(d)) \in Nat /\ MetaSlotSize(InputBytes(d)) <= MetaOf[d]
      BY PlannedSizes
    <2>8. DataOf[d] \in Nat /\ MetaOf[d] \in Nat
      BY <2>4
    <2>9. dataOffset[r] + DataSize(InputBytes(d)) <= DataLimit
      BY <2>1, <2>2, <2>5, <2>7, <2>8, Starts DEF DataLimit
    <2>10. metaOffset[r] + MetaSlotSize(InputBytes(d)) <= MetaLimit
      BY <2>1, <2>2, <2>6, <2>7, <2>8, Starts DEF MetaLimit
    <2>11. QED
      BY <2>9, <2>10 DEF Fits
  <1>2. QED
    BY <1>1, ArenaInvariance, RoomInvariance, PTL
=============================================================================
