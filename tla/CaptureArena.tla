---------------------------- MODULE CaptureArena ----------------------------
(***************************************************************************)
(* Graph capture with the staging arena of _MusaJitCustomAllreduceImpl.    *)
(* The runner opens one capture context per graph size.  Inside it every   *)
(* custom collective takes a fresh slice of the staging buffer and of the  *)
(* signal allocation and is entered in a ledger; when the context closes,  *)
(* the ranks broadcast their ledgers to each other and accept the graph    *)
(* only together.  A rank may fail anywhere inside the context.            *)
(*                                                                         *)
(* A batch descriptor is named by its number of tokens.                    *)
(***************************************************************************)
EXTENDS Integers, Sequences, FiniteSetsExt

CONSTANTS
  RankCount,            \* world_size
  Descriptors,          \* batch descriptors the runner may capture
  PlanDescriptors,      \* plan.capture_descriptors
  OpsPerDescriptor,     \* plan.car_ops_per_descriptor
  BytesPerToken,        \* plan.bytes_per_token
  EagerReserve,         \* plan.eager_reserve_bytes
  MetaSize,             \* sizeof(Signal), checked against max_meta_bytes_per_slot
  MaxMetaPerSlot,       \* plan.max_meta_bytes_per_slot
  Alignment,            \* _GRAPH_STAGING_ALIGNMENT
  Kinds,                \* op_kind: "allreduce", "fused_rmsnorm", ...
  OtherBytes,           \* input sizes no planned operation has
  MaxContexts,          \* bound: capture contexts in a run
  MaxOpsPerContext      \* bound: custom collectives in one context

ASSUME ArenaAssumption ==
  /\ RankCount \in Nat \ {0}
  /\ Descriptors \subseteq Nat \ {0}
  /\ PlanDescriptors \subseteq Descriptors /\ IsFiniteSet(PlanDescriptors)
  /\ OpsPerDescriptor \in Nat /\ BytesPerToken \in Nat
  /\ EagerReserve \in Nat /\ MetaSize \in Nat /\ MaxMetaPerSlot \in Nat
  /\ Alignment \in Nat \ {0}
  /\ OtherBytes \subseteq Nat
  /\ MaxContexts \in Nat /\ MaxOpsPerContext \in Nat

Ranks == 0 .. RankCount - 1
Contexts == 1 .. MaxContexts

\* _align_graph_staging_size
Aligned(size) == ((size + Alignment - 1) \div Alignment) * Alignment

InputBytes(d) == d * BytesPerToken

\* What the plan says of its sizes: inputs and the bound on the signals are
\* multiples of the alignment, so aligning loses nothing.
SizesAligned == BytesPerToken % Alignment = 0 /\ MaxMetaPerSlot % Alignment = 0

\* The capacities of deepseek_v4_mtp_car_graph_staging_plan.
DataCapacity ==
  OpsPerDescriptor * SumSet(PlanDescriptors) * BytesPerToken
\* Faulty variant, used only to show that the properties can fail: a capacity
\* without room for the signals of the slots.
MetaCapacityNoSignals == DataCapacity
MetaCapacity ==
  DataCapacity + OpsPerDescriptor * Cardinality(PlanDescriptors) * MaxMetaPerSlot

\* _configure_graph_staging_arena, when the arena fits the buffers.
DataStart == EagerReserve
\* Faulty variant: the slots start where the scratch area of an eager
\* operation can still reach.
MetaStartAtReserve == Aligned(EagerReserve)
MetaStart == Aligned(MetaSize + EagerReserve)
DataLimit == DataStart + DataCapacity
MetaLimit == MetaStart + MetaCapacity

\* communicator_buffer_bytes, the size of both buffers; the code rounds it up to
\* whole 4 MiB, which only adds room.
BufferBytes ==
  LET data == EagerReserve + DataCapacity
      meta == EagerReserve + MaxMetaPerSlot + MetaCapacity
  IN IF data > meta THEN data ELSE meta

\* _configure_graph_staging_arena gives the arena up, and captures use the
\* standard collective, unless it fits.
ASSUME ArenaFits ==
  /\ MetaSize <= MaxMetaPerSlot
  /\ DataLimit <= BufferBytes
  /\ MetaLimit <= BufferBytes

\* should_custom_ar and the size check of the launcher: an operation outside
\* the arena stages its input at offset 0 and reduces behind the Signal there.
EagerAccepts(bytes) == bytes <= EagerReserve

VARIABLES
  schedule,             \* the descriptor of each capture context, same on all ranks
  context,              \* context[r]: capture contexts rank r has opened
  pc,                   \* pc[r]: "idle", "body", "exchange"
  bodyError,            \* bodyError[r]: the body of the open context raised
  ledger,               \* _graph_staging_ledger
  dataOffset,           \* _graph_staging_data_offset
  metaOffset,           \* _graph_staging_meta_offset
  ledgerStart,          \* capture_ledger_start
  captured,             \* _graph_staging_captured_descriptors
  sealed,               \* _graph_staging_capture_sealed
  posted,               \* posted[k][q]: what rank q broadcast in context k
  gathered,             \* gathered[r]: broadcasts rank r has been through
  outcome               \* outcome[r][k]: how context k ended on rank r

vars == <<schedule, context, pc, bodyError, ledger, dataOffset, metaOffset,
          ledgerStart, captured, sealed, posted, gathered, outcome>>
arenaVars == <<ledger, dataOffset, metaOffset>>
verdictVars == <<captured, sealed, outcome>>

NoPayload == [success |-> FALSE, ledger |-> <<>>, present |-> FALSE]

Init ==
  /\ schedule \in [Contexts -> Descriptors]
  /\ context = [r \in Ranks |-> 0]
  /\ pc = [r \in Ranks |-> "idle"]
  /\ bodyError = [r \in Ranks |-> FALSE]
  /\ ledger = [r \in Ranks |-> <<>>]
  /\ dataOffset = [r \in Ranks |-> DataStart]
  /\ metaOffset = [r \in Ranks |-> MetaStart]
  /\ ledgerStart = [r \in Ranks |-> 0]
  /\ captured = [r \in Ranks |-> {}]
  /\ sealed = [r \in Ranks |-> FALSE]
  /\ posted = [k \in Contexts |-> [q \in Ranks |-> NoPayload]]
  /\ gathered = [r \in Ranks |-> 0]
  /\ outcome = [r \in Ranks |-> [k \in Contexts |-> "open"]]

----------------------------------------------------------------------------
Descriptor(r) == schedule[context[r]]

\* Faulty variant: every context starts the arena again.
EnterFresh(r) ==
  /\ pc[r] = "idle" /\ context[r] < MaxContexts
  /\ context' = [context EXCEPT ![r] = @ + 1]
  /\ pc' = [pc EXCEPT ![r] = "body"]
  /\ ledgerStart' = [ledgerStart EXCEPT ![r] = Len(ledger[r])]
  /\ dataOffset' = [dataOffset EXCEPT ![r] = DataStart]
  /\ metaOffset' = [metaOffset EXCEPT ![r] = MetaStart]
  /\ UNCHANGED <<schedule, bodyError, ledger, posted, gathered, verdictVars>>

\* capture() up to its yield; cursor and ledger are kept from earlier contexts.
Enter(r) ==
  /\ pc[r] = "idle" /\ context[r] < MaxContexts
  /\ context' = [context EXCEPT ![r] = @ + 1]
  /\ pc' = [pc EXCEPT ![r] = "body"]
  /\ ledgerStart' = [ledgerStart EXCEPT ![r] = Len(ledger[r])]
  /\ UNCHANGED <<schedule, bodyError, arenaVars, posted, gathered, verdictVars>>

DataSize(bytes) == Aligned(bytes)
MetaSlotSize(bytes) == Aligned(MetaSize + bytes)

Fits(r, bytes) ==
  /\ dataOffset[r] + DataSize(bytes) <= DataLimit
  /\ metaOffset[r] + MetaSlotSize(bytes) <= MetaLimit

Entry(r, kind, bytes) ==
  [descriptor |-> Descriptor(r), kind |-> kind, bytes |-> bytes,
   data |-> dataOffset[r], dataSize |-> DataSize(bytes),
   meta |-> metaOffset[r], metaSize |-> MetaSlotSize(bytes)]

InBody(r) == pc[r] = "body" /\ ~bodyError[r]

\* Faulty variants of Launch: a descriptor may be captured again; and no limit.
LaunchAgain(r, kind, bytes) ==
  /\ InBody(r)
  /\ Len(ledger[r]) - ledgerStart[r] < MaxOpsPerContext
  /\ Descriptor(r) \in PlanDescriptors
  /\ Fits(r, bytes)
  /\ dataOffset' = [dataOffset EXCEPT ![r] = @ + DataSize(bytes)]
  /\ metaOffset' = [metaOffset EXCEPT ![r] = @ + MetaSlotSize(bytes)]
  /\ ledger' = [ledger EXCEPT ![r] = Append(@, Entry(r, kind, bytes))]
  /\ UNCHANGED <<schedule, context, pc, bodyError, ledgerStart, posted, gathered, verdictVars>>

LaunchUnchecked(r, kind, bytes) ==
  /\ InBody(r)
  /\ Len(ledger[r]) - ledgerStart[r] < MaxOpsPerContext
  /\ Descriptor(r) \in PlanDescriptors \ captured[r]
  /\ dataOffset' = [dataOffset EXCEPT ![r] = @ + DataSize(bytes)]
  /\ metaOffset' = [metaOffset EXCEPT ![r] = @ + MetaSlotSize(bytes)]
  /\ ledger' = [ledger EXCEPT ![r] = Append(@, Entry(r, kind, bytes))]
  /\ UNCHANGED <<schedule, context, pc, bodyError, ledgerStart, posted, gathered, verdictVars>>

\* _graph_staging_launch_args while the stream is being captured: the operation
\* gets the next slice of both buffers.  A descriptor outside the plan goes to
\* the standard collective and never comes here.
Launch(r, kind, bytes) ==
  /\ InBody(r)
  /\ Len(ledger[r]) - ledgerStart[r] < MaxOpsPerContext
  /\ Descriptor(r) \in PlanDescriptors \ captured[r]
  /\ Fits(r, bytes)
  /\ dataOffset' = [dataOffset EXCEPT ![r] = @ + DataSize(bytes)]
  /\ metaOffset' = [metaOffset EXCEPT ![r] = @ + MetaSlotSize(bytes)]
  /\ ledger' = [ledger EXCEPT ![r] = Append(@, Entry(r, kind, bytes))]
  /\ UNCHANGED <<schedule, context, pc, bodyError, ledgerStart, posted, gathered, verdictVars>>

\* The body raises: the descriptor was captured before, the arena is exhausted,
\* or anything else in the model's forward pass on this rank.  Slots already
\* handed out stay in the ledger.
BodyRaises(r) ==
  /\ InBody(r)
  /\ bodyError' = [bodyError EXCEPT ![r] = TRUE]
  /\ UNCHANGED <<schedule, context, pc, arenaVars, ledgerStart, posted, gathered, verdictVars>>

\* The descriptors whose operations have been entered from position i on.
Entered(l, i) == {l[j].descriptor : j \in i .. Len(l)}
OpsOf(l, d) == {i \in 1 .. Len(l) : l[i].descriptor = d}

\* _graph_staging_manifest_error finds nothing.  The byte totals it compares
\* are sums over these entries, so they agree when every entry does.
ManifestOK(l) ==
  \A d \in Entered(l, 1) :
    /\ d \in PlanDescriptors
    /\ Cardinality(OpsOf(l, d)) = OpsPerDescriptor
    /\ \A i \in OpsOf(l, d) : l[i].bytes = InputBytes(d)
    /\ OpsPerDescriptor * Aligned(InputBytes(d)) = Aligned(OpsPerDescriptor * InputBytes(d))

\* Faulty variant: a rank whose body raised leaves without the exchange.
LeaveBodyEarly(r) ==
  /\ pc[r] = "body"
  /\ IF bodyError[r]
     THEN /\ pc' = [pc EXCEPT ![r] = "idle"]
          /\ outcome' = [outcome EXCEPT ![r][context[r]] = "raised"]
          /\ bodyError' = [bodyError EXCEPT ![r] = FALSE]
     ELSE /\ pc' = [pc EXCEPT ![r] = "exchange"]
          /\ UNCHANGED <<outcome, bodyError>>
  /\ UNCHANGED <<schedule, context, arenaVars, ledgerStart, captured, sealed,
                 posted, gathered>>

\* The finally block of capture(): with or without an error the rank goes into
\* the exchange.
LeaveBody(r) ==
  /\ pc[r] = "body"
  /\ pc' = [pc EXCEPT ![r] = "exchange"]
  /\ UNCHANGED <<schedule, context, bodyError, arenaVars, ledgerStart, verdictVars,
                 posted, gathered>>

\* One broadcast_object_list of _validate_graph_staging_capture, the roots in
\* rank order: the root posts its payload, the others take it when it is there.
Broadcast(r) ==
  LET root == gathered[r] IN
  /\ pc[r] = "exchange" /\ root < RankCount
  /\ IF root = r
     THEN posted' = [posted EXCEPT ![context[r]][r] =
                       [success |-> ~bodyError[r] /\ ManifestOK(ledger[r]),
                        ledger |-> ledger[r], present |-> TRUE]]
     ELSE posted[context[r]][root].present /\ UNCHANGED posted
  /\ gathered' = [gathered EXCEPT ![r] = @ + 1]
  /\ UNCHANGED <<schedule, context, pc, bodyError, arenaVars, ledgerStart, verdictVars>>

\* Faulty variants: the ledger is compared with rank 0 only; or not at all.
ConsensusRankZero(r) ==
  /\ \A q \in Ranks : posted[context[r]][q].success
  /\ posted[context[r]][0].ledger = ledger[r]
ConsensusNoLedger(r) ==
  \A q \in Ranks : posted[context[r]][q].success

\* No rank failed and every ledger is equal to the local one.
Consensus(r) ==
  \A q \in Ranks :
    /\ posted[context[r]][q].success
    /\ posted[context[r]][q].ledger = ledger[r]

\* The end of capture(): the context is accepted and its descriptors are marked
\* captured, or it raises.
Conclude(r) ==
  LET accepted == Consensus(r)
      new == Entered(ledger[r], ledgerStart[r] + 1)
      all == captured[r] \cup new
  IN
  /\ pc[r] = "exchange" /\ gathered[r] = RankCount
  /\ pc' = [pc EXCEPT ![r] = "idle"]
  /\ outcome' = [outcome EXCEPT ![r][context[r]] = IF accepted THEN "accepted" ELSE "raised"]
  /\ captured' = IF accepted THEN [captured EXCEPT ![r] = all] ELSE captured
  /\ sealed' = IF accepted THEN [sealed EXCEPT ![r] = PlanDescriptors \subseteq all] ELSE sealed
  /\ bodyError' = [bodyError EXCEPT ![r] = FALSE]
  /\ gathered' = [gathered EXCEPT ![r] = 0]
  /\ UNCHANGED <<schedule, context, arenaVars, ledgerStart, posted>>

Finished ==
  /\ \A r \in Ranks : pc[r] = "idle" /\ context[r] = MaxContexts
  /\ UNCHANGED vars

RankStep(r) ==
  \/ Enter(r) \/ BodyRaises(r) \/ LeaveBody(r) \/ Broadcast(r) \/ Conclude(r)
  \/ \E kind \in Kinds, bytes \in {InputBytes(d) : d \in Descriptors} \cup OtherBytes :
       Launch(r, kind, bytes)

Next == (\E r \in Ranks : RankStep(r)) \/ Finished

Spec == Init /\ [][Next]_vars

\* Every rank's process keeps running: the body of a capture ends (it runs no
\* collective) and a blocked broadcast resumes when its root has posted.
Fairness == \A r \in Ranks : WF_vars(RankStep(r))

FairSpec == Spec /\ Fairness

----------------------------------------------------------------------------
LedgerEntries ==
  [descriptor : Descriptors, kind : Kinds, bytes : Nat,
   data : Nat, dataSize : Nat, meta : Nat, metaSize : Nat]

\* Types; the cursors stay inside the capacity of the plan.
TypeOK ==
  /\ schedule \in [Contexts -> Descriptors]
  /\ context \in [Ranks -> 0 .. MaxContexts]
  /\ pc \in [Ranks -> {"idle", "body", "exchange"}]
  /\ \A r \in Ranks : pc[r] # "idle" => context[r] \in Contexts
  /\ bodyError \in [Ranks -> BOOLEAN]
  /\ ledger \in [Ranks -> Seq(LedgerEntries)]
  /\ dataOffset \in [Ranks -> DataStart .. DataLimit]
  /\ metaOffset \in [Ranks -> MetaStart .. MetaLimit]
  /\ ledgerStart \in [Ranks -> Nat]
  /\ captured \in [Ranks -> SUBSET Descriptors]
  /\ sealed \in [Ranks -> BOOLEAN]
  /\ posted \in [Contexts -> [Ranks ->
       [success : BOOLEAN, ledger : Seq(LedgerEntries), present : BOOLEAN]]]
  /\ gathered \in [Ranks -> 0 .. RankCount]
  /\ outcome \in [Ranks -> [Contexts -> {"open", "accepted", "raised"}]]

Apart(start1, size1, start2, size2) ==
  start1 + size1 <= start2 \/ start2 + size2 <= start1

\* Two operations captured on a rank never share a byte of the staging buffer
\* or of the signal allocation, whatever contexts they come from and however
\* those ended: a replayed graph needs no ordering against any other.
SlotsApart ==
  \A r \in Ranks : \A i, j \in 1 .. Len(ledger[r]) :
    i # j =>
      LET e == ledger[r][i]
          f == ledger[r][j]
      IN /\ Apart(e.data, e.dataSize, f.data, f.dataSize)
         /\ Apart(e.meta, e.metaSize, f.meta, f.metaSize)

\* Nothing an eager operation touches (its staged input, the Signal at the
\* start and the scratch area behind it) lies in a captured slot, and every
\* slot lies inside the capacity of the plan.
EagerApart ==
  \A r \in Ranks : \A i \in 1 .. Len(ledger[r]) :
    LET e == ledger[r][i] IN
    /\ \A bytes \in 0 .. BufferBytes :
         EagerAccepts(bytes) => bytes <= e.data /\ MetaSize + bytes <= e.meta
    /\ e.data + e.dataSize <= DataLimit
    /\ e.meta + e.metaSize <= MetaLimit

\* All ranks end a context the same way: none keeps a graph whose peers gave
\* theirs up.
OutcomesAgree ==
  \A r, q \in Ranks, k \in Contexts :
    "open" \in {outcome[r][k], outcome[q][k]} \/ outcome[r][k] = outcome[q][k]

\* The entries of descriptor d in ledger l, at their positions.
OpsAt(l, d) == [i \in OpsOf(l, d) |-> l[i]]

\* A descriptor two ranks hold captured has, operation by operation, the same
\* kind and the same slots on both: the kernels of its graph read the peers'
\* buffers at their own offsets.
CapturedSlotsMatch ==
  \A r, q \in Ranks : \A d \in captured[r] \cap captured[q] :
    OpsAt(ledger[r], d) = OpsAt(ledger[q], d)

\* A captured descriptor has exactly the planned operations, for good: no later
\* context adds an operation to it, and a failed one never marks it.  Operations a
\* failed context left in the ledger count, so two contexts may complete it together.
CapturedComplete ==
  \A r \in Ranks : \A d \in captured[r] :
    /\ d \in PlanDescriptors
    /\ Cardinality(OpsOf(ledger[r], d)) = OpsPerDescriptor
    /\ sealed[r] => captured[r] = PlanDescriptors

\* As long as a rank has captured only what the plan foresees, the next planned
\* operation finds room: capture never fails for want of capacity.
PlannedOpsFit ==
  \A r \in Ranks :
    LET l == ledger[r]
        d == Descriptor(r)
        asPlanned ==
          \A i \in 1 .. Len(l) :
            /\ l[i].bytes = InputBytes(l[i].descriptor)
            /\ Cardinality(OpsOf(l, l[i].descriptor)) <= OpsPerDescriptor
    IN (/\ InBody(r) /\ asPlanned /\ d \in PlanDescriptors
        /\ Cardinality(OpsOf(l, d)) < OpsPerDescriptor)
         => Fits(r, InputBytes(d))

\* Whatever fails inside a context, every rank gets out of every context.
EveryContextEnds == \A r \in Ranks, k \in Contexts : <>(outcome[r][k] # "open")

============================================================================
