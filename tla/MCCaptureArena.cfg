SPECIFICATION FairSpec
CONSTANTS
  RankCount = 2
  Descriptors = {1, 2}
  PlanDescriptors = {1, 2}
  OpsPerDescriptor = 2
  BytesPerToken = 2
  EagerReserve = 4
  MetaSize = 3
  MaxMetaPerSlot = 4
  Alignment = 2
  Kinds = {"allreduce"}
  OtherBytes = {}
  MaxContexts = 2
  MaxOpsPerContext = 2
INVARIANTS TypeOK SlotsApart EagerApart PlannedOpsFit CapturedComplete OutcomesAgree CapturedSlotsMatch
PROPERTY EveryContextEnds
