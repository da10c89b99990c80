SPECIFICATION Spec
CONSTANTS
  Spots = {1, 2, 3}
  FileOf <- MCFileOf
  Changes = {1, 2}
  PatchOf <- MCPatchOf
  MusaEdits <- MCMusaEdits
  MusaSubjects = {11}
  Histories <- MCHistories
  MaxStack = 3
  MaxKilled = 1
INVARIANTS TypeOK RoundTrip OnlyOurEntries DropsOnlyTheUpstreamed
PROPERTIES RegenBuildsTheClone BackportAppends
CHECK_DEADLOCK FALSE
