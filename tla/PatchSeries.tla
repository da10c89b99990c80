---------------------------- MODULE PatchSeries ----------------------------
(***************************************************************************)
(* The build-time patch series: setup.py resets the clone of vLLM to its   *)
(* pin (or leaves it alone, SKIP_THIRD_PARTY=1) and build_apply.py runs    *)
(* git apply over an ordered series of diffs, skipping a patch whose       *)
(* reverse applies.  A run may stop anywhere, also inside git apply, and   *)
(* be started again.                                                       *)
(*                                                                         *)
(* A location is a hunk with its context.  The series is given by the      *)
(* trees its author saw: stage[0] is the pin, and patch i turns stage[i-1] *)
(* into stage[i].                                                          *)
(***************************************************************************)
EXTENDS Integers

CONSTANTS
  Locations,            \* the places of the source tree that patches edit
  Contents,             \* what can stand at a location
  PatchCount,           \* bound: patches of the series (212 in the code)
  MaxRuns               \* bound: builds started

ASSUME SeriesAssumption ==
  /\ PatchCount \in Nat
  /\ MaxRuns \in Nat

VARIABLES
  stage,                \* the trees the series was made from
  tree,                 \* the working tree of the clone
  phase,                \* "idle", "applying", "done", "failed"
  next,                 \* the patch the running build comes to
  runs,                 \* builds started
  origin                \* what the running build started from: "pin", "patched", "other"

buildVars == <<stage, tree, phase, next, runs, origin>>

Patches == 1 .. PatchCount
Trees == [Locations -> Contents]

\* The locations patch i of a series edits.
Edits(s, i) == {l \in Locations : s[i - 1][l] # s[i][l]}

\* Faulty variant, used only to show that the properties can fail: a patch that
\* is there already is not recognised.
ReversesNever(i, t) == FALSE

\* Patch i of the series applies forward, or in reverse, to tree t.
Applies(i, t) == \A l \in Edits(stage, i) : t[l] = stage[i - 1][l]
Reverses(i, t) == \A l \in Edits(stage, i) : t[l] = stage[i][l]

\* Every patch edits something.
IsSeries(s) == \A i \in Patches : Edits(s, i) # {}

BuildInit ==
  /\ stage \in {s \in [0 .. PatchCount -> Trees] : IsSeries(s)}
  /\ tree = stage[0]
  /\ phase = "idle"
  /\ next = 1
  /\ runs = 0
  /\ origin = "pin"

----------------------------------------------------------------------------
\* Faulty variant: the clone is taken as it is.
StartBuildNoReset(skipThirdParty) ==
  /\ phase # "applying"
  /\ runs < MaxRuns
  /\ runs' = runs + 1
  /\ origin' = IF ~skipThirdParty \/ tree = stage[0] THEN "pin"
               ELSE IF phase = "done" THEN "patched" ELSE "other"
  /\ phase' = "applying"
  /\ next' = 1
  /\ UNCHANGED <<stage, tree>>

\* A build begins: _clone_and_checkout resets the clone to the pin unless the
\* third-party step is skipped; then apply_patch_series starts over.
StartBuild(skipThirdParty) ==
  /\ phase # "applying"
  /\ runs < MaxRuns
  /\ runs' = runs + 1
  /\ tree' = IF skipThirdParty THEN tree ELSE stage[0]
  /\ origin' = IF ~skipThirdParty \/ tree = stage[0] THEN "pin"
               ELSE IF phase = "done" THEN "patched" ELSE "other"
  /\ phase' = "applying"
  /\ next' = 1
  /\ UNCHANGED stage

\* A faulty variant: one edit of the patch that is there already counts as all
\* of them.
SkipAppliedAny ==
  /\ phase = "applying" /\ next \in Patches
  /\ \E l \in Edits(stage, next) : tree[l] = stage[next][l]
  /\ next' = next + 1
  /\ UNCHANGED <<stage, tree, phase, runs, origin>>

\* apply_patch: "already-applied"
SkipApplied ==
  /\ phase = "applying" /\ next \in Patches
  /\ Reverses(next, tree)
  /\ next' = next + 1
  /\ UNCHANGED <<stage, tree, phase, runs, origin>>

\* apply_patch: "applied"
ApplyPatch ==
  /\ phase = "applying" /\ next \in Patches
  /\ ~Reverses(next, tree) /\ Applies(next, tree)
  /\ tree' = [l \in Locations |->
                IF l \in Edits(stage, next) THEN stage[next][l] ELSE tree[l]]
  /\ next' = next + 1
  /\ UNCHANGED <<stage, phase, runs, origin>>

\* apply_patch: "conflict"; strict mode raises and the build fails.
Conflict ==
  /\ phase = "applying" /\ next \in Patches
  /\ ~Reverses(next, tree) /\ ~Applies(next, tree)
  /\ phase' = "failed"
  /\ UNCHANGED <<stage, tree, next, runs, origin>>

\* The build stops here: killed, or git apply fails after its check.  Of the
\* patch at hand any part of the edits may have been written.
Stop ==
  /\ phase = "applying"
  /\ phase' = "failed"
  /\ \/ UNCHANGED tree
     \/ /\ next \in Patches
        /\ ~Reverses(next, tree) /\ Applies(next, tree)
        /\ \E written \in SUBSET Edits(stage, next) :
             tree' = [l \in Locations |->
                        IF l \in written THEN stage[next][l] ELSE tree[l]]
  /\ UNCHANGED <<stage, next, runs, origin>>

\* The whole series has been gone through.
Finish ==
  /\ phase = "applying" /\ next = PatchCount + 1
  /\ phase' = "done"
  /\ UNCHANGED <<stage, tree, next, runs, origin>>

BuildNext ==
  \/ \E skipThirdParty \in BOOLEAN : StartBuild(skipThirdParty)
  \/ SkipApplied \/ ApplyPatch \/ Conflict \/ Stop \/ Finish

BuildSpec == BuildInit /\ [][BuildNext]_buildVars

----------------------------------------------------------------------------
BuildTypeOK ==
  /\ stage \in [0 .. PatchCount -> Trees]
  /\ tree \in Trees
  /\ phase \in {"idle", "applying", "done", "failed"}
  /\ next \in 1 .. PatchCount + 1
  /\ runs \in 0 .. MaxRuns
  /\ origin \in {"pin", "patched", "other"}

\* A build that reports success leaves exactly the tree the series describes,
\* whatever was left in the clone by builds before it: patches half written,
\* a series half applied, or all of it.
DoneIsPatched == phase = "done" => tree = stage[PatchCount]

\* A patch is never applied on top of a tree it was not made for: from the pin
\* a build only meets the author's trees, and no patch is skipped or in
\* conflict.
FreshBuildClean ==
  [][(phase = "applying" /\ origin = "pin") => ~SkipApplied /\ ~Conflict]_buildVars

\* A build over an already patched clone conflicts only at a patch that shares a
\* location with another patch of the series; every other patch is found applied,
\* whatever was applied again before it.
ConflictOnlyWhereShared ==
  [][(phase = "applying" /\ origin = "patched" /\ Conflict) =>
       \E j \in Patches \ {next} : Edits(stage, j) \cap Edits(stage, next) # {}]_buildVars

\* The applier is idempotent: a build over an already patched clone finds every
\* patch applied.
Idempotent ==
  [][(phase = "applying" /\ origin = "patched") => ~Conflict]_buildVars

============================================================================
