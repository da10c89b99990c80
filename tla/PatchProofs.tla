---------------------------- MODULE PatchProofs ----------------------------
(***************************************************************************)
(* The patch series, authored and built, for every history and every       *)
(* series.                                                                 *)
(*                                                                         *)
(* 1. A build that reports success leaves the tree the series describes    *)
(*    (PatchSeries).  The reason: whatever the clone held when the build   *)
(*    began, it moves on from a patch only with the locations of that      *)
(*    patch as the series has them there, and no location without an edit  *)
(*    is ever written.                                                     *)
(* 2. The clone and the files of the series say the same thing (MusaSync). *)
(*    The reason: each commit of the clone finds on its spots the text of  *)
(*    the last commit before it that edits them, and regen's order keeps   *)
(*    two commits that share a spot in their order.  So the text of every  *)
(*    spot, and with it the tree, survives regen, the files and git am.    *)
(* 3. A rebase drops no backport that the target branch undid with a word. *)
(*    The reason: a text that was taken away comes back only by landing    *)
(*    again, so the verdict of the history and that of the tree agree.     *)
(***************************************************************************)
EXTENDS PatchSeries, MusaSync, SumLemmas, SequenceTheorems

----------------------------------------------------------------------------
(* 1. The build.                                                           *)

EditedBefore(l, n) == \E j \in 1 .. n - 1 : l \in Edits(stage, j)
EverEdited(l) == \E j \in Patches : l \in Edits(stage, j)

\* Locations edited so far are up to date, the others as in the pin.
Progress ==
  phase \in {"applying", "done"} =>
    \A l \in Locations :
      /\ EditedBefore(l, next) => tree[l] = stage[next - 1][l]
      /\ EditedBefore(l, next) \/ stage[next - 1][l] = stage[0][l]

\* No build writes where the series has no edit.
Elsewhere == \A l \in Locations : EverEdited(l) \/ tree[l] = stage[0][l]

\* The inductive invariant.
SeriesInv ==
  /\ BuildTypeOK
  /\ phase = "done" => next = PatchCount + 1
  /\ Progress
  /\ Elsewhere

\* The stages before and after a patch are trees.
LEMMA Stages ==
  ASSUME BuildTypeOK, next \in Patches
  PROVE  /\ next \in Nat /\ next - 1 \in 0 .. PatchCount /\ next \in 0 .. PatchCount
         /\ stage[next - 1] \in Trees /\ stage[next] \in Trees /\ stage[0] \in Trees
         /\ next + 1 \in 1 .. PatchCount + 1
         /\ (next + 1) - 1 = next
  <1>1. next \in 1 .. PatchCount /\ PatchCount \in Nat
    BY SeriesAssumption DEF Patches
  <1>2. next - 1 \in 0 .. PatchCount /\ next \in 0 .. PatchCount /\ 0 \in 0 .. PatchCount
    BY <1>1
  <1>3. QED
    BY <1>1, <1>2 DEF BuildTypeOK

\* A location was edited before patch n + 1 when it was before patch n or is
\* edited by patch n.
LEMMA EditedStep ==
  ASSUME NEW l, next \in Patches, PatchCount \in Nat
  PROVE  EditedBefore(l, next + 1) <=> EditedBefore(l, next) \/ l \in Edits(stage, next)
  <1>1. 1 .. (next + 1) - 1 = (1 .. next - 1) \cup {next}
    BY DEF Patches
  <1>2. QED
    BY <1>1 DEF EditedBefore

\* Moving on to the next patch keeps the invariant when the tree has the edits
\* of this one and is otherwise unchanged.
LEMMA MoveOn ==
  ASSUME SeriesInv, phase = "applying", next \in Patches,
         UNCHANGED <<stage, phase, runs, origin>>, next' = next + 1, tree' \in Trees,
         \A l \in Edits(stage, next) : tree'[l] = stage[next][l],
         \A l \in Locations \ Edits(stage, next) : tree'[l] = tree[l]
  PROVE  SeriesInv'
  <1>1. BuildTypeOK /\ PatchCount \in Nat
    BY SeriesAssumption DEF SeriesInv
  <1>2. BuildTypeOK'
    BY <1>1, Stages DEF BuildTypeOK
  <1>3. Progress'
    <2> SUFFICES ASSUME NEW l \in Locations
                 PROVE  /\ EditedBefore(l, next + 1) => tree'[l] = stage[next][l]
                        /\ EditedBefore(l, next + 1) \/ stage[next][l] = stage[0][l]
      BY <1>1, Stages DEF Progress, EditedBefore, Edits
    <2>1. /\ EditedBefore(l, next) => tree[l] = stage[next - 1][l]
          /\ EditedBefore(l, next) \/ stage[next - 1][l] = stage[0][l]
      BY DEF SeriesInv, Progress
    <2>2. EditedBefore(l, next + 1) <=> EditedBefore(l, next) \/ l \in Edits(stage, next)
      BY <1>1, EditedStep
    <2>3. l \notin Edits(stage, next) => stage[next][l] = stage[next - 1][l]
      BY DEF Edits
    <2>4. QED
      BY <2>1, <2>2, <2>3
  <1>4. Elsewhere'
    <2> SUFFICES ASSUME NEW l \in Locations, ~EverEdited(l)
                 PROVE  tree'[l] = stage[0][l]
      BY DEF Elsewhere, EverEdited, Edits
    <2>1. l \notin Edits(stage, next)
      BY DEF EverEdited
    <2>2. QED
      BY <2>1 DEF SeriesInv, Elsewhere
  <1>5. QED
    BY <1>2, <1>3, <1>4 DEF SeriesInv

\* A build that starts has nothing behind it, and a reset writes only the pin.
LEMMA StartKeeps ==
  ASSUME SeriesInv, NEW skip \in BOOLEAN, StartBuild(skip)
  PROVE  SeriesInv'
  <1>1. BuildTypeOK /\ PatchCount \in Nat /\ MaxRuns \in Nat /\ 0 \in 0 .. PatchCount
    BY SeriesAssumption DEF SeriesInv
  <1>2. /\ stage[0] \in Trees /\ stage' = stage
        /\ tree' \in {tree, stage[0]} /\ next' = 1 /\ phase' = "applying"
    BY <1>1 DEF StartBuild, BuildTypeOK
  <1>3. runs' \in 0 .. MaxRuns /\ origin' \in {"pin", "patched", "other"}
    BY <1>1 DEF StartBuild, BuildTypeOK
  <1>4. BuildTypeOK'
    BY <1>1, <1>2, <1>3 DEF BuildTypeOK
  <1>5. Progress'
    BY <1>2 DEF Progress, EditedBefore
  <1>6. Elsewhere'
    BY <1>2 DEF Elsewhere, SeriesInv, EverEdited, Edits
  <1>7. QED
    BY <1>2, <1>4, <1>5, <1>6 DEF SeriesInv

\* A build that stops has written at most edits of the patch at hand.
LEMMA StopKeeps ==
  ASSUME SeriesInv, Stop
  PROVE  SeriesInv'
  <1>1. BuildTypeOK /\ stage' = stage /\ next' = next /\ phase' = "failed"
        /\ runs' = runs /\ origin' = origin
    BY DEF SeriesInv, Stop
  <1>2. CASE tree' = tree
    BY <1>1, <1>2 DEF SeriesInv, BuildTypeOK, Progress, Elsewhere, EverEdited, Edits
  <1>3. CASE next \in Patches /\ tree' # tree
    <2>1. PICK written \in SUBSET Edits(stage, next) :
            tree' = [l \in Locations |-> IF l \in written THEN stage[next][l] ELSE tree[l]]
      BY <1>3 DEF Stop
    <2>2. stage[next] \in Trees /\ tree \in Trees
      BY <1>1, <1>3, Stages DEF BuildTypeOK
    <2>3. tree' \in Trees
      BY <2>1, <2>2 DEF Trees
    <2>4. BuildTypeOK'
      BY <1>1, <2>3 DEF BuildTypeOK
    <2>5. Elsewhere'
      <3> SUFFICES ASSUME NEW l \in Locations, ~EverEdited(l)
                   PROVE  tree'[l] = stage[0][l]
        BY <1>1 DEF Elsewhere, EverEdited, Edits
      <3>1. l \notin Edits(stage, next)
        BY <1>3 DEF EverEdited
      <3>2. QED
        BY <2>1, <3>1 DEF SeriesInv, Elsewhere
    <2>6. QED
      BY <1>1, <2>4, <2>5 DEF SeriesInv, Progress
  <1>4. QED
    BY <1>2, <1>3 DEF Stop

\* The clone is at its pin before the first build.
LEMMA InitIsSound == BuildInit => SeriesInv
  <1> SUFFICES ASSUME BuildInit PROVE SeriesInv
    OBVIOUS
  <1>1. PatchCount \in Nat /\ MaxRuns \in Nat /\ 0 \in 0 .. PatchCount
    BY SeriesAssumption
  <1>2. stage \in [0 .. PatchCount -> Trees] /\ tree = stage[0] /\ phase = "idle"
        /\ next = 1 /\ runs = 0 /\ origin = "pin"
    BY DEF BuildInit
  <1>3. BuildTypeOK
    BY <1>1, <1>2 DEF BuildTypeOK
  <1>4. QED
    BY <1>2, <1>3 DEF SeriesInv, Progress, Elsewhere

\* The invariant holds through every history of builds.
THEOREM SeriesInvariance == BuildSpec => []SeriesInv
  <1>1. BuildInit => SeriesInv
    BY InitIsSound
  <1>2. SeriesInv /\ [BuildNext]_buildVars => SeriesInv'
    <2> SUFFICES ASSUME SeriesInv, [BuildNext]_buildVars PROVE SeriesInv'
      OBVIOUS
    <2> USE DEF SeriesInv
    <2>1. ASSUME NEW skip \in BOOLEAN, StartBuild(skip) PROVE SeriesInv'
      BY <2>1, StartKeeps
    <2>2. CASE SkipApplied
      <3>1. tree \in Trees /\ \A l \in Edits(stage, next) : tree[l] = stage[next][l]
        BY <2>2 DEF SkipApplied, Reverses, BuildTypeOK
      <3>2. QED
        BY <2>2, <3>1, MoveOn DEF SkipApplied
    <2>3. CASE ApplyPatch
      <3>1. stage[next] \in Trees /\ tree \in Trees
        BY <2>3, Stages DEF ApplyPatch, BuildTypeOK
      <3>2. tree' = [l \in Locations |->
                       IF l \in Edits(stage, next) THEN stage[next][l] ELSE tree[l]]
        BY <2>3 DEF ApplyPatch
      <3>3. /\ tree' \in Trees
            /\ \A l \in Edits(stage, next) : tree'[l] = stage[next][l]
            /\ \A l \in Locations \ Edits(stage, next) : tree'[l] = tree[l]
        BY <3>1, <3>2 DEF Trees, Edits
      <3>4. QED
        BY <2>3, <3>3, MoveOn DEF ApplyPatch
    <2>4. CASE Conflict
      BY <2>4 DEF Conflict, BuildTypeOK, Progress, Elsewhere, EverEdited, Edits
    <2>5. CASE Stop
      BY <2>5, StopKeeps
    <2>6. CASE Finish
      BY <2>6 DEF Finish, BuildTypeOK, Progress, Elsewhere, EverEdited, EditedBefore, Edits
    <2>7. CASE UNCHANGED buildVars
      BY <2>7 DEF buildVars, BuildTypeOK, Progress, Elsewhere, EverEdited, EditedBefore, Edits
    <2>8. QED
      BY <2>1, <2>2, <2>3, <2>4, <2>5, <2>6, <2>7 DEF BuildNext
  <1>3. QED
    BY <1>1, <1>2, PTL DEF BuildSpec

\* Success of a build means the tree is the one the series describes.
THEOREM DoneIsPatchedHolds == BuildSpec => []DoneIsPatched
  <1>1. SeriesInv => DoneIsPatched
    <2> SUFFICES ASSUME SeriesInv, phase = "done" PROVE tree = stage[PatchCount]
      BY DEF DoneIsPatched
    <2>1. PatchCount \in Nat /\ next = PatchCount + 1 /\ next - 1 = PatchCount
      BY SeriesAssumption DEF SeriesInv
    <2>2. tree \in Trees /\ stage[PatchCount] \in Trees
      BY <2>1 DEF SeriesInv, BuildTypeOK
    <2>3. ASSUME NEW l \in Locations PROVE tree[l] = stage[PatchCount][l]
      <3>1. /\ EditedBefore(l, next) => tree[l] = stage[PatchCount][l]
            /\ EditedBefore(l, next) \/ stage[PatchCount][l] = stage[0][l]
        BY <2>1 DEF SeriesInv, Progress
      <3>2. EditedBefore(l, next) <=> EverEdited(l)
        BY <2>1 DEF EditedBefore, EverEdited, Patches
      <3>3. EverEdited(l) \/ tree[l] = stage[0][l]
        BY DEF SeriesInv, Elsewhere
      <3>4. QED
        BY <3>1, <3>2, <3>3
    <2>4. QED
      BY <2>2, <2>3 DEF Trees
  <1>2. QED
    BY <1>1, SeriesInvariance, PTL

----------------------------------------------------------------------------
(* A build from the pin.                                                   *)

\* From the pin a build meets the author's trees, one after the other.
AuthorsTree == phase = "applying" /\ origin = "pin" => tree = stage[next - 1]

FreshInv ==
  /\ SeriesInv
  /\ IsSeries(stage)
  /\ AuthorsTree

\* A build that starts over the pin's tree is one that starts from the pin.
LEMMA StartOverPin ==
  ASSUME NEW skip \in BOOLEAN, StartBuild(skip), origin' = "pin"
  PROVE  tree' = stage[0]
  BY DEF StartBuild

\* The patch at hand applies to the tree before it, and leaves the tree after it.
LEMMA AuthorsStep ==
  ASSUME FreshInv, phase = "applying", origin = "pin", next \in Patches
  PROVE  /\ Applies(next, tree)
         /\ ~Reverses(next, tree)
         /\ ApplyPatch => tree' = stage[next]
  <1>1. tree = stage[next - 1] /\ Edits(stage, next) # {}
    BY DEF FreshInv, AuthorsTree, IsSeries
  <1>2. Applies(next, tree) /\ ~Reverses(next, tree)
    BY <1>1 DEF Applies, Reverses, Edits
  <1>3. ASSUME ApplyPatch PROVE tree' = stage[next]
    <2>1. stage[next] \in [Locations -> Contents]
      BY Stages DEF FreshInv, SeriesInv, Trees
    <2>2. tree' = [l \in Locations |->
                     IF l \in Edits(stage, next) THEN stage[next][l] ELSE tree[l]]
      BY <1>3 DEF ApplyPatch
    <2>3. \A l \in Locations : tree'[l] = stage[next][l]
      BY <1>1, <2>2 DEF Edits
    <2>4. QED
      BY <2>1, <2>2, <2>3
  <1>4. QED
    BY <1>2, <1>3

\* The tree of a build from the pin is the author's at every patch.
THEOREM FreshInvariance == BuildSpec => []FreshInv
  <1>1. BuildInit => FreshInv
    <2> SUFFICES ASSUME BuildInit PROVE FreshInv
      OBVIOUS
    <2>1. SeriesInv
      BY InitIsSound
    <2>2. QED
      BY <2>1 DEF BuildInit, FreshInv, AuthorsTree
  <1>2. FreshInv /\ SeriesInv' /\ [BuildNext]_buildVars => FreshInv'
    <2> SUFFICES ASSUME FreshInv, SeriesInv', [BuildNext]_buildVars PROVE FreshInv'
      OBVIOUS
    <2>1. stage' = stage
      BY DEF BuildNext, buildVars, StartBuild, SkipApplied, ApplyPatch, Conflict, Stop, Finish
    <2>2. IsSeries(stage')
      BY <2>1 DEF FreshInv
    <2>3. AuthorsTree'
      <3>1. ASSUME NEW skip \in BOOLEAN, StartBuild(skip) PROVE AuthorsTree'
        <4>1. next' = 1 /\ (origin' = "pin" => tree' = stage[0])
          BY <3>1, StartOverPin DEF StartBuild
        <4>2. QED
          BY <2>1, <4>1 DEF AuthorsTree
      <3>2. CASE SkipApplied
        <4>1. phase = "applying" /\ next \in Patches /\ Reverses(next, tree) /\ origin' = origin
          BY <3>2 DEF SkipApplied
        <4>2. origin # "pin"
          BY <4>1, AuthorsStep
        <4>3. QED
          BY <4>1, <4>2 DEF AuthorsTree
      <3>3. CASE ApplyPatch
        <4>1. phase = "applying" /\ next \in Patches /\ origin' = origin /\ next' = next + 1
          BY <3>3 DEF ApplyPatch
        <4>2. origin = "pin" => tree' = stage[next]
          BY <3>3, <4>1, AuthorsStep
        <4>3. (next + 1) - 1 = next
          BY <4>1, Stages DEF FreshInv, SeriesInv
        <4>4. QED
          BY <2>1, <4>1, <4>2, <4>3 DEF AuthorsTree
      <3>4. CASE Conflict \/ Stop \/ Finish
        BY <3>4 DEF Conflict, Stop, Finish, AuthorsTree
      <3>5. CASE UNCHANGED buildVars
        BY <3>5 DEF buildVars, FreshInv, AuthorsTree
      <3>6. QED
        BY <3>1, <3>2, <3>3, <3>4, <3>5 DEF BuildNext
    <2>4. QED
      BY <2>2, <2>3 DEF FreshInv
  <1>3. QED
    BY <1>1, <1>2, SeriesInvariance, PTL DEF BuildSpec

\* From the pin no patch is skipped and none is in conflict.
THEOREM FreshBuildCleanHolds == BuildSpec => FreshBuildClean
  <1>1. FreshInv /\ [BuildNext]_buildVars =>
          [(phase = "applying" /\ origin = "pin") => ~SkipApplied /\ ~Conflict]_buildVars
    <2> SUFFICES ASSUME FreshInv, phase = "applying", origin = "pin"
                 PROVE  ~SkipApplied /\ ~Conflict
      OBVIOUS
    <2>1. QED
      BY AuthorsStep DEF SkipApplied, Conflict
  <1>2. QED
    BY <1>1, FreshInvariance, PTL DEF BuildSpec, FreshBuildClean

----------------------------------------------------------------------------
(* A build over a clone that is patched already.                           *)

\* Location l is edited by patch i and by no other.
OnlyBy(l, i) == l \in Edits(stage, i) /\ \A j \in Patches \ {i} : l \notin Edits(stage, j)

\* The locations only patch i edits are as it leaves them.
HasOwnEdits(i) == \A l \in Locations : OnlyBy(l, i) => tree[l] = stage[i][l]

\* The patches gone through are there, and over a patched clone all the others are.
OwnEdits ==
  /\ phase \in {"applying", "done"} => \A i \in 1 .. next - 1 : HasOwnEdits(i)
  /\ phase = "applying" /\ origin = "patched" => \A i \in Patches : HasOwnEdits(i)

RepeatInv == SeriesInv /\ OwnEdits

\* A clone counts as patched only where the last build went through the series.
LEMMA StartOverPatched ==
  ASSUME NEW skip \in BOOLEAN, StartBuild(skip), origin' = "patched"
  PROVE  phase = "done" /\ tree' = tree
  BY DEF StartBuild

\* Going on to the next patch with its edits in place, and nothing else changed,
\* takes no other patch's own edits away.
LEMMA MoveOnKeepsOwn ==
  ASSUME RepeatInv, phase = "applying", next \in Patches,
         UNCHANGED <<stage, phase, origin>>, next' = next + 1,
         \A l \in Edits(stage, next) : tree'[l] = stage[next][l],
         \A l \in Locations \ Edits(stage, next) : tree'[l] = tree[l]
  PROVE  OwnEdits'
  <1>1. ASSUME NEW i \in Patches, i = next \/ HasOwnEdits(i) PROVE HasOwnEdits(i)'
    <2> SUFFICES ASSUME NEW l \in Locations, OnlyBy(l, i) PROVE tree'[l] = stage[i][l]
      BY DEF HasOwnEdits, OnlyBy, Edits
    <2>1. CASE i = next
      BY <2>1 DEF OnlyBy
    <2>2. CASE i # next
      BY <1>1, <2>2 DEF OnlyBy, HasOwnEdits
    <2>3. QED
      BY <2>1, <2>2
  <1>2. PatchCount \in Nat /\ 1 .. (next + 1) - 1 = (1 .. next - 1) \cup {next}
        /\ 1 .. next - 1 \subseteq Patches
    BY SeriesAssumption DEF Patches
  <1>3. \A i \in 1 .. next - 1 : HasOwnEdits(i)
    BY DEF RepeatInv, OwnEdits
  <1>4. \A i \in 1 .. next' - 1 : HasOwnEdits(i)'
    BY <1>1, <1>2, <1>3
  <1>5. origin = "patched" => \A i \in Patches : HasOwnEdits(i)'
    BY <1>1 DEF RepeatInv, OwnEdits
  <1>6. QED
    BY <1>4, <1>5 DEF OwnEdits

\* Own edits stay in place through every history of builds.
THEOREM RepeatInvariance == BuildSpec => []RepeatInv
  <1>1. BuildInit => RepeatInv
    <2> SUFFICES ASSUME BuildInit PROVE RepeatInv
      OBVIOUS
    <2>1. SeriesInv
      BY InitIsSound
    <2>2. QED
      BY <2>1 DEF BuildInit, RepeatInv, OwnEdits
  <1>2. RepeatInv /\ SeriesInv' /\ [BuildNext]_buildVars => RepeatInv'
    <2> SUFFICES ASSUME RepeatInv, SeriesInv', [BuildNext]_buildVars PROVE OwnEdits'
      BY DEF RepeatInv
    <2>1. ASSUME NEW skip \in BOOLEAN, StartBuild(skip) PROVE OwnEdits'
      <3>1. next' = 1 /\ 1 .. 1 - 1 = {} /\ stage' = stage
        BY <2>1 DEF StartBuild
      <3>2. ASSUME origin' = "patched", NEW i \in Patches PROVE HasOwnEdits(i)'
        <4>1. phase = "done" /\ tree' = tree /\ i \in 1 .. next - 1
          BY <2>1, <3>2, StartOverPatched, SeriesAssumption DEF RepeatInv, SeriesInv, Patches
        <4>2. HasOwnEdits(i)
          BY <4>1 DEF RepeatInv, OwnEdits
        <4>3. QED
          BY <3>1, <4>1, <4>2 DEF HasOwnEdits, OnlyBy, Edits
      <3>3. QED
        BY <3>1, <3>2 DEF OwnEdits
    <2>2. CASE SkipApplied
      BY <2>2, MoveOnKeepsOwn DEF SkipApplied, Reverses
    <2>3. CASE ApplyPatch
      <3>1. tree' = [l \in Locations |->
                       IF l \in Edits(stage, next) THEN stage[next][l] ELSE tree[l]]
        BY <2>3 DEF ApplyPatch
      <3>2. /\ \A l \in Edits(stage, next) : tree'[l] = stage[next][l]
            /\ \A l \in Locations \ Edits(stage, next) : tree'[l] = tree[l]
        BY <3>1 DEF Edits
      <3>3. QED
        BY <2>3, <3>2, MoveOnKeepsOwn DEF ApplyPatch
    <2>4. CASE Conflict \/ Stop
      BY <2>4 DEF Conflict, Stop, OwnEdits
    <2>5. CASE Finish \/ UNCHANGED buildVars
      BY <2>5 DEF Finish, buildVars, RepeatInv, OwnEdits, HasOwnEdits, OnlyBy, Edits
    <2>6. QED
      BY <2>1, <2>2, <2>3, <2>4, <2>5 DEF BuildNext
  <1>3. QED
    BY <1>1, <1>2, SeriesInvariance, PTL DEF BuildSpec

\* Over a patched clone only a patch that shares a location with another can be in
\* conflict.
THEOREM ConflictOnlyWhereSharedHolds == BuildSpec => ConflictOnlyWhereShared
  <1>1. RepeatInv /\ [BuildNext]_buildVars =>
          [(phase = "applying" /\ origin = "patched" /\ Conflict) =>
             \E j \in Patches \ {next} : Edits(stage, j) \cap Edits(stage, next) # {}]_buildVars
    <2> SUFFICES ASSUME RepeatInv, phase = "applying", origin = "patched", Conflict,
                        \A j \in Patches \ {next} : Edits(stage, j) \cap Edits(stage, next) = {}
                 PROVE  FALSE
      OBVIOUS
    <2>1. next \in Patches /\ ~Reverses(next, tree)
      BY DEF Conflict
    <2>2. PICK l \in Edits(stage, next) : tree[l] # stage[next][l]
      BY <2>1 DEF Reverses
    <2>3. l \in Locations /\ OnlyBy(l, next)
      BY <2>2 DEF OnlyBy, Edits
    <2>4. HasOwnEdits(next)
      BY <2>1 DEF RepeatInv, OwnEdits
    <2>5. QED
      BY <2>2, <2>3, <2>4 DEF HasOwnEdits
  <1>2. QED
    BY <1>1, RepeatInvariance, PTL DEF BuildSpec, ConflictOnlyWhereShared

----------------------------------------------------------------------------
(* 2. The authoring loop.                                                  *)

----------------------------------------------------------------------------
(* Counting the elements before an element.                                *)

\* The elements of S below x, for an order given as a set of pairs.
Below(S, R, x) == {y \in S : <<y, x>> \in R}

IsOrder(S, R) ==
  /\ \A x \in S : <<x, x>> \notin R
  /\ \A x, y, z \in S : <<x, y>> \in R /\ <<y, z>> \in R => <<x, z>> \in R
  /\ \A x, y \in S : x = y \/ <<x, y>> \in R \/ <<y, x>> \in R

\* More elements are below a larger one.
LEMMA MoreBelow ==
  ASSUME NEW S, IsFiniteSet(S), NEW R, IsOrder(S, R),
         NEW x \in S, NEW y \in S, <<x, y>> \in R
  PROVE  /\ Cardinality(Below(S, R, x)) \in Nat
         /\ Cardinality(Below(S, R, y)) \in Nat
         /\ Cardinality(Below(S, R, x)) < Cardinality(Below(S, R, y))
  <1>1. Below(S, R, x) \subseteq Below(S, R, y)
    BY DEF Below, IsOrder
  <1>2. x \in Below(S, R, y) /\ x \notin Below(S, R, x)
    BY DEF Below, IsOrder
  <1>3. IsFiniteSet(Below(S, R, y)) /\ IsFiniteSet(Below(S, R, x))
    BY FS_Subset DEF Below
  <1>4. /\ Cardinality(Below(S, R, x)) <= Cardinality(Below(S, R, y))
        /\ Cardinality(Below(S, R, x)) # Cardinality(Below(S, R, y))
    BY <1>1, <1>2, <1>3, FS_Subset
  <1>5. Cardinality(Below(S, R, x)) \in Nat /\ Cardinality(Below(S, R, y)) \in Nat
    BY <1>3, FS_CardinalityType
  <1>6. QED
    BY <1>4, <1>5

\* Fewer elements than there are lie below one of them.
LEMMA FewBelow ==
  ASSUME NEW S, IsFiniteSet(S), NEW R, IsOrder(S, R), NEW x \in S
  PROVE  Cardinality(Below(S, R, x)) \in 0 .. Cardinality(S) - 1
  <1>1. Below(S, R, x) \subseteq S /\ x \notin Below(S, R, x)
    BY DEF Below, IsOrder
  <1>2. /\ IsFiniteSet(Below(S, R, x))
        /\ Cardinality(Below(S, R, x)) <= Cardinality(S)
        /\ Cardinality(Below(S, R, x)) # Cardinality(S)
    BY <1>1, FS_Subset
  <1>3. Cardinality(Below(S, R, x)) \in Nat /\ Cardinality(S) \in Nat
    BY <1>2, FS_CardinalityType
  <1>4. QED
    BY <1>2, <1>3

\* Each number up to the size of a finite ordered set counts the elements below
\* exactly one of its elements.
LEMMA EachCounted ==
  ASSUME NEW S, IsFiniteSet(S), NEW R, IsOrder(S, R),
         NEW k \in 1 .. Cardinality(S)
  PROVE  \E x \in S : /\ Cardinality(Below(S, R, x)) = k - 1
                      /\ \A y \in S : Cardinality(Below(S, R, y)) = k - 1 => y = x
  <1> DEFINE n == Cardinality(S)
             count == [x \in S |-> Cardinality(Below(S, R, x))]
  <1>1. n \in Nat
    BY FS_CardinalityType
  <1>2. \A x \in S : Cardinality(Below(S, R, x)) \in 0 .. n - 1
    BY FewBelow
  <1>3. \A x, y \in S : count[x] = count[y] => x = y
    <2> SUFFICES ASSUME NEW x \in S, NEW y \in S, count[x] = count[y], x # y PROVE FALSE
      OBVIOUS
    <2>1. CASE <<x, y>> \in R
      BY <2>1, MoreBelow
    <2>2. CASE <<y, x>> \in R
      BY <2>2, MoreBelow
    <2>3. QED
      BY <2>1, <2>2 DEF IsOrder
  <1>4. count \in Injection(S, 0 .. n - 1)
    <2>1. count \in [S -> 0 .. n - 1]
      BY <1>2
    <2>2. QED
      BY <1>3, <2>1 DEF Injection, IsInjective
  <1>5. IsFiniteSet(0 .. n - 1) /\ Cardinality(0 .. n - 1) = n
    <2>1. 0 \in Int /\ n - 1 \in Int /\ (0 > n - 1 <=> n = 0) /\ (n - 1) - 0 + 1 = n
      BY <1>1
    <2> HIDE DEF n
    <2>2. QED
      BY <2>1, FS_Interval
  <1> HIDE DEF count, n
  <1>6. count \in Surjection(S, 0 .. n - 1)
    BY <1>4, <1>5, FS_Injection DEF n
  <1>7. k - 1 \in 0 .. n - 1
    BY <1>1 DEF n
  <1>8. PICK x \in S : count[x] = k - 1
    BY <1>6, <1>7 DEF Surjection
  <1>9. QED
    BY <1>3, <1>8 DEF count

----------------------------------------------------------------------------
(* The operators of PatchStack that list the elements of a set in order.   *)

\* e lists the n elements of P in ascending order.
Enumerates(e, P, n) ==
  /\ e \in [1 .. n -> P]
  /\ \A k, l \in 1 .. n : k < l => e[k] < e[l]
  /\ \A i \in P : \E k \in 1 .. n : e[k] = i

\* The elements of a sequence at the n positions e lists.
Listed(seq, e, n) == [k \in 1 .. n |-> seq[e[k]]]

\* At takes the elements of a sequence in the order of their positions.
LEMMA AtEnumerates ==
  ASSUME NEW seq, NEW P, IsFiniteSet(P), P \subseteq Int
  PROVE  \E e : /\ Enumerates(e, P, Cardinality(P))
                /\ At(seq, P) = Listed(seq, e, Cardinality(P))
  <1> DEFINE R == {z \in P \X P : z[1] < z[2]}
             n == Cardinality(P)
             e == [k \in 1 .. n |-> CHOOSE i \in P : Cardinality({j \in P : j < i}) = k - 1]
  <1>1. IsOrder(P, R)
    BY DEF IsOrder
  <1>2. \A i \in P : Below(P, R, i) = {j \in P : j < i}
    BY DEF Below
  <1> HIDE DEF R
  <1>3. n \in Nat
    BY FS_CardinalityType
  <1>4. ASSUME NEW k \in 1 .. n
        PROVE  e[k] \in P /\ Cardinality({j \in P : j < e[k]}) = k - 1
    <2>1. \E i \in P : Cardinality(Below(P, R, i)) = k - 1
      <3> HIDE DEF e
      <3>1. k \in 1 .. Cardinality(P)
        OBVIOUS
      <3> HIDE DEF n
      <3>2. IsFiniteSet(P)
        OBVIOUS
      <3>3. QED
        BY ONLY <1>1, <3>1, <3>2, EachCounted
    <2>2. \E i \in P : Cardinality({j \in P : j < i}) = k - 1
      BY <1>2, <2>1
    <2>3. QED
      BY <2>2
  <1>5. At(seq, P) = [k \in 1 .. n |-> seq[e[k]]]
    BY DEF At
  <1> HIDE DEF e
  <1>6. \A k \in 1 .. n : e[k] \in P /\ e[k] \in Int /\ Cardinality(Below(P, R, e[k])) = k - 1
    BY <1>2, <1>4
  <1>7. e \in [1 .. n -> P]
    BY <1>6 DEF e
  <1>8. ASSUME NEW k \in 1 .. n, NEW l \in 1 .. n, k < l PROVE e[k] < e[l]
    <2>1. CASE e[k] = e[l]
      BY <1>6, <1>8, <2>1
    <2>2. CASE e[l] < e[k]
      <3>1. <<e[l], e[k]>> \in R
        BY <1>6, <2>2 DEF R
      <3>2. Cardinality(Below(P, R, e[l])) < Cardinality(Below(P, R, e[k]))
        BY <1>1, <1>6, <3>1, MoreBelow
      <3>3. QED
        BY <1>6, <1>8, <3>2
    <2>3. QED
      BY <1>6, <2>1, <2>2
  <1>9. ASSUME NEW i \in P PROVE \E k \in 1 .. n : e[k] = i
    <2> DEFINE k == Cardinality(Below(P, R, i)) + 1
    <2>1. k \in 1 .. n /\ Cardinality(Below(P, R, i)) = k - 1
      BY <1>1, <1>3, FewBelow
    <2> HIDE DEF k
    <2>2. \E x \in P : \A y \in P : Cardinality(Below(P, R, y)) = k - 1 => y = x
      BY <1>1, <2>1, EachCounted
    <2>3. e[k] = i
      BY <1>6, <2>1, <2>2
    <2>4. QED
      BY <2>1, <2>3
  <1>10. At(seq, P) = Listed(seq, e, n)
    BY <1>5 DEF Listed
  <1>11. Enumerates(e, P, n)
    BY <1>7, <1>8, <1>9 DEF Enumerates
  <1>12. QED
    BY <1>10, <1>11

\* Of an interval of positions it is the part of the sequence that lies there.
LEMMA AtInterval ==
  ASSUME NEW seq, NEW a \in Int, NEW b \in Int, a <= b + 1
  PROVE  At(seq, a .. b) = [k \in 1 .. b - a + 1 |-> seq[a + k - 1]]
  <1>1. Cardinality(a .. b) = b - a + 1
    BY FS_Interval
  <1>2. ASSUME NEW k \in 1 .. b - a + 1
        PROVE  (CHOOSE i \in a .. b : Cardinality({j \in a .. b : j < i}) = k - 1) = a + k - 1
    <2>1. \A i \in a .. b : Cardinality({j \in a .. b : j < i}) = i - a
      <3> SUFFICES ASSUME NEW i \in a .. b PROVE Cardinality({j \in a .. b : j < i}) = i - a
        OBVIOUS
      <3>1. {j \in a .. b : j < i} = a .. i - 1
        OBVIOUS
      <3>2. i - 1 \in Int /\ \A c \in Int : c = i - 1 => (IF a > c THEN 0 ELSE c - a + 1) = i - a
        OBVIOUS
      <3>3. \A c \in Int : Cardinality(a .. c) = IF a > c THEN 0 ELSE c - a + 1
        BY FS_Interval
      <3>4. Cardinality(a .. i - 1) = i - a
        BY <3>2, <3>3
      <3>5. QED
        BY <3>1, <3>4
    <2>2. a + k - 1 \in a .. b /\ \A i \in a .. b : i - a = k - 1 <=> i = a + k - 1
      OBVIOUS
    <2>3. QED
      BY <2>1, <2>2
  <1>3. At(seq, a .. b)
          = [k \in 1 .. b - a + 1 |->
               seq[CHOOSE i \in a .. b : Cardinality({j \in a .. b : j < i}) = k - 1]]
    BY <1>1, Zenon DEF At
  <1>4. QED
    BY <1>2, <1>3, Zenon

\* As many elements as numbers they are listed under.
LEMMA CountedBy ==
  ASSUME NEW T, NEW n \in Nat, NEW w \in [1 .. n -> T],
         \A i, j \in 1 .. n : w[i] = w[j] => i = j,
         \A x \in T : \E i \in 1 .. n : w[i] = x
  PROVE  IsFiniteSet(T) /\ Cardinality(T) = n
  <1>1. IsFiniteSet(1 .. n) /\ Cardinality(1 .. n) = n
    BY FS_Interval
  <1>2. w \in Bijection(1 .. n, T)
    BY DEF Bijection, Injection, Surjection, IsInjective
  <1>3. ExistsBijection(1 .. n, T)
    BY <1>2 DEF ExistsBijection
  <1>4. QED
    BY <1>1, <1>3, FS_Bijection

----------------------------------------------------------------------------
(* Commits, and the files they are written to.                             *)

SpotTexts == [Spots -> Int]
Subjects == MusaSubjects \cup Changes

\* A commit of the clone or entry of the series: it writes its own text, and one that
\* names an upstream change is that change, on some of its spots.
Commits ==
  {c \in [subject : Subjects, pick : Changes \cup {NoPick},
          patch : UNION {[edited -> [pre : Int, post : Int]] : edited \in SUBSET Spots}] :
     /\ \A s \in Edited(c.patch) : c.patch[s].post = c.subject
     /\ IF c.pick = NoPick THEN c.subject \in MusaSubjects
        ELSE c.subject = c.pick /\ Edited(c.patch) \subseteq Edited(PatchOf[c.pick])}

LEMMA CommitParts ==
  ASSUME NEW c \in Commits
  PROVE  /\ c.subject \in Subjects /\ c.subject \in Int
         /\ c.pick \in Changes \cup {NoPick}
         /\ Edited(c.patch) \subseteq Spots
         /\ c.patch \in [Edited(c.patch) -> [pre : Int, post : Int]]
         /\ \A s \in Edited(c.patch) : c.patch[s].post = c.subject
         /\ c = [subject |-> c.subject, pick |-> c.pick, patch |-> c.patch]
         /\ IF c.pick = NoPick THEN c.subject \in MusaSubjects
            ELSE c.subject = c.pick /\ Edited(c.patch) \subseteq Edited(PatchOf[c.pick])
  <1>1. /\ c \in [subject : Subjects, pick : Changes \cup {NoPick},
                  patch : UNION {[edited -> [pre : Int, post : Int]] : edited \in SUBSET Spots}]
        /\ \A s \in Edited(c.patch) : c.patch[s].post = c.subject
        /\ IF c.pick = NoPick THEN c.subject \in MusaSubjects
           ELSE c.subject = c.pick /\ Edited(c.patch) \subseteq Edited(PatchOf[c.pick])
    BY DEF Commits
  <1>2. PICK edited \in SUBSET Spots : c.patch \in [edited -> [pre : Int, post : Int]]
    BY <1>1
  <1>3. Edited(c.patch) = edited
    BY <1>2 DEF Edited
  <1>4. Subjects \subseteq Int
    BY MusaSyncAssumption, ChangesAssumption DEF Subjects
  <1>5. QED
    BY <1>1, <1>2, <1>3, <1>4

\* A numbered file with a commit.
CommitFiles == [num : Nat, entry : Commits]

\* A directory without two files of one name.
IsDirectory(files) ==
  /\ files \subseteq CommitFiles
  /\ IsFiniteSet(files)
  /\ \A f, g \in files : SameName(f, g) => f = g

\* The numbered files of a sequence of commits, and their order.
LEMMA NumberedInOrder ==
  ASSUME NEW e \in Seq(Commits)
  PROVE  /\ IsDirectory(NumberedFiles(e))
         /\ \A f \in NumberedFiles(e) : f.num \in 1 .. Len(e)
         /\ Cardinality(NumberedFiles(e)) = Len(e)
         /\ InNameOrder(NumberedFiles(e)) = e
  <1> DEFINE n == Len(e)
             w == [i \in 1 .. n |-> [num |-> i, entry |-> e[i]]]
             T == NumberedFiles(e)
  <1>1. n \in Nat /\ DOMAIN e = 1 .. n /\ e \in [1 .. n -> Commits]
    BY LenProperties
  <1>2. T = {w[i] : i \in 1 .. n}
    BY <1>1 DEF NumberedFiles
  <1>3. \A i \in 1 .. n : w[i].num = i /\ w[i].entry = e[i] /\ w[i] \in T /\ w[i] \in CommitFiles
    BY <1>1, <1>2 DEF CommitFiles
  <1> HIDE DEF n, T
  <1>4. \A f \in T : f.num \in 1 .. n /\ f = w[f.num]
    BY <1>2
  <1>5. w \in [1 .. n -> T] /\ \A x \in T : \E i \in 1 .. n : w[i] = x
    BY <1>2, <1>3
  <1>6. \A i, j \in 1 .. n : w[i] = w[j] => i = j
    BY <1>3
  <1> HIDE DEF w
  <1>7. IsFiniteSet(T) /\ Cardinality(T) = n
    BY <1>1, <1>5, <1>6, CountedBy
  <1>8. IsDirectory(T)
    <2>1. T \subseteq CommitFiles
      BY <1>3, <1>4
    <2>2. \A f, g \in T : SameName(f, g) => f = g
      BY <1>4 DEF SameName
    <2>3. QED
      BY <1>7, <2>1, <2>2 DEF IsDirectory
  <1>9. ASSUME NEW i \in 1 .. n
        PROVE  Cardinality({g \in T : Before(g, w[i])}) = i - 1
    <2> DEFINE U == {g \in T : Before(g, w[i])}
    <2>1. \A j \in 1 .. n : Before(w[j], w[i]) <=> j < i
      <3>1. \A j \in 1 .. n : e[j].subject \in Int /\ (j = i => ~ (e[j].subject < e[i].subject))
        BY <1>1, CommitParts
      <3>2. QED
        BY <1>3, <3>1 DEF Before
    <2>2. U = {w[j] : j \in 1 .. i - 1}
      BY <1>1, <1>3, <1>4, <2>1
    <2> HIDE DEF U
    <2>3. /\ i - 1 \in Nat
          /\ [j \in 1 .. i - 1 |-> w[j]] \in [1 .. i - 1 -> U]
          /\ \A x \in U : \E j \in 1 .. i - 1 : w[j] = x
      BY <1>1, <2>2
    <2>4. \A j, k \in 1 .. i - 1 : w[j] = w[k] => j = k
      BY <1>1, <1>6
    <2>5. Cardinality(U) = i - 1
      <3> DEFINE v == [j \in 1 .. i - 1 |-> w[j]]
                 m == i - 1
      <3>1. \A j, k \in 1 .. m : v[j] = v[k] => j = k
        BY <2>4
      <3>2. v \in [1 .. m -> U] /\ \A x \in U : \E j \in 1 .. m : v[j] = x
        BY <2>3
      <3>3. m \in Nat
        BY <2>3
      <3> HIDE DEF v, m
      <3>4. Cardinality(U) = m
        BY <3>1, <3>2, <3>3, CountedBy
      <3>5. QED
        BY <3>4 DEF m
    <2>6. QED
      BY <2>5 DEF U
  <1>10. InNameOrder(T) = e
    <2>1. ASSUME NEW k \in 1 .. n
          PROVE  (CHOOSE f \in T : Cardinality({g \in T : Before(g, f)}) = k - 1) = w[k]
      <3>1. \A f \in T : Cardinality({g \in T : Before(g, f)}) = f.num - 1
        BY <1>4, <1>9
      <3>2. w[k] \in T /\ \A f \in T : f.num - 1 = k - 1 <=> f = w[k]
        BY <1>1, <1>3, <1>4
      <3>3. QED
        BY <3>1, <3>2
    <2>2. InNameOrder(T)
            = [k \in 1 .. n |-> (CHOOSE f \in T : Cardinality({g \in T : Before(g, f)}) = k - 1).entry]
      BY <1>7, Zenon DEF InNameOrder
    <2>3. InNameOrder(T) = [k \in 1 .. n |-> e[k]]
      BY <1>3, <2>1, <2>2, ZenonT(30)
    <2>4. QED
      BY <1>1, <2>3
  <1>11. QED
    BY <1>4, <1>7, <1>8, <1>10 DEF n, T

\* The order of a directory's names is a sequence of its entries.
LEMMA DirectoryInOrder ==
  ASSUME NEW files, IsDirectory(files)
  PROVE  /\ InNameOrder(files) \in Seq({f.entry : f \in files})
         /\ InNameOrder(files) \in Seq(Commits)
         /\ Len(InNameOrder(files)) = Cardinality(files)
  <1> DEFINE R == {z \in files \X files : Before(z[1], z[2])}
             n == Cardinality(files)
             E == {f.entry : f \in files}
  <1>1. IsFiniteSet(files) /\ n \in Nat
    BY FS_CardinalityType DEF IsDirectory
  <1>2. \A f \in files : f.num \in Nat /\ f.entry \in Commits /\ f.entry.subject \in Int
    BY CommitParts DEF IsDirectory, CommitFiles
  <1>3. IsOrder(files, R)
    <2>1. \A f \in files : ~ Before(f, f)
      BY <1>2 DEF Before
    <2>2. \A f, g, h \in files : Before(f, g) /\ Before(g, h) => Before(f, h)
      BY <1>2 DEF Before
    <2>3. \A f, g \in files : f = g \/ Before(f, g) \/ Before(g, f)
      BY <1>2 DEF Before, IsDirectory, SameName
    <2>4. QED
      BY <2>1, <2>2, <2>3 DEF IsOrder
  <1>4. \A f \in files : Below(files, R, f) = {g \in files : Before(g, f)}
    BY DEF Below
  <1> HIDE DEF R
  <1>5. ASSUME NEW k \in 1 .. n
        PROVE  (CHOOSE f \in files : Cardinality({g \in files : Before(g, f)}) = k - 1) \in files
    <2>1. \E f \in files : /\ Cardinality(Below(files, R, f)) = k - 1
                           /\ \A g \in files : Cardinality(Below(files, R, g)) = k - 1 => g = f
      BY <1>1, <1>3, EachCounted
    <2>2. \E f \in files : Cardinality({g \in files : Before(g, f)}) = k - 1
      BY <1>4, <2>1
    <2>3. QED
      BY <2>2
  <1>6. InNameOrder(files)
          = [k \in 1 .. n |->
               (CHOOSE f \in files : Cardinality({g \in files : Before(g, f)}) = k - 1).entry]
    BY Zenon DEF InNameOrder
  <1> HIDE DEF n
  <1>7. InNameOrder(files) \in [1 .. n -> E]
    BY <1>5, <1>6
  <1>8. InNameOrder(files) \in Seq(E) /\ Len(InNameOrder(files)) = n
    <2> HIDE DEF E
    <2> QED BY <1>1, <1>7, LenProperties, SeqDef
  <1>9. E \subseteq Commits
    BY <1>2
  <1>10. InNameOrder(files) \in Seq(Commits)
    <2> HIDE DEF E
    <2> QED BY <1>8, <1>9, SeqMonotonic
  <1>11. QED
    BY <1>8, <1>10 DEF n

\* Taking positions of a sequence gives a sequence no longer.
LEMMA AtTakes ==
  ASSUME NEW S, NEW seq \in Seq(S), NEW P \in SUBSET (1 .. Len(seq))
  PROVE  /\ At(seq, P) \in Seq(S)
         /\ Len(At(seq, P)) = Cardinality(P)
         /\ Len(At(seq, P)) <= Len(seq)
         /\ IsFiniteSet(P)
  <1> DEFINE n == Len(seq)
  <1>1. n \in Nat /\ seq \in [1 .. n -> S]
    BY LenProperties
  <1>2. P \in SUBSET (1 .. n) /\ P \subseteq Int
    OBVIOUS
  <1> HIDE DEF n
  <1>3. IsFiniteSet(P) /\ Cardinality(P) <= n
    <2>1. IsFiniteSet(1 .. n) /\ Cardinality(1 .. n) = n
      BY <1>1, FS_Interval
    <2>2. QED
      BY <1>2, <2>1, FS_Subset
  <1>4. Cardinality(P) \in Nat
    BY <1>3, FS_CardinalityType
  <1>5. PICK e : /\ Enumerates(e, P, Cardinality(P))
                 /\ At(seq, P) = Listed(seq, e, Cardinality(P))
    BY <1>2, <1>3, AtEnumerates
  <1>6. At(seq, P) \in [1 .. Cardinality(P) -> S]
    BY <1>1, <1>2, <1>5 DEF Enumerates, Listed
  <1>7. QED
    BY <1>3, <1>4, <1>6, LenProperties, SeqDef DEF n

----------------------------------------------------------------------------
(* The tree a stack of commits makes.                                      *)

\* No commit after the j-th and up to the i-th edits spot s.
Untouched(stk, j, i, s) == \A k \in j + 1 .. i : s \notin Edited(stk[k].patch)

\* v is the text of spot s once the first i commits are on the tree t.
TextAt(t, stk, i, s, v) ==
  \/ Untouched(stk, 0, i, s) /\ v = t[s]
  \/ \E j \in 1 .. i : /\ s \in Edited(stk[j].patch)
                       /\ Untouched(stk, j, i, s)
                       /\ v = stk[j].patch[s].post

\* There is one such text.
LEMMA OneText ==
  ASSUME NEW t, NEW stk, NEW i \in Nat, NEW s, NEW v, NEW w,
         TextAt(t, stk, i, s, v), TextAt(t, stk, i, s, w)
  PROVE  v = w
  <1>1. ASSUME NEW j \in 1 .. i, s \in Edited(stk[j].patch) PROVE ~ Untouched(stk, 0, i, s)
    BY <1>1 DEF Untouched
  <1>2. ASSUME NEW j \in 1 .. i, NEW k \in 1 .. i, s \in Edited(stk[k].patch), j < k
        PROVE  ~ Untouched(stk, j, i, s)
    BY <1>2 DEF Untouched
  <1>3. QED
    BY <1>1, <1>2 DEF TextAt

\* The next commit's text where it edits, and elsewhere the text before it.
LEMMA NextText ==
  ASSUME NEW t \in SpotTexts, NEW stk, NEW i \in Nat, NEW from \in SpotTexts,
         \A s \in Spots : TextAt(t, stk, i, s, from[s]),
         NEW s \in Spots
  PROVE  TextAt(t, stk, i + 1, s, Patched(from, stk[i + 1].patch)[s])
  <1> DEFINE p == stk[i + 1].patch
             new == Patched(from, p)
  <1>1. new[s] = IF s \in Edited(p) THEN p[s].post ELSE from[s]
    BY DEF Patched
  <1> HIDE DEF new
  <1>2. CASE s \in Edited(p)
    <2>1. i + 1 \in 1 .. i + 1 /\ Untouched(stk, i + 1, i + 1, s)
      BY DEF Untouched
    <2>2. TextAt(t, stk, i + 1, s, new[s])
      BY <1>1, <1>2, <2>1 DEF TextAt
    <2>3. QED
      BY <2>2 DEF new
  <1>3. CASE s \notin Edited(p)
    <2>1. \A j \in 0 .. i : Untouched(stk, j, i, s) => Untouched(stk, j, i + 1, s)
      BY <1>3 DEF Untouched
    <2>2. TextAt(t, stk, i, s, new[s])
      BY <1>1, <1>3
    <2>3. TextAt(t, stk, i + 1, s, new[s])
      <3>1. CASE Untouched(stk, 0, i, s) /\ new[s] = t[s]
        BY <2>1, <3>1 DEF TextAt
      <3>2. ASSUME NEW j \in 1 .. i, s \in Edited(stk[j].patch), Untouched(stk, j, i, s),
                   new[s] = stk[j].patch[s].post
            PROVE  TextAt(t, stk, i + 1, s, new[s])
        BY <2>1, <3>2 DEF TextAt
      <3>3. QED
        BY <2>2, <3>1, <3>2 DEF TextAt
    <2>4. QED
      BY <2>3 DEF new
  <1>4. QED
    BY <1>2, <1>3

\* The trees a stack of commits goes through.
IsTreeRun(a, t, stk) ==
  /\ a \in [0 .. Len(stk) -> SpotTexts]
  /\ a[0] = t
  /\ \A i \in 1 .. Len(stk) : a[i] = Patched(a[i - 1], stk[i].patch)

LEMMA PatchedType ==
  ASSUME NEW from \in SpotTexts, NEW c \in Commits
  PROVE  Patched(from, c.patch) \in SpotTexts
  BY CommitParts DEF Patched, SpotTexts

LEMMA TreeRun ==
  ASSUME NEW t \in SpotTexts, NEW stk \in Seq(Commits)
  PROVE  \E a : IsTreeRun(a, t, stk) /\ HeadOf(t, stk) = a[Len(stk)]
  <1> DEFINE n == Len(stk)
             step == [i \in Nat |-> [x \in SpotTexts |->
                        IF i < n THEN Patched(x, stk[i + 1].patch) ELSE x]]
             Rec(f) == [i \in 0 .. n |->
                          IF i = 0 THEN t ELSE Patched(f[i - 1], stk[i].patch)]
             g == CHOOSE f : f = Rec(f)
  <1>1. n \in Nat /\ \A i \in 1 .. n : stk[i] \in Commits
    BY LenProperties
  <1>2. HeadOf(t, stk) = g[n]
    BY DEF HeadOf
  <1> HIDE DEF n
  <1>3. step \in [Nat -> [SpotTexts -> SpotTexts]]
    <2>1. ASSUME NEW i \in Nat, NEW x \in SpotTexts
          PROVE  (IF i < n THEN Patched(x, stk[i + 1].patch) ELSE x) \in SpotTexts
      <3>1. i < n => i + 1 \in 1 .. n
        BY <1>1
      <3>2. QED
        BY <1>1, <3>1, PatchedType
    <2>2. QED
      BY <2>1
  <1> HIDE DEF step
  <1>4. PICK h \in [0 .. n -> SpotTexts] : IsRun(h, n, t, step)
    BY <1>1, <1>3, RunsExist
  <1>5. ASSUME NEW i \in 1 .. n PROVE h[i] = Patched(h[i - 1], stk[i].patch)
    <2>1. i - 1 \in 0 .. n - 1 /\ i - 1 \in Nat /\ (i - 1) + 1 = i /\ i - 1 < n /\ i - 1 \in 0 .. n
      BY <1>1
    <2>2. h[(i - 1) + 1] = step[i - 1][h[i - 1]]
      BY <1>4, <2>1 DEF IsRun
    <2>3. h[i - 1] \in SpotTexts
      BY <1>4, <2>1
    <2>4. QED
      BY <2>1, <2>2, <2>3 DEF step
  <1>6. h[0] = t
    BY <1>4 DEF IsRun
  <1>7. h = Rec(h)
    BY <1>1, <1>5, <1>6
  <1>8. g = Rec(g)
    BY <1>7
  <1> HIDE DEF g
  <1>9. ASSUME NEW k \in 1 .. n PROVE g[k] = Patched(g[k - 1], stk[k].patch)
    <2>1. k \in 0 .. n /\ k # 0
      BY <1>1
    <2>2. Rec(g)[k] = IF k = 0 THEN t ELSE Patched(g[k - 1], stk[k].patch)
      BY <2>1
    <2> HIDE DEF Rec
    <2>3. QED
      BY <1>8, <2>1, <2>2
  <1>10. \A i \in Nat : i <= n => g[i] = h[i]
    <2> DEFINE T == {i \in Nat : i <= n => g[i] = h[i]}
    <2>1. 0 \in T
      BY <1>1, <1>6, <1>8
    <2>2. ASSUME NEW i \in Nat, i \in T PROVE i + 1 \in T
      <3>1. SUFFICES ASSUME i + 1 <= n PROVE g[i + 1] = h[i + 1]
        OBVIOUS
      <3>2. i + 1 \in 1 .. n /\ (i + 1) - 1 = i /\ g[i] = h[i]
        BY <1>1, <2>2, <3>1
      <3>3. g[i + 1] = Patched(g[i], stk[i + 1].patch)
        BY <1>9, <3>2
      <3>4. h[i + 1] = Patched(h[i], stk[i + 1].patch)
        BY <1>5, <3>2
      <3>5. QED
        BY <3>2, <3>3, <3>4
    <2>3. \A i \in Nat : i \in T
      <3> HIDE DEF T
      <3> QED BY <2>1, <2>2, SetInduction
    <2>4. QED
      BY <2>3
  <1>11. IsTreeRun(h, t, stk)
    BY <1>5, <1>6 DEF IsTreeRun, n
  <1>12. QED
    BY <1>1, <1>2, <1>10, <1>11 DEF n

\* Each tree of the run is the text of the commits so far.
LEMMA RunText ==
  ASSUME NEW t \in SpotTexts, NEW stk \in Seq(Commits), NEW a, IsTreeRun(a, t, stk),
         NEW i \in 0 .. Len(stk), NEW s \in Spots
  PROVE  TextAt(t, stk, i, s, a[i][s])
  <1> DEFINE T == {j \in Nat : j <= Len(stk) => \A x \in Spots : TextAt(t, stk, j, x, a[j][x])}
  <1>1. 0 \in T
    BY DEF TextAt, Untouched, IsTreeRun
  <1>2. ASSUME NEW j \in Nat, j \in T PROVE j + 1 \in T
    <2>1. SUFFICES ASSUME j + 1 <= Len(stk), NEW x \in Spots
                   PROVE  TextAt(t, stk, j + 1, x, a[j + 1][x])
      OBVIOUS
    <2>2. Len(stk) \in Nat
      BY LenProperties
    <2>3. j + 1 \in 1 .. Len(stk) /\ (j + 1) - 1 = j /\ j \in 0 .. Len(stk)
      BY <2>1, <2>2
    <2>4. a[j] \in SpotTexts /\ a[j + 1] = Patched(a[j], stk[j + 1].patch)
      BY <2>3 DEF IsTreeRun
    <2>5. \A y \in Spots : TextAt(t, stk, j, y, a[j][y])
      BY <1>2, <2>1, <2>2
    <2>6. QED
      BY <2>4, <2>5, NextText
  <1>3. \A j \in Nat : j \in T
    <2> HIDE DEF T
    <2> QED BY <1>1, <1>2, SetInduction
  <1>4. i \in Nat /\ i <= Len(stk)
    BY LenProperties
  <1>5. QED
    BY <1>3, <1>4

LEMMA HeadText ==
  ASSUME NEW t \in SpotTexts, NEW stk \in Seq(Commits)
  PROVE  /\ HeadOf(t, stk) \in SpotTexts
         /\ \A s \in Spots : TextAt(t, stk, Len(stk), s, HeadOf(t, stk)[s])
  <1>1. PICK a : IsTreeRun(a, t, stk) /\ HeadOf(t, stk) = a[Len(stk)]
    BY TreeRun
  <1>2. Len(stk) \in Nat /\ Len(stk) \in 0 .. Len(stk)
    BY LenProperties
  <1>3. QED
    BY <1>1, <1>2, RunText DEF IsTreeRun

\* The text depends on the commits before, and on nothing else.
LEMMA SameText ==
  ASSUME NEW t, NEW stk, NEW stk2, NEW i \in Nat,
         \A k \in 1 .. i : stk[k] = stk2[k],
         NEW s, NEW v, TextAt(t, stk, i, s, v)
  PROVE  TextAt(t, stk2, i, s, v)
  <1>1. \A j \in 0 .. i : Untouched(stk, j, i, s) => Untouched(stk2, j, i, s)
    BY DEF Untouched
  <1>2. QED
    BY <1>1 DEF TextAt

\* Each commit changes every spot it edits, from the text it finds there.
Sound(t, stk) ==
  \A i \in 1 .. Len(stk) :
    /\ Edited(stk[i].patch) # {}
    /\ \A s \in Edited(stk[i].patch) :
         /\ stk[i].patch[s].pre # stk[i].patch[s].post
         /\ TextAt(t, stk, i - 1, s, stk[i].patch[s].pre)

\* On a sound stack every commit applies where it stands.
LEMMA SoundApplies ==
  ASSUME NEW t \in SpotTexts, NEW stk \in Seq(Commits), Sound(t, stk),
         NEW a, IsTreeRun(a, t, stk), NEW i \in 1 .. Len(stk)
  PROVE  /\ \A s \in Edited(stk[i].patch) : a[i - 1][s] = stk[i].patch[s].pre
         /\ ApplyStatus(a[i - 1], stk[i].patch) = "applied"
  <1>1. Len(stk) \in Nat /\ i - 1 \in 0 .. Len(stk) /\ i - 1 \in Nat /\ stk[i] \in Commits
    BY LenProperties
  <1>2. ASSUME NEW s \in Edited(stk[i].patch) PROVE a[i - 1][s] = stk[i].patch[s].pre
    <2>1. s \in Spots
      BY <1>1, CommitParts
    <2>2. TextAt(t, stk, i - 1, s, a[i - 1][s])
      BY <1>1, <2>1, RunText
    <2>3. TextAt(t, stk, i - 1, s, stk[i].patch[s].pre)
      BY DEF Sound
    <2>4. QED
      BY <1>1, <2>2, <2>3, OneText
  <1>3. PICK s \in Edited(stk[i].patch) : stk[i].patch[s].pre # stk[i].patch[s].post
    BY DEF Sound
  <1>4. ~ Holds(a[i - 1], stk[i].patch)
    BY <1>2, <1>3 DEF Holds
  <1>5. Expects(a[i - 1], stk[i].patch)
    BY <1>2 DEF Expects
  <1>6. QED
    BY <1>2, <1>4, <1>5 DEF ApplyStatus

\* A strict build of a sound series succeeds, with the tree of the stack.
LEMMA SoundBuilds ==
  ASSUME NEW t \in SpotTexts, NEW stk \in Seq(Commits), Sound(t, stk)
  PROVE  BuildsTo(t, stk, HeadOf(t, stk))
  <1>1. PICK a : IsTreeRun(a, t, stk) /\ HeadOf(t, stk) = a[Len(stk)]
    BY TreeRun
  <1> DEFINE n == Len(stk)
             Rec(f) == [i \in 0 .. n |->
                          IF i = 0 THEN t
                          ELSE IF ApplyStatus(f[i - 1], stk[i].patch) = "applied"
                               THEN Patched(f[i - 1], stk[i].patch) ELSE f[i - 1]]
             g == CHOOSE f : f = Rec(f)
  <1>2. n \in Nat /\ DOMAIN stk = 1 .. n
    BY LenProperties
  <1>3. Applied(t, stk) = g
    BY DEF Applied
  <1>4. \A i \in 1 .. n : ApplyStatus(a[i - 1], stk[i].patch) = "applied"
    BY <1>1, SoundApplies
  <1>5. /\ a \in [0 .. n -> SpotTexts] /\ a[0] = t
        /\ \A i \in 1 .. n : a[i] = Patched(a[i - 1], stk[i].patch)
    BY <1>1 DEF IsTreeRun
  <1> HIDE DEF n
  <1>6. a = Rec(a)
    BY <1>2, <1>4, <1>5
  <1>7. g = Rec(g)
    BY <1>6
  <1> HIDE DEF g
  <1>8. /\ g[0] = t
        /\ \A k \in 1 .. n :
             ApplyStatus(g[k - 1], stk[k].patch) = "applied" => g[k] = Patched(g[k - 1], stk[k].patch)
    <2>1. \A k \in 0 .. n :
            Rec(g)[k] = IF k = 0 THEN t
                        ELSE IF ApplyStatus(g[k - 1], stk[k].patch) = "applied"
                             THEN Patched(g[k - 1], stk[k].patch) ELSE g[k - 1]
      OBVIOUS
    <2>2. 0 \in 0 .. n /\ \A k \in 1 .. n : k \in 0 .. n /\ k # 0
      BY <1>2
    <2> HIDE DEF Rec
    <2>3. QED
      BY <1>7, <2>1, <2>2
  <1>9. \A i \in Nat : i <= n => g[i] = a[i]
    <2> DEFINE T == {i \in Nat : i <= n => g[i] = a[i]}
    <2>1. 0 \in T
      BY <1>5, <1>8
    <2>2. ASSUME NEW i \in Nat, i \in T PROVE i + 1 \in T
      <3>1. SUFFICES ASSUME i + 1 <= n PROVE g[i + 1] = a[i + 1]
        OBVIOUS
      <3>2. i + 1 \in 1 .. n /\ (i + 1) - 1 = i /\ g[i] = a[i]
        BY <1>2, <2>2, <3>1
      <3>3. ApplyStatus(g[i], stk[i + 1].patch) = "applied"
        BY <1>4, <3>2
      <3>4. QED
        BY <1>5, <1>8, <3>2, <3>3
    <2>3. \A i \in Nat : i \in T
      <3> HIDE DEF T
      <3> QED BY <2>1, <2>2, SetInduction
    <2>4. QED
      BY <2>3
  <1>10. ASSUME NEW i \in 1 .. n PROVE Statuses(t, stk)[i] = "applied"
    <2>1. i - 1 \in Nat /\ i - 1 <= n
      BY <1>2
    <2>2. Statuses(t, stk)[i] = ApplyStatus(g[i - 1], stk[i].patch)
      BY <1>2, <1>3 DEF Statuses
    <2>3. QED
      BY <1>4, <1>9, <2>1, <2>2
  <1>11. Applied(t, stk)[n] = HeadOf(t, stk)
    BY <1>1, <1>2, <1>3, <1>9 DEF n
  <1>12. QED
    BY <1>2, <1>10, <1>11 DEF BuildsTo, n

\* Only the patch without edits is empty.
LEMMA EmptyPatch ==
  ASSUME NEW c \in Commits
  PROVE  c.patch = <<>> <=> Edited(c.patch) = {}
  <1>1. c.patch \in [Edited(c.patch) -> [pre : Int, post : Int]]
    BY CommitParts
  <1>2. <<>> = [x \in {} |-> 0] /\ DOMAIN <<>> = {}
    OBVIOUS
  <1>3. ASSUME Edited(c.patch) = {} PROVE c.patch = <<>>
    <2>1. c.patch = [x \in {} |-> c.patch[x]]
      BY <1>1, <1>3
    <2>2. [x \in {} |-> c.patch[x]] = [x \in {} |-> 0]
      OBVIOUS
    <2>3. QED
      BY <1>2, <2>1, <2>2
  <1>4. c.patch = <<>> => Edited(c.patch) = {}
    BY <1>2 DEF Edited
  <1>5. QED
    BY <1>3, <1>4

\* A merged commit goes from the text that is there to its own.
LEMMA CommittedIs ==
  ASSUME NEW from \in SpotTexts, NEW c \in Commits
  PROVE  /\ Committed(from, c) \in Commits
         /\ Committed(from, c).subject = c.subject
         /\ Committed(from, c).pick = c.pick
         /\ \A s \in Edited(Committed(from, c).patch) :
              /\ Committed(from, c).patch[s].pre = from[s]
              /\ Committed(from, c).patch[s].pre # Committed(from, c).patch[s].post
  <1> DEFINE p == Diff(from, Patched(from, c.patch))
             d == [subject |-> c.subject, pick |-> c.pick, patch |-> p]
  <1>1. /\ c.subject \in Subjects /\ c.pick \in Changes \cup {NoPick}
        /\ Edited(c.patch) \subseteq Spots
        /\ \A s \in Edited(c.patch) : c.patch[s].post = c.subject
        /\ c = [subject |-> c.subject, pick |-> c.pick, patch |-> c.patch]
        /\ IF c.pick = NoPick THEN c.subject \in MusaSubjects
           ELSE c.subject = c.pick /\ Edited(c.patch) \subseteq Edited(PatchOf[c.pick])
    BY CommitParts
  <1>2. Committed(from, c) = d
    BY <1>1 DEF Committed
  <1>3. Patched(from, c.patch) \in SpotTexts
    BY PatchedType
  <1>4. /\ Edited(p) = {x \in Spots : from[x] # Patched(from, c.patch)[x]}
        /\ p \in [Edited(p) -> [pre : Int, post : Int]]
        /\ \A s \in Edited(p) :
             /\ s \in Spots /\ from[s] # Patched(from, c.patch)[s]
             /\ p[s] = [pre |-> from[s], post |-> Patched(from, c.patch)[s]]
    BY <1>3 DEF Diff, Edited, SpotTexts
  <1>5. \A s \in Edited(p) : s \in Edited(c.patch) /\ p[s].post = c.subject
    <2>1. \A x \in Spots : Patched(from, c.patch)[x]
                             = IF x \in Edited(c.patch) THEN c.patch[x].post ELSE from[x]
      BY DEF Patched
    <2> HIDE DEF p
    <2>2. QED
      BY <1>1, <1>4, <2>1
  <1> HIDE DEF p
  <1>6. d \in Commits
    BY <1>1, <1>4, <1>5 DEF Commits
  <1>7. QED
    BY <1>2, <1>4, <1>6

\* A commit that applies where it stands and changes every spot it edits is merged
\* as it is.
LEMMA CommittedSame ==
  ASSUME NEW from \in SpotTexts, NEW c \in Commits,
         \A s \in Edited(c.patch) :
           from[s] = c.patch[s].pre /\ c.patch[s].pre # c.patch[s].post
  PROVE  Merges(from, c.patch) /\ Committed(from, c) = c
  <1>1. /\ Edited(c.patch) \subseteq Spots
        /\ c.patch \in [Edited(c.patch) -> [pre : Int, post : Int]]
        /\ c = [subject |-> c.subject, pick |-> c.pick, patch |-> c.patch]
    BY CommitParts
  <1>2. {x \in Spots : from[x] # Patched(from, c.patch)[x]} = Edited(c.patch)
    BY <1>1 DEF Patched
  <1>3. \A s \in Edited(c.patch) :
          [pre |-> from[s], post |-> Patched(from, c.patch)[s]] = c.patch[s]
    BY <1>1 DEF Patched
  <1>4. Diff(from, Patched(from, c.patch)) = [s \in Edited(c.patch) |-> c.patch[s]]
    BY <1>2, <1>3 DEF Diff
  <1>5. Diff(from, Patched(from, c.patch)) = c.patch
    BY <1>1, <1>4
  <1>6. Committed(from, c) = [subject |-> c.subject, pick |-> c.pick, patch |-> c.patch]
    BY <1>1, <1>5 DEF Committed
  <1>7. Merges(from, c.patch)
    BY DEF Merges
  <1>8. QED
    BY <1>1, <1>6, <1>7

\* A merged commit on top of a sound stack leaves it sound.
LEMMA PushSound ==
  ASSUME NEW t \in SpotTexts, NEW stk \in Seq(Commits), Sound(t, stk), NEW c \in Commits
  PROVE  /\ Push(stk, Committed(HeadOf(t, stk), c)) \in Seq(Commits)
         /\ Sound(t, Push(stk, Committed(HeadOf(t, stk), c)))
  <1> DEFINE n == Len(stk)
             head == HeadOf(t, stk)
             x == Committed(head, c)
             new == Append(stk, x)
  <1>1. head \in SpotTexts /\ \A s \in Spots : TextAt(t, stk, n, s, head[s])
    BY HeadText
  <1>2. /\ x \in Commits
        /\ \A s \in Edited(x.patch) : x.patch[s].pre = head[s] /\ x.patch[s].pre # x.patch[s].post
    BY <1>1, CommittedIs
  <1>3. /\ n \in Nat /\ Edited(x.patch) \subseteq Spots
        /\ (x.patch = <<>> <=> Edited(x.patch) = {})
    BY <1>2, LenProperties, CommitParts, EmptyPatch
  <1> HIDE DEF x, head
  <1>4. /\ new \in Seq(Commits) /\ Len(new) = n + 1 /\ new[n + 1] = x
        /\ \A i \in 1 .. n : new[i] = stk[i]
    BY <1>2, AppendProperties
  <1> HIDE DEF new
  <1>5. ASSUME Edited(x.patch) # {} PROVE Sound(t, new)
    <2> SUFFICES ASSUME NEW i \in 1 .. n + 1
                 PROVE  /\ Edited(new[i].patch) # {}
                        /\ \A s \in Edited(new[i].patch) :
                             /\ new[i].patch[s].pre # new[i].patch[s].post
                             /\ TextAt(t, new, i - 1, s, new[i].patch[s].pre)
      BY <1>4 DEF Sound
    <2>1. i - 1 \in Nat /\ \A k \in 1 .. i - 1 : stk[k] = new[k]
      BY <1>3, <1>4
    <2>2. \A s, v : TextAt(t, stk, i - 1, s, v) => TextAt(t, new, i - 1, s, v)
      BY <2>1, SameText
    <2>3. CASE i = n + 1
      <3>1. i - 1 = n /\ new[i] = x
        BY <1>3, <1>4, <2>3
      <3>2. \A s \in Edited(x.patch) : TextAt(t, stk, n, s, x.patch[s].pre)
        BY <1>1, <1>2, <1>3
      <3>3. QED
        BY <1>2, <1>5, <2>2, <3>1, <3>2
    <2>4. CASE i # n + 1
      <3>1. i \in 1 .. n /\ new[i] = stk[i]
        BY <1>3, <1>4, <2>4
      <3>2. QED
        BY <2>2, <3>1 DEF Sound, n
    <2>5. QED
      BY <2>3, <2>4
  <1>6. Push(stk, x) = IF x.patch = <<>> THEN stk ELSE new
    BY DEF Push, new
  <1>7. Push(stk, x) \in Seq(Commits) /\ Sound(t, Push(stk, x))
    BY <1>3, <1>4, <1>5, <1>6
  <1>8. QED
    BY <1>7 DEF x, head

\* What git am has after each entry.
AmStates == [stack : Seq(Commits), stuckAt : Nat]

AmStep(t, before, entries, i) ==
  IF before.stuckAt # 0 THEN before
  ELSE IF ~ Merges(HeadOf(t, before.stack), entries[i].patch)
  THEN [before EXCEPT !.stuckAt = i]
  ELSE [before EXCEPT !.stack = Push(@, Committed(HeadOf(t, before.stack), entries[i]))]

AmResult(last, entries) ==
  [stack |-> last.stack,
   rest |-> IF last.stuckAt = 0 THEN <<>> ELSE SubSeq(entries, last.stuckAt, Len(entries))]

SoundStates(t) == {x \in AmStates : Sound(t, x.stack)}

IsAmRun(a, t, stk, entries) ==
  /\ a \in [0 .. Len(entries) -> SoundStates(t)]
  /\ a[0] = [stack |-> stk, stuckAt |-> 0]
  /\ \A i \in 1 .. Len(entries) : a[i] = AmStep(t, a[i - 1], entries, i)

LEMMA AmStepType ==
  ASSUME NEW t \in SpotTexts, NEW entries \in Seq(Commits), NEW x \in SoundStates(t),
         NEW i \in 1 .. Len(entries)
  PROVE  AmStep(t, x, entries, i) \in SoundStates(t)
  <1>1. /\ x.stack \in Seq(Commits) /\ x.stuckAt \in Nat /\ Sound(t, x.stack)
        /\ x = [stack |-> x.stack, stuckAt |-> x.stuckAt] /\ x \in AmStates
    BY DEF SoundStates, AmStates
  <1>2. entries[i] \in Commits /\ i \in Nat
    BY LenProperties
  <1> DEFINE pushed == Push(x.stack, Committed(HeadOf(t, x.stack), entries[i]))
  <1>3. pushed \in Seq(Commits) /\ Sound(t, pushed)
    BY <1>1, <1>2, PushSound
  <1> HIDE DEF pushed
  <1>4. /\ [stack |-> x.stack, stuckAt |-> i] \in SoundStates(t)
        /\ [stack |-> pushed, stuckAt |-> x.stuckAt] \in SoundStates(t)
        /\ x \in SoundStates(t)
    BY <1>1, <1>2, <1>3 DEF SoundStates, AmStates
  <1>5. \/ AmStep(t, x, entries, i) = x
        \/ AmStep(t, x, entries, i) = [stack |-> x.stack, stuckAt |-> i]
        \/ AmStep(t, x, entries, i) = [stack |-> pushed, stuckAt |-> x.stuckAt]
    BY <1>1 DEF AmStep, pushed
  <1>6. QED
    BY <1>4, <1>5

LEMMA AmRun ==
  ASSUME NEW t \in SpotTexts, NEW stk \in Seq(Commits), Sound(t, stk),
         NEW entries \in Seq(Commits)
  PROVE  \E a : /\ IsAmRun(a, t, stk, entries)
                /\ AmFrom(t, stk, entries) = AmResult(a[Len(entries)], entries)
  <1> DEFINE n == Len(entries)
             V == SoundStates(t)
             first == [stack |-> stk, stuckAt |-> 0]
             step == [i \in Nat |-> [x \in V |->
                        IF i < n THEN AmStep(t, x, entries, i + 1) ELSE x]]
             Rec(f) == [i \in 0 .. n |->
                          IF i = 0 THEN first ELSE AmStep(t, f[i - 1], entries, i)]
             g == CHOOSE f : f = Rec(f)
  <1>1. n \in Nat
    BY LenProperties
  <1>2. AmFrom(t, stk, entries) = AmResult(g[n], entries)
    BY Zenon DEF AmFrom, AmStep, AmResult
  <1>3. step \in [Nat -> [V -> V]]
    <2>1. ASSUME NEW i \in Nat, NEW x \in V
          PROVE  (IF i < n THEN AmStep(t, x, entries, i + 1) ELSE x) \in V
      <3>1. i < n => i + 1 \in 1 .. n
        BY <1>1
      <3>2. QED
        BY <3>1, AmStepType
    <2> HIDE DEF V
    <2>2. QED
      BY <2>1
  <1>4. first \in V
    BY DEF SoundStates, AmStates
  <1> HIDE DEF n, step, V, first
  <1>5. PICK h \in [0 .. n -> V] : IsRun(h, n, first, step)
    BY <1>1, <1>3, <1>4, RunsExist
  <1>6. ASSUME NEW i \in 1 .. n PROVE h[i] = AmStep(t, h[i - 1], entries, i)
    <2>1. i - 1 \in 0 .. n - 1 /\ i - 1 \in Nat /\ (i - 1) + 1 = i /\ i - 1 < n /\ i - 1 \in 0 .. n
      BY <1>1
    <2>2. h[(i - 1) + 1] = step[i - 1][h[i - 1]]
      BY <1>5, <2>1 DEF IsRun
    <2>3. h[i - 1] \in V
      BY <1>5, <2>1
    <2>4. step[i - 1][h[i - 1]] = AmStep(t, h[i - 1], entries, (i - 1) + 1)
      BY <2>1, <2>3 DEF step
    <2>5. QED
      BY <2>1, <2>2, <2>4
  <1>7. h[0] = first
    BY <1>5 DEF IsRun
  <1>8. h = Rec(h)
    BY <1>1, <1>5, <1>6, <1>7
  <1>9. g = Rec(g)
    BY <1>8
  <1> HIDE DEF g
  <1>10. /\ g[0] = first
         /\ \A k \in 1 .. n : g[k] = AmStep(t, g[k - 1], entries, k)
    <2>1. \A k \in 0 .. n :
            Rec(g)[k] = IF k = 0 THEN first ELSE AmStep(t, g[k - 1], entries, k)
      OBVIOUS
    <2>2. 0 \in 0 .. n /\ \A k \in 1 .. n : k \in 0 .. n /\ k # 0
      BY <1>1
    <2> HIDE DEF Rec
    <2>3. QED
      BY <1>9, <2>1, <2>2
  <1>11. \A i \in Nat : i <= n => g[i] = h[i]
    <2> DEFINE T == {i \in Nat : i <= n => g[i] = h[i]}
    <2>1. 0 \in T
      BY <1>7, <1>10
    <2>2. ASSUME NEW i \in Nat, i \in T PROVE i + 1 \in T
      <3>1. SUFFICES ASSUME i + 1 <= n PROVE g[i + 1] = h[i + 1]
        OBVIOUS
      <3>2. i + 1 \in 1 .. n /\ (i + 1) - 1 = i /\ g[i] = h[i]
        BY <1>1, <2>2, <3>1
      <3>3. QED
        BY <1>6, <1>10, <3>2
    <2>3. \A i \in Nat : i \in T
      <3> HIDE DEF T
      <3> QED BY <2>1, <2>2, SetInduction
    <2>4. QED
      BY <2>3
  <1>12. IsAmRun(h, t, stk, entries)
    BY <1>5, <1>6, <1>7 DEF IsAmRun, n, V, first
  <1>13. QED
    BY <1>1, <1>2, <1>11, <1>12 DEF n

\* git am keeps a stack sound, and what it leaves over is commits.
LEMMA AmSound ==
  ASSUME NEW t \in SpotTexts, NEW stk \in Seq(Commits), Sound(t, stk),
         NEW entries \in Seq(Commits)
  PROVE  /\ AmFrom(t, stk, entries).stack \in Seq(Commits)
         /\ Sound(t, AmFrom(t, stk, entries).stack)
         /\ AmFrom(t, stk, entries).rest \in Seq(Commits)
  <1>1. PICK a : /\ IsAmRun(a, t, stk, entries)
                 /\ AmFrom(t, stk, entries) = AmResult(a[Len(entries)], entries)
    BY AmRun
  <1> DEFINE last == a[Len(entries)]
             n == Len(entries)
  <1>2. n \in Nat /\ n \in 0 .. n /\ \A i \in 1 .. n : entries[i] \in Commits
    BY LenProperties
  <1>3. last \in SoundStates(t)
    BY <1>1, <1>2 DEF IsAmRun
  <1> HIDE DEF last
  <1>4. last.stack \in Seq(Commits) /\ last.stuckAt \in Nat /\ Sound(t, last.stack)
    BY <1>3 DEF SoundStates, AmStates
  <1>5. last.stuckAt # 0 => SubSeq(entries, last.stuckAt, n) \in Seq(Commits)
    <2> SUFFICES ASSUME last.stuckAt # 0 PROVE SubSeq(entries, last.stuckAt, n) \in Seq(Commits)
      OBVIOUS
    <2> DEFINE m == last.stuckAt
    <2>1. m \in Int /\ n \in Int /\ \A i \in m .. n : entries[i] \in Commits
      BY <1>2, <1>4
    <2> HIDE DEF m, n
    <2>2. SubSeq(entries, m, n) \in Seq(Commits)
      BY <2>1, SubSeqProperties
    <2>3. QED
      BY <2>2 DEF m
  <1>6. <<>> \in Seq(Commits)
    BY EmptySeq
  <1>7. QED
    BY <1>1, <1>4, <1>5, <1>6 DEF AmResult, last

\* The first i elements.
First(seq, i) == [k \in 1 .. i |-> seq[k]]

LEMMA FirstIs ==
  ASSUME NEW S, NEW seq \in Seq(S), NEW i \in 0 .. Len(seq)
  PROVE  /\ First(seq, i) \in Seq(S)
         /\ Len(First(seq, i)) = i
         /\ \A k \in 1 .. i : First(seq, i)[k] = seq[k]
         /\ First(seq, Len(seq)) = seq
         /\ First(seq, 0) = <<>>
         /\ i < Len(seq) => Append(First(seq, i), seq[i + 1]) = First(seq, i + 1)
  <1> DEFINE n == Len(seq)
  <1>1. n \in Nat /\ seq \in [1 .. n -> S] /\ i \in Nat /\ i <= n
    BY LenProperties
  <1> HIDE DEF n
  <1>2. \A j \in Nat : j <= n => First(seq, j) \in [1 .. j -> S]
    BY <1>1 DEF First
  <1>3. \A j \in Nat : j <= n => First(seq, j) \in Seq(S) /\ Len(First(seq, j)) = j
    BY <1>1, <1>2, SeqDef, LenProperties
  <1>4. \A k \in 1 .. i : First(seq, i)[k] = seq[k]
    BY DEF First
  <1>5. First(seq, n) = seq
    BY <1>1 DEF First
  <1>6. First(seq, 0) = <<>>
    <2>1. First(seq, 0) \in Seq(S) /\ Len(First(seq, 0)) = 0
      BY <1>1, <1>3
    <2>2. QED
      BY <2>1, EmptySeq
  <1>7. ASSUME i < n PROVE Append(First(seq, i), seq[i + 1]) = First(seq, i + 1)
    <2>1. i + 1 \in Nat /\ i + 1 <= n /\ seq[i + 1] \in S
      BY <1>1, <1>7
    <2>2. /\ First(seq, i) \in Seq(S) /\ Len(First(seq, i)) = i
          /\ First(seq, i + 1) \in Seq(S) /\ Len(First(seq, i + 1)) = i + 1
      BY <1>1, <1>3, <2>1
    <2> DEFINE x == Append(First(seq, i), seq[i + 1])
    <2>3. /\ x \in Seq(S) /\ Len(x) = i + 1 /\ x[i + 1] = seq[i + 1]
          /\ \A k \in 1 .. i : x[k] = First(seq, i)[k]
      BY <2>1, <2>2, AppendProperties
    <2> HIDE DEF x
    <2>4. \A k \in 1 .. i + 1 : x[k] = First(seq, i + 1)[k]
      BY <1>1, <1>4, <2>3 DEF First
    <2>5. x = First(seq, i + 1)
      BY <2>2, <2>3, <2>4, SeqEqual
    <2>6. QED
      BY <2>5 DEF x
  <1>8. QED
    BY <1>1, <1>3, <1>4, <1>5, <1>6, <1>7 DEF n

\* git am of a sound series brings back its commits.
LEMMA AmReplay ==
  ASSUME NEW t \in SpotTexts, NEW entries \in Seq(Commits), Sound(t, entries)
  PROVE  AmFrom(t, <<>>, entries) = [stack |-> entries, rest |-> <<>>]
  <1> DEFINE n == Len(entries)
  <1>1. n \in Nat /\ \A i \in 1 .. n : entries[i] \in Commits
    BY LenProperties
  <1>2. <<>> \in Seq(Commits) /\ Sound(t, <<>>)
    BY EmptySeq DEF Sound
  <1>3. PICK a : /\ IsAmRun(a, t, <<>>, entries)
                 /\ AmFrom(t, <<>>, entries) = AmResult(a[n], entries)
    BY <1>2, AmRun
  <1>4. /\ a[0] = [stack |-> <<>>, stuckAt |-> 0]
        /\ \A i \in 1 .. n : a[i] = AmStep(t, a[i - 1], entries, i)
    BY <1>3 DEF IsAmRun
  <1>5. /\ First(entries, 0) = <<>> /\ First(entries, n) = entries
        /\ \A i \in 0 .. n : First(entries, i) \in Seq(Commits) /\ Len(First(entries, i)) = i
        /\ \A i \in 0 .. n : \A k \in 1 .. i : First(entries, i)[k] = entries[k]
        /\ \A i \in 0 .. n :
             i < n => Append(First(entries, i), entries[i + 1]) = First(entries, i + 1)
    <2>1. 0 \in 0 .. n
      BY <1>1
    <2>2. QED
      BY <2>1, FirstIs
  <1> DEFINE T == {i \in Nat : i <= n => a[i] = [stack |-> First(entries, i), stuckAt |-> 0]}
  <1>6. 0 \in T
    BY <1>4, <1>5
  <1>7. ASSUME NEW i \in Nat, i \in T PROVE i + 1 \in T
    <2>1. SUFFICES ASSUME i + 1 <= n
                   PROVE  a[i + 1] = [stack |-> First(entries, i + 1), stuckAt |-> 0]
      OBVIOUS
    <2>2. i \in 0 .. n /\ i + 1 \in 1 .. n /\ i < n /\ (i + 1) - 1 = i
      BY <1>1, <2>1
    <2> DEFINE stk == First(entries, i)
               c == entries[i + 1]
               head == HeadOf(t, stk)
    <2>3. a[i] = [stack |-> stk, stuckAt |-> 0]
      BY <1>7, <2>2
    <2>4. stk \in Seq(Commits) /\ Len(stk) = i /\ \A k \in 1 .. i : entries[k] = stk[k]
      BY <1>5, <2>2
    <2>5. c \in Commits
      BY <1>1, <2>2
    <2> HIDE DEF stk
    <2>6. head \in SpotTexts /\ \A s \in Spots : TextAt(t, stk, i, s, head[s])
      BY <2>4, HeadText
    <2> HIDE DEF head
    <2>7. /\ Edited(c.patch) # {}
          /\ \A s \in Edited(c.patch) :
               c.patch[s].pre # c.patch[s].post /\ TextAt(t, entries, i, s, c.patch[s].pre)
      BY <2>2 DEF Sound
    <2> HIDE DEF c
    <2>8. \A s \in Edited(c.patch) : TextAt(t, stk, i, s, c.patch[s].pre)
      BY <2>4, <2>7, SameText
    <2>9. \A s \in Edited(c.patch) : head[s] = c.patch[s].pre
      <3>1. \A s \in Edited(c.patch) : TextAt(t, stk, i, s, head[s])
        BY <2>5, <2>6, CommitParts
      <3>2. QED
        BY <2>8, <3>1, OneText
    <2>10. Merges(head, c.patch) /\ Committed(head, c) = c
      BY <2>5, <2>6, <2>7, <2>9, CommittedSame
    <2>11. Push(stk, c) = First(entries, i + 1)
      <3>1. c.patch # <<>>
        BY <2>5, <2>7, EmptyPatch
      <3>2. QED
        BY <1>5, <2>2, <3>1 DEF Push, stk, c
    <2>12. AmStep(t, a[i], entries, i + 1) = [stack |-> Push(stk, c), stuckAt |-> 0]
      BY <2>3, <2>10 DEF AmStep, head, c
    <2>13. QED
      BY <1>4, <2>2, <2>11, <2>12
  <1>8. \A i \in Nat : i \in T
    <2> HIDE DEF T
    <2> QED BY <1>6, <1>7, SetInduction
  <1>9. a[n] = [stack |-> entries, stuckAt |-> 0]
    BY <1>1, <1>5, <1>8
  <1>10. QED
    BY <1>3, <1>9 DEF AmResult

----------------------------------------------------------------------------
(* Another order of the commits.                                           *)

\* stk2 takes the commits of stk at the positions e lists, all of them, and leaves
\* those that edit a common spot in their order.
Reorders(stk2, stk, e) ==
  /\ Len(stk2) = Len(stk)
  /\ e \in [1 .. Len(stk) -> 1 .. Len(stk)]
  /\ \A i \in 1 .. Len(stk) : \E k \in 1 .. Len(stk) : e[k] = i
  /\ \A k \in 1 .. Len(stk) : stk2[k] = stk[e[k]]
  /\ \A k, l \in 1 .. Len(stk) :
       k < l /\ Edited(stk2[k].patch) \cap Edited(stk2[l].patch) # {} => e[k] < e[l]

\* After as many commits of a spot the text is the same.
LEMMA ReorderedText ==
  ASSUME NEW t, NEW stk, NEW stk2, NEW e, Len(stk) \in Nat, Reorders(stk2, stk, e),
         NEW i \in 0 .. Len(stk), NEW p \in 0 .. Len(stk), NEW s,
         \A k \in 1 .. Len(stk) : s \in Edited(stk2[k].patch) => (k <= i <=> e[k] <= p),
         NEW v, TextAt(t, stk, p, s, v)
  PROVE  TextAt(t, stk2, i, s, v)
  <1> DEFINE n == Len(stk)
             Edits2(k) == s \in Edited(stk2[k].patch)
             Edits1(k) == s \in Edited(stk[k].patch)
  <1>1. /\ e \in [1 .. n -> 1 .. n]
        /\ \A j \in 1 .. n : \E k \in 1 .. n : e[k] = j
        /\ \A k \in 1 .. n : stk2[k] = stk[e[k]]
        /\ \A k, l \in 1 .. n : k < l /\ Edits2(k) /\ Edits2(l) => e[k] < e[l]
    BY DEF Reorders
  <1>2. \A k \in 1 .. n : Edits2(k) <=> Edits1(e[k])
    BY <1>1
  <1>3. /\ n \in Nat /\ i \in 0 .. n /\ p \in 0 .. n
        /\ \A k \in 1 .. n : Edits2(k) => (k <= i <=> e[k] <= p)
    OBVIOUS
  <1>4. /\ \A j \in 0 .. p : Untouched(stk, j, p, s) <=> \A k \in j + 1 .. p : ~ Edits1(k)
        /\ \A j \in 0 .. i : Untouched(stk2, j, i, s) <=> \A k \in j + 1 .. i : ~ Edits2(k)
    BY DEF Untouched
  <1> HIDE DEF n, Edits1, Edits2
  <1>5. CASE Untouched(stk, 0, p, s) /\ v = t[s]
    <2>1. ASSUME NEW k \in 1 .. i, Edits2(k) PROVE FALSE
      <3>1. k \in 1 .. n
        BY <1>3
      <3>2. e[k] \in 1 .. p /\ Edits1(e[k])
        BY <1>1, <1>2, <1>3, <2>1, <3>1
      <3>3. QED
        BY <1>3, <1>4, <1>5, <3>2
    <2>2. Untouched(stk2, 0, i, s)
      BY <1>3, <1>4, <2>1
    <2>3. QED
      BY <1>5, <2>2 DEF TextAt
  <1>6. ASSUME NEW j \in 1 .. p, Edits1(j), Untouched(stk, j, p, s), v = stk[j].patch[s].post
        PROVE  TextAt(t, stk2, i, s, v)
    <2>1. j \in 1 .. n /\ j \in 0 .. p
      BY <1>3
    <2>2. PICK k \in 1 .. n : e[k] = j
      BY <1>1, <2>1
    <2>3. Edits2(k) /\ k <= i
      BY <1>2, <1>3, <1>6, <2>1, <2>2
    <2>4. ASSUME NEW l \in k + 1 .. i, Edits2(l) PROVE FALSE
      <3>1. l \in 1 .. n /\ k < l /\ l <= i
        BY <1>3, <2>2
      <3>2. e[k] < e[l] /\ e[l] <= p /\ e[l] \in 1 .. n
        BY <1>1, <1>3, <2>3, <2>4, <3>1
      <3>3. e[l] \in j + 1 .. p
        BY <1>3, <2>1, <2>2, <3>2
      <3>4. Edits1(e[l])
        BY <1>2, <2>4, <3>1
      <3>5. QED
        BY <1>4, <1>6, <2>1, <3>3, <3>4
    <2>5. k \in 0 .. i /\ k \in 1 .. i
      BY <1>3, <2>2, <2>3
    <2>6. Untouched(stk2, k, i, s)
      BY <1>4, <2>4, <2>5
    <2>7. v = stk2[k].patch[s].post
      BY <1>1, <1>6, <2>2
    <2>8. QED
      BY <2>3, <2>5, <2>6, <2>7 DEF TextAt, Edits2
  <1>7. QED
    BY <1>5, <1>6 DEF TextAt, Edits1

\* The reordered stack is sound as well, and makes the same tree.
LEMMA ReorderedSound ==
  ASSUME NEW t \in SpotTexts, NEW stk \in Seq(Commits), NEW stk2 \in Seq(Commits),
         Sound(t, stk), NEW e, Reorders(stk2, stk, e)
  PROVE  Sound(t, stk2) /\ HeadOf(t, stk2) = HeadOf(t, stk)
  <1> DEFINE n == Len(stk)
  <1>1. n \in Nat /\ Len(stk2) = n
    BY LenProperties DEF Reorders
  <1>2. /\ e \in [1 .. n -> 1 .. n]
        /\ \A k \in 1 .. n : stk2[k] = stk[e[k]]
        /\ \A k, l \in 1 .. n :
             k < l /\ Edited(stk2[k].patch) \cap Edited(stk2[l].patch) # {} => e[k] < e[l]
    BY DEF Reorders
  <1>3. ASSUME NEW i \in 1 .. n
        PROVE  /\ Edited(stk2[i].patch) # {}
               /\ \A s \in Edited(stk2[i].patch) :
                    /\ stk2[i].patch[s].pre # stk2[i].patch[s].post
                    /\ TextAt(t, stk2, i - 1, s, stk2[i].patch[s].pre)
    <2>1. e[i] \in 1 .. n /\ stk2[i] = stk[e[i]]
      BY <1>2
    <2>2. /\ Edited(stk2[i].patch) # {}
          /\ \A s \in Edited(stk2[i].patch) :
               /\ stk2[i].patch[s].pre # stk2[i].patch[s].post
               /\ TextAt(t, stk, e[i] - 1, s, stk2[i].patch[s].pre)
      BY <2>1 DEF Sound
    <2>3. ASSUME NEW s \in Edited(stk2[i].patch)
          PROVE  TextAt(t, stk2, i - 1, s, stk2[i].patch[s].pre)
      <3> DEFINE q == i - 1
                 p == e[i] - 1
                 v == stk2[i].patch[s].pre
      <3>1. ASSUME NEW k \in 1 .. n, s \in Edited(stk2[k].patch)
            PROVE  k <= q <=> e[k] <= p
        <4>1. k < i => e[k] < e[i]
          BY <1>2, <3>1
        <4>2. i < k => e[i] < e[k]
          BY <1>2, <3>1
        <4>3. e[k] \in Int /\ e[i] \in Int
          BY <1>2
        <4>4. QED
          BY <4>1, <4>2, <4>3
      <3>2. q \in 0 .. n /\ p \in 0 .. n /\ TextAt(t, stk, p, s, v)
        BY <1>1, <2>1, <2>2
      <3> HIDE DEF q, p, v
      <3>3. TextAt(t, stk2, q, s, v)
        BY <1>1, <3>1, <3>2, ReorderedText
      <3>4. QED
        BY <3>3 DEF q, v
    <2>4. QED
      BY <2>2, <2>3
  <1>4. Sound(t, stk2)
    BY <1>1, <1>3 DEF Sound
  <1>5. /\ HeadOf(t, stk) \in SpotTexts /\ HeadOf(t, stk2) \in SpotTexts
        /\ \A s \in Spots : TextAt(t, stk, n, s, HeadOf(t, stk)[s])
        /\ \A s \in Spots : TextAt(t, stk2, n, s, HeadOf(t, stk2)[s])
    BY <1>1, HeadText
  <1>6. ASSUME NEW s \in Spots PROVE HeadOf(t, stk2)[s] = HeadOf(t, stk)[s]
    <2>1. \A k \in 1 .. n : k <= n <=> e[k] <= n
      BY <1>1, <1>2
    <2>2. n \in 0 .. n
      BY <1>1
    <2>3. TextAt(t, stk2, n, s, HeadOf(t, stk)[s])
      BY <1>1, <1>5, <2>1, <2>2, ReorderedText
    <2>4. QED
      BY <1>1, <1>5, <2>3, OneText
  <1>7. HeadOf(t, stk2) = HeadOf(t, stk)
    BY <1>5, <1>6 DEF SpotTexts
  <1>8. QED
    BY <1>4, <1>7

----------------------------------------------------------------------------
(* What regen writes for a stack.                                          *)

\* p is the position of the first cherry-pick, one after the stack if it has none.
IsFirstPick(stk, p) ==
  /\ p \in 1 .. Len(stk) + 1
  /\ \A j \in 1 .. p - 1 : stk[j].pick = NoPick
  /\ p <= Len(stk) => stk[p].pick # NoPick

LEMMA FirstPickIs ==
  ASSUME NEW stk \in Seq(Commits)
  PROVE  /\ IsFirstPick(stk, FirstPick(stk))
         /\ \A p : IsFirstPick(stk, p) => FirstPick(stk) = p
  <1> DEFINE n == Len(stk)
             T == {i \in 1 .. n : stk[i].pick # NoPick}
             Q(i) == stk[i].pick # NoPick /\ \A j \in 1 .. i - 1 : stk[j].pick = NoPick
  <1>1. n \in Nat /\ DOMAIN stk = 1 .. n
    BY LenProperties
  <1>2. FirstPick(stk) = IF \E i \in DOMAIN stk : stk[i].pick # NoPick
                         THEN CHOOSE i \in DOMAIN stk : Q(i) ELSE n + 1
    BY DEF FirstPick
  <1>3. IsFirstPick(stk, FirstPick(stk))
    <2>1. CASE T = {}
      <3>1. FirstPick(stk) = n + 1
        BY <1>2, <2>1
      <3>2. n + 1 \in 1 .. n + 1 /\ \A j \in 1 .. (n + 1) - 1 : stk[j].pick = NoPick
        BY <1>1, <2>1
      <3>3. ~ (n + 1 <= n)
        BY <1>1
      <3>4. QED
        BY <3>1, <3>2, <3>3 DEF IsFirstPick
    <2>2. CASE T # {}
      <3>1. PICK p \in T : \A m \in T : p <= m
        <4>1. T \subseteq Nat
          BY <1>1
        <4> HIDE DEF T
        <4>2. QED
          BY <2>2, <4>1, LeastNumber
      <3>2. p \in 1 .. n /\ Q(p)
        BY <1>1, <3>1
      <3>3. /\ (CHOOSE i \in DOMAIN stk : Q(i)) \in DOMAIN stk
            /\ Q(CHOOSE i \in DOMAIN stk : Q(i))
        <4>1. \E i \in DOMAIN stk : Q(i)
          BY <1>1, <3>2
        <4> HIDE DEF Q
        <4>2. QED
          BY <4>1
      <3>4. FirstPick(stk) \in 1 .. n /\ Q(FirstPick(stk))
        <4>1. \E i \in DOMAIN stk : stk[i].pick # NoPick
          BY <1>1, <3>2
        <4> HIDE DEF Q
        <4>2. QED
          BY <1>1, <1>2, <3>3, <4>1
      <3>5. QED
        BY <1>1, <3>4 DEF IsFirstPick
    <2>3. QED
      BY <2>1, <2>2
  <1>4. ASSUME NEW p, NEW q, IsFirstPick(stk, p), IsFirstPick(stk, q) PROVE p = q
    <2>1. p \in 1 .. n + 1 /\ q \in 1 .. n + 1
      BY <1>4 DEF IsFirstPick
    <2>2. CASE p < q
      BY <1>1, <1>4, <2>1, <2>2 DEF IsFirstPick
    <2>3. CASE q < p
      BY <1>1, <1>4, <2>1, <2>3 DEF IsFirstPick
    <2>4. QED
      BY <1>1, <2>1, <2>2, <2>3
  <1>5. QED
    BY <1>3, <1>4

\* Two positions whose commits share a file.
Shares(stk, i, j) == Files(stk[i]) \cap Files(stk[j]) # {}

\* A set of positions that holds the cherry-picks and, from the first on, whatever
\* shares a file with one of the set.
IsClosed(stk, part) ==
  /\ part \subseteq Above(stk)
  /\ \A i \in Above(stk) : stk[i].pick # NoPick => i \in part
  /\ \A i \in Above(stk) : \A j \in part : Shares(stk, i, j) => i \in part

\* The positions that go to upstream/ are the smallest such set.
LEMMA PartIs ==
  ASSUME NEW stk
  PROVE  /\ IsClosed(stk, UpstreamPart(stk))
         /\ \A part : IsClosed(stk, part) => UpstreamPart(stk) \subseteq part
  <1> DEFINE Closed(part) ==
               \A i \in Above(stk) :
                 (stk[i].pick # NoPick \/ \E j \in part : Shares(stk, i, j)) => i \in part
  <1>1. UpstreamPart(stk)
          = {i \in Above(stk) : \A part \in SUBSET Above(stk) : Closed(part) => i \in part}
    BY DEF UpstreamPart, Shares
  <1>2. \A part : IsClosed(stk, part) <=> part \in SUBSET Above(stk) /\ Closed(part)
    BY DEF IsClosed
  <1>3. Closed(UpstreamPart(stk))
    <2> SUFFICES ASSUME NEW i \in Above(stk),
                        stk[i].pick # NoPick \/ \E j \in UpstreamPart(stk) : Shares(stk, i, j),
                        NEW part \in SUBSET Above(stk), Closed(part)
                 PROVE  i \in part
      BY <1>1
    <2>1. \A j \in UpstreamPart(stk) : j \in part
      BY <1>1
    <2>2. QED
      BY <2>1
  <1>4. QED
    BY <1>1, <1>2, <1>3

\* e lists the positions of a stack, first the m that go to series/ and then the
\* others, each in their order.
Splits(e, m, stk) ==
  /\ m \in 0 .. Len(stk)
  /\ e \in [1 .. Len(stk) -> 1 .. Len(stk)]
  /\ \A i \in 1 .. Len(stk) : \E k \in 1 .. Len(stk) : e[k] = i
  /\ \A k, l \in 1 .. Len(stk) : e[k] = e[l] => k = l
  /\ \A k \in 1 .. m : e[k] \notin UpstreamPart(stk)
  /\ \A k \in m + 1 .. Len(stk) : e[k] \in UpstreamPart(stk)
  /\ \A k, l \in 1 .. m : k < l => e[k] < e[l]
  /\ \A k, l \in m + 1 .. Len(stk) : k < l => e[k] < e[l]

\* The series as one sequence, in the order it is applied.
InSeriesOrder(fresh) == fresh.musa \o fresh.upstream

LEMMA PartRange ==
  ASSUME NEW stk \in Seq(Commits)
  PROVE  /\ FirstPick(stk) \in 1 .. Len(stk) + 1
         /\ Above(stk) \subseteq 1 .. Len(stk)
         /\ UpstreamPart(stk) \subseteq 1 .. Len(stk)
  <1>1. FirstPick(stk) \in 1 .. Len(stk) + 1 /\ Len(stk) \in Nat
    BY FirstPickIs, LenProperties DEF IsFirstPick
  <1>2. UpstreamPart(stk) \subseteq Above(stk)
    BY PartIs DEF IsClosed
  <1>3. QED
    BY <1>1, <1>2 DEF Above

\* The elements of two stacks, one after the other.
LEMMA Joined ==
  ASSUME NEW a \in Seq(Commits), NEW b \in Seq(Commits)
  PROVE  /\ a \o b \in Seq(Commits) /\ Len(a \o b) = Len(a) + Len(b)
         /\ \A k \in 1 .. Len(a) + Len(b) :
              (a \o b)[k] = IF k <= Len(a) THEN a[k] ELSE b[k - Len(a)]
  BY ConcatProperties

LEMMA FormattedSplits ==
  ASSUME NEW stk \in Seq(Commits)
  PROVE  /\ Formatted(stk).musa \in Seq(Commits) /\ Formatted(stk).upstream \in Seq(Commits)
         /\ Len(Formatted(stk).musa) + Len(Formatted(stk).upstream) = Len(stk)
         /\ \E e : /\ Splits(e, Len(Formatted(stk).musa), stk)
                   /\ InSeriesOrder(Formatted(stk)) = Listed(stk, e, Len(stk))
  <1> DEFINE n == Len(stk)
             P2 == UpstreamPart(stk)
             P1 == (1 .. n) \ P2
             m == Cardinality(P1)
             u == Cardinality(P2)
             musa == Formatted(stk).musa
             up == Formatted(stk).upstream
  <1>1. n \in Nat /\ stk \in [1 .. n -> Commits] /\ DOMAIN stk = 1 .. n
    BY LenProperties
  <1>2. P2 \in SUBSET (1 .. n) /\ P1 \in SUBSET (1 .. n) /\ P1 \subseteq Int /\ P2 \subseteq Int
    BY PartRange
  <1>3. musa = At(stk, P1) /\ up = At(stk, P2)
    BY <1>1 DEF Formatted
  <1> HIDE DEF P2
  <1>4. /\ musa \in Seq(Commits) /\ Len(musa) = m /\ IsFiniteSet(P1)
        /\ up \in Seq(Commits) /\ Len(up) = u /\ IsFiniteSet(P2)
    BY <1>2, <1>3, AtTakes
  <1>5. m \in Nat /\ u \in Nat /\ m + u = n
    <2>1. IsFiniteSet(1 .. n) /\ Cardinality(1 .. n) = n
      <3> HIDE DEF n
      <3> QED BY <1>1, FS_Interval
    <2>2. (1 .. n) \cap P2 = P2
      BY <1>2
    <2> HIDE DEF n
    <2>3. Cardinality(P1) = n - Cardinality((1 .. n) \cap P2)
      BY <2>1, FS_Difference
    <2>4. m \in Nat /\ u \in Nat
      BY <1>4, FS_CardinalityType
    <2>5. m = n - u
      BY <2>2, <2>3, Zenon
    <2> HIDE DEF m, u
    <2>6. QED
      BY <1>1, <2>4, <2>5
  <1>6. PICK a : Enumerates(a, P1, m) /\ At(stk, P1) = Listed(stk, a, m)
    BY <1>2, <1>4, AtEnumerates
  <1>7. PICK b : Enumerates(b, P2, u) /\ At(stk, P2) = Listed(stk, b, u)
    BY <1>2, <1>4, AtEnumerates
  <1> DEFINE e == [k \in 1 .. n |-> IF k <= m THEN a[k] ELSE b[k - m]]
  <1>8. /\ a \in [1 .. m -> P1] /\ b \in [1 .. u -> P2]
        /\ \A k, l \in 1 .. m : k < l => a[k] < a[l]
        /\ \A k, l \in 1 .. u : k < l => b[k] < b[l]
        /\ \A i \in P1 : \E k \in 1 .. m : a[k] = i
        /\ \A i \in P2 : \E k \in 1 .. u : b[k] = i
    BY <1>6, <1>7 DEF Enumerates
  <1>9. P1 \cap P2 = {} /\ P1 \cup P2 = 1 .. n
    BY <1>2
  <1> HIDE DEF P1, m, u, n
  <1>10. /\ \A k \in 1 .. m : k \in 1 .. n /\ e[k] = a[k] /\ e[k] \in P1
         /\ \A k \in m + 1 .. n : k \in 1 .. n /\ k - m \in 1 .. u /\ e[k] = b[k - m] /\ e[k] \in P2
         /\ \A k \in 1 .. u : m + k \in m + 1 .. n /\ e[m + k] = b[k]
         /\ \A k \in 1 .. n : k \in 1 .. m \/ k \in m + 1 .. n
    BY <1>1, <1>5, <1>8
  <1>11. e \in [1 .. n -> 1 .. n]
    <2>1. \A k \in 1 .. n : e[k] \in 1 .. n
      BY <1>9, <1>10
    <2>2. QED
      BY <2>1
  <1> HIDE DEF e
  <1>12. ASSUME NEW i \in 1 .. n PROVE \E k \in 1 .. n : e[k] = i
    <2>1. CASE i \in P1
      <3>1. PICK k \in 1 .. m : a[k] = i
        BY <1>8, <2>1
      <3>2. k \in 1 .. n /\ e[k] = i
        BY <1>10, <3>1
      <3>3. QED
        BY <3>2
    <2>2. CASE i \in P2
      <3>1. PICK k \in 1 .. u : b[k] = i
        BY <1>8, <2>2
      <3>2. m + k \in m + 1 .. n /\ e[m + k] = i
        BY <1>10, <3>1
      <3>3. m + k \in 1 .. n
        BY <1>10, <3>2
      <3>4. QED
        BY <3>2, <3>3
    <2>3. QED
      BY <1>9, <2>1, <2>2
  <1>13. \A k, l \in 1 .. m : k < l => e[k] < e[l]
    BY <1>8, <1>10
  <1>14. \A k, l \in m + 1 .. n : k < l => e[k] < e[l]
    <2> SUFFICES ASSUME NEW k \in m + 1 .. n, NEW l \in m + 1 .. n, k < l PROVE e[k] < e[l]
      OBVIOUS
    <2>1. k - m < l - m
      BY <1>1, <1>5
    <2>2. QED
      BY <1>8, <1>10, <2>1
  <1>15. \A k, l \in 1 .. n : e[k] = e[l] => k = l
    <2> SUFFICES ASSUME NEW k \in 1 .. n, NEW l \in 1 .. n, k < l PROVE e[k] # e[l]
      <3>1. \A k, l \in 1 .. n : k < l => e[k] # e[l]
        OBVIOUS
      <3>2. \A k, l \in 1 .. n : k < l \/ l < k \/ k = l
        BY <1>1
      <3>3. QED
        BY <3>1, <3>2
    <2>1. e[k] \in Int /\ e[l] \in Int
      BY <1>11
    <2>2. CASE k \in 1 .. m /\ l \in 1 .. m
      BY <1>13, <2>1, <2>2
    <2>3. CASE k \in m + 1 .. n /\ l \in m + 1 .. n
      BY <1>14, <2>1, <2>3
    <2>4. CASE k \in 1 .. m /\ l \in m + 1 .. n
      BY <1>9, <1>10, <2>4
    <2>5. QED
      BY <1>5, <1>10, <2>2, <2>3, <2>4
  <1>16. Splits(e, m, stk)
    <2>1. m \in 0 .. n
      BY <1>1, <1>5
    <2>2. \A k \in 1 .. m : e[k] \notin P2
      BY <1>9, <1>10
    <2>3. \A k \in m + 1 .. n : e[k] \in P2
      BY <1>10
    <2>4. QED
      BY <1>11, <1>12, <1>13, <1>14, <1>15, <2>1, <2>2, <2>3 DEF Splits, n, P2
  <1>17. InSeriesOrder(Formatted(stk)) = Listed(stk, e, n)
    <2> DEFINE out == musa \o up
               list == Listed(stk, e, n)
    <2>1. /\ out \in Seq(Commits) /\ Len(out) = n
          /\ \A k \in 1 .. n : out[k] = IF k <= m THEN musa[k] ELSE up[k - m]
      BY <1>4, <1>5, Joined
    <2>2. list \in [1 .. n -> Commits]
      BY <1>1, <1>11 DEF Listed
    <2>3. list \in Seq(Commits) /\ Len(list) = n
      <3> HIDE DEF list
      <3>1. list \in Seq(Commits)
        BY <1>1, <2>2, SeqDef
      <3>2. DOMAIN list = 1 .. n
        BY <2>2
      <3>3. QED
        BY <1>1, <3>1, <3>2, LenProperties
    <2>4. ASSUME NEW k \in 1 .. n PROVE out[k] = list[k]
      <3>1. list[k] = stk[e[k]]
        BY DEF Listed
      <3>2. CASE k \in 1 .. m
        <4>1. k <= m /\ musa[k] = stk[a[k]]
          BY <1>3, <1>5, <1>6, <3>2 DEF Listed
        <4>2. QED
          BY <1>10, <2>1, <3>1, <3>2, <4>1
      <3>3. CASE k \in m + 1 .. n
        <4>1. k - m \in 1 .. u /\ ~ (k <= m)
          BY <1>5, <1>10, <3>3
        <4>2. up[k - m] = stk[b[k - m]]
          BY <1>3, <1>7, <4>1 DEF Listed
        <4>3. QED
          BY <1>10, <2>1, <3>1, <3>3, <4>1, <4>2
      <3>4. QED
        BY <1>10, <3>2, <3>3
    <2> HIDE DEF out, list
    <2>5. out = list
      BY <2>1, <2>3, <2>4, SeqEqual
    <2>6. QED
      BY <2>5 DEF out, list, InSeriesOrder
  <1>18. QED
    BY <1>4, <1>5, <1>16, <1>17 DEF n

\* regen's order keeps commits that share a spot, and so a file, in their order.
LEMMA SplitReorders ==
  ASSUME NEW stk \in Seq(Commits), NEW e, NEW m, Splits(e, m, stk),
         NEW out \in Seq(Commits), out = Listed(stk, e, Len(stk))
  PROVE  Reorders(out, stk, e)
  <1> DEFINE n == Len(stk)
             part == UpstreamPart(stk)
  <1>1. n \in Nat /\ Len(out) = n
    <2>1. n \in Nat /\ stk \in [1 .. n -> Commits] /\ e \in [1 .. n -> 1 .. n]
      BY LenProperties DEF Splits
    <2> HIDE DEF n
    <2>2. Listed(stk, e, n) \in [1 .. n -> Commits]
      BY <2>1 DEF Listed
    <2>3. Len(Listed(stk, e, n)) = n
      BY <2>1, <2>2, SeqDef, LenProperties
    <2>4. QED
      BY <2>1, <2>3 DEF n
  <1>2. \A k \in 1 .. n : out[k] = stk[e[k]]
    BY DEF Listed
  <1>3. /\ m \in 0 .. n
        /\ e \in [1 .. n -> 1 .. n]
        /\ \A i \in 1 .. n : \E k \in 1 .. n : e[k] = i
        /\ \A k, l \in 1 .. n : e[k] = e[l] => k = l
        /\ \A k \in 1 .. m : e[k] \notin part
        /\ \A k \in m + 1 .. n : e[k] \in part
        /\ \A k, l \in 1 .. m : k < l => e[k] < e[l]
        /\ \A k, l \in m + 1 .. n : k < l => e[k] < e[l]
    BY DEF Splits
  <1>4. IsClosed(stk, part)
    BY PartIs
  <1>5. FirstPick(stk) \in 1 .. n + 1 /\ Above(stk) = FirstPick(stk) .. n
    BY PartRange DEF Above
  <1> HIDE DEF n, part
  <1>6. ASSUME NEW k \in 1 .. n, NEW l \in 1 .. n, k < l,
               Edited(out[k].patch) \cap Edited(out[l].patch) # {}
        PROVE  e[k] < e[l]
    <2>1. e[k] \in 1 .. n /\ e[l] \in 1 .. n /\ e[k] # e[l]
      BY <1>1, <1>3, <1>6
    <2>2. CASE k \in 1 .. m /\ l \in 1 .. m
      BY <1>3, <1>6, <2>2
    <2>3. CASE k \in m + 1 .. n /\ l \in m + 1 .. n
      BY <1>3, <1>6, <2>3
    <2>4. CASE k \in 1 .. m /\ l \in m + 1 .. n
      <3>1. SUFFICES ASSUME e[l] < e[k] PROVE FALSE
        BY <2>1
      <3>2. e[l] \in part /\ e[k] \notin part
        BY <1>3, <2>4
      <3>3. e[l] \in Above(stk)
        BY <1>4, <3>2 DEF IsClosed
      <3>4. e[k] \in Above(stk)
        BY <1>1, <1>5, <2>1, <3>1, <3>3
      <3>5. Shares(stk, e[k], e[l])
        <4>1. PICK s : s \in Edited(out[k].patch) /\ s \in Edited(out[l].patch)
          BY <1>6
        <4>2. s \in Edited(stk[e[k]].patch) /\ s \in Edited(stk[e[l]].patch)
          BY <1>2, <4>1
        <4>3. FileOf[s] \in Files(stk[e[k]]) /\ FileOf[s] \in Files(stk[e[l]])
          BY <4>2 DEF Files
        <4>4. QED
          BY <4>3 DEF Shares
      <3>6. QED
        BY <1>4, <3>2, <3>4, <3>5 DEF IsClosed
    <2>5. \A j \in 1 .. n : j \in 1 .. m \/ j \in m + 1 .. n
      BY <1>1, <1>3
    <2>6. ~ (k \in m + 1 .. n /\ l \in 1 .. m)
      BY <1>1, <1>3, <1>6
    <2>7. QED
      BY <2>2, <2>3, <2>4, <2>5, <2>6
  <1>7. QED
    BY <1>1, <1>2, <1>3, <1>6 DEF Reorders, n

\* A stack in the order of its series: what goes to upstream/ is all at the end.
Settled(stk) == UpstreamPart(stk) = Above(stk)

\* regen of such a stack writes it as it is.
LEMMA SettledFormat ==
  ASSUME NEW stk \in Seq(Commits), Settled(stk)
  PROVE  /\ Formatted(stk).musa = First(stk, FirstPick(stk) - 1)
         /\ Formatted(stk).upstream
              = [k \in 1 .. Len(stk) - FirstPick(stk) + 1 |-> stk[FirstPick(stk) + k - 1]]
  <1> DEFINE n == Len(stk)
             p == FirstPick(stk)
             q == p - 1
  <1>1. n \in Nat /\ DOMAIN stk = 1 .. n /\ p \in 1 .. n + 1
    BY PartRange, LenProperties
  <1>2. UpstreamPart(stk) = p .. n
    BY DEF Settled, Above
  <1>3. Formatted(stk).musa = At(stk, DOMAIN stk \ (p .. n)) /\ Formatted(stk).upstream = At(stk, p .. n)
    BY <1>2 DEF Formatted
  <1> HIDE DEF n, p
  <1>4. (1 .. n) \ (p .. n) = 1 .. q
    BY <1>1
  <1>5. q \in Int /\ 1 <= q + 1 /\ p \in Int /\ n \in Int /\ p <= n + 1 /\ q \in Nat
    BY <1>1
  <1> HIDE DEF q
  <1>6. At(stk, 1 .. q) = [k \in 1 .. q - 1 + 1 |-> stk[1 + k - 1]]
    BY <1>5, AtInterval
  <1>7. q - 1 + 1 = q /\ \A k \in 1 .. q : 1 + k - 1 = k
    BY <1>5
  <1>8. At(stk, 1 .. q) = First(stk, q)
    BY <1>6, <1>7 DEF First
  <1>9. At(stk, p .. n) = [k \in 1 .. n - p + 1 |-> stk[p + k - 1]]
    BY <1>5, AtInterval
  <1>10. QED
    BY <1>1, <1>3, <1>4, <1>8, <1>9 DEF n, p, q

\* What regen writes is in that order, and regen would write it the same way.
LEMMA RegenSettles ==
  ASSUME NEW stk \in Seq(Commits)
  PROVE  /\ InSeriesOrder(Formatted(stk)) \in Seq(Commits)
         /\ Settled(InSeriesOrder(Formatted(stk)))
         /\ Formatted(InSeriesOrder(Formatted(stk))) = Formatted(stk)
  <1> DEFINE n == Len(stk)
             part == UpstreamPart(stk)
             musa == Formatted(stk).musa
             up == Formatted(stk).upstream
             m == Len(musa)
             out == InSeriesOrder(Formatted(stk))
  <1>1. musa \in Seq(Commits) /\ up \in Seq(Commits) /\ m + Len(up) = n
    BY FormattedSplits
  <1>2. PICK e : Splits(e, m, stk) /\ out = Listed(stk, e, n)
    BY FormattedSplits
  <1>3. n \in Nat /\ m \in 0 .. n /\ Len(up) \in Nat /\ Len(up) = n - m
    <2>1. m \in 0 .. n
      BY <1>2 DEF Splits
    <2>2. n \in Nat /\ Len(up) \in Nat
      BY <1>1, LenProperties
    <2> HIDE DEF m, n
    <2>3. QED
      BY <1>1, <2>1, <2>2
  <1>4. /\ out \in Seq(Commits) /\ Len(out) = n
        /\ \A k \in 1 .. n : out[k] = IF k <= m THEN musa[k] ELSE up[k - m]
    BY <1>1, Joined DEF InSeriesOrder
  <1>5. \A k \in 1 .. n : out[k] = stk[e[k]]
    BY <1>2 DEF Listed
  <1>6. /\ e \in [1 .. n -> 1 .. n]
        /\ \A i \in 1 .. n : \E k \in 1 .. n : e[k] = i
        /\ \A k, l \in 1 .. n : e[k] = e[l] => k = l
        /\ \A k \in 1 .. m : e[k] \notin part
        /\ \A k \in m + 1 .. n : e[k] \in part
        /\ \A k, l \in m + 1 .. n : k < l => e[k] < e[l]
    BY <1>2 DEF Splits
  <1>7. IsClosed(stk, part) /\ \A q : IsClosed(stk, q) => part \subseteq q
    BY PartIs
  <1>8. IsFirstPick(stk, FirstPick(stk)) /\ Above(stk) = FirstPick(stk) .. n
    BY FirstPickIs DEF Above
  <1> DEFINE fp == FirstPick(stk)
  <1>9. /\ fp \in 1 .. n + 1
        /\ \A j \in 1 .. fp - 1 : stk[j].pick = NoPick
        /\ fp <= n => stk[fp].pick # NoPick
    BY <1>8 DEF IsFirstPick
  <1> HIDE DEF n, part, fp, m, out
  <1>10. \A i \in 1 .. n : stk[i].pick # NoPick => i \in Above(stk)
    BY <1>3, <1>8, <1>9 DEF fp
  <1>11. IsFirstPick(out, m + 1)
    <2>1. ASSUME NEW j \in 1 .. (m + 1) - 1 PROVE out[j].pick = NoPick
      <3>1. j \in 1 .. m /\ j \in 1 .. n
        BY <1>3
      <3>2. e[j] \in 1 .. n /\ e[j] \notin part /\ out[j] = stk[e[j]]
        BY <1>5, <1>6, <3>1
      <3>3. QED
        BY <1>7, <1>10, <3>2 DEF IsClosed
    <2>2. ASSUME m + 1 <= n PROVE out[m + 1].pick # NoPick
      <3>1. m + 1 \in 1 .. n /\ m + 1 \in m + 1 .. n
        BY <1>3, <2>2
      <3>2. e[m + 1] \in part /\ e[m + 1] \in 1 .. n
        BY <1>6, <3>1
      <3>3. e[m + 1] \in Above(stk)
        BY <1>7, <3>2 DEF IsClosed
      <3>4. e[m + 1] \in fp .. n
        BY <1>8, <3>3 DEF fp
      <3>5. fp \in 1 .. n /\ fp <= n /\ fp \in Above(stk)
        BY <1>3, <1>8, <1>9, <3>4 DEF fp
      <3>6. fp \in part
        BY <1>7, <1>9, <3>5 DEF IsClosed
      <3>7. PICK k \in 1 .. n : e[k] = fp
        BY <1>6, <3>5
      <3>8. k \in m + 1 .. n
        BY <1>3, <1>6, <3>6, <3>7
      <3>9. m + 1 < k => e[m + 1] < e[k]
        BY <1>6, <3>1, <3>8
      <3>10. k = m + 1
        BY <1>3, <1>9, <3>2, <3>4, <3>7, <3>8, <3>9
      <3>11. out[m + 1] = stk[fp]
        BY <1>5, <3>7, <3>10
      <3>12. QED
        BY <1>9, <3>5, <3>11
    <2>3. m + 1 \in 1 .. Len(out) + 1
      BY <1>3, <1>4
    <2>4. QED
      BY <1>4, <2>1, <2>2, <2>3 DEF IsFirstPick
  <1>12. FirstPick(out) = m + 1
    BY <1>4, <1>11, FirstPickIs
  <1>13. Above(out) = m + 1 .. n
    BY <1>4, <1>12 DEF Above
  <1>14. ASSUME NEW Q, IsClosed(out, Q) PROVE m + 1 .. n \subseteq Q
    <2> DEFINE Q0 == {e[k] : k \in Q}
    <2>1. Q \subseteq m + 1 .. n
      BY <1>13, <1>14 DEF IsClosed
    <2>2. \A k \in Q : k \in 1 .. n /\ e[k] \in part /\ e[k] \in Above(stk)
      BY <1>3, <1>6, <1>7, <2>1 DEF IsClosed
    <2>3. \A i \in part : \E k \in m + 1 .. n : k \in 1 .. n /\ e[k] = i
      <3> SUFFICES ASSUME NEW i \in part PROVE \E k \in m + 1 .. n : k \in 1 .. n /\ e[k] = i
        OBVIOUS
      <3>1. i \in 1 .. n
        BY PartRange DEF part, n
      <3>2. PICK k \in 1 .. n : e[k] = i
        BY <1>6, <3>1
      <3>3. k \in m + 1 .. n
        BY <1>3, <1>6, <3>2
      <3>4. QED
        BY <3>2, <3>3
    <2>4. ASSUME NEW i \in Above(stk), stk[i].pick # NoPick PROVE i \in Q0
      <3>1. i \in part
        BY <1>7, <2>4 DEF IsClosed
      <3>2. PICK k \in m + 1 .. n : k \in 1 .. n /\ e[k] = i
        BY <2>3, <3>1
      <3>3. k \in Q
        BY <1>5, <1>13, <1>14, <2>4, <3>2 DEF IsClosed
      <3>4. QED
        BY <3>2, <3>3
    <2>5. ASSUME NEW i \in Above(stk), NEW j \in Q0, Shares(stk, i, j) PROVE i \in Q0
      <3>1. PICK l \in Q : j = e[l]
        OBVIOUS
      <3>2. j \in part
        BY <2>2, <3>1
      <3>3. i \in part
        BY <1>7, <2>5, <3>2 DEF IsClosed
      <3>4. PICK k \in m + 1 .. n : k \in 1 .. n /\ e[k] = i
        BY <2>3, <3>3
      <3>5. Shares(out, k, l)
        BY <1>5, <2>2, <2>5, <3>1, <3>4 DEF Shares
      <3>6. k \in Q
        BY <1>13, <1>14, <3>1, <3>4, <3>5 DEF IsClosed
      <3>7. QED
        BY <3>4, <3>6
    <2>6. Q0 \subseteq Above(stk)
      BY <2>2
    <2>7. IsClosed(stk, Q0)
      BY <2>4, <2>5, <2>6 DEF IsClosed
    <2>8. ASSUME NEW k \in m + 1 .. n PROVE k \in Q
      <3>1. k \in 1 .. n /\ e[k] \in part
        BY <1>3, <1>6
      <3>2. e[k] \in Q0
        BY <1>7, <2>7, <3>1
      <3>3. PICK l \in Q : e[k] = e[l]
        BY <3>2
      <3>4. QED
        BY <1>6, <2>2, <3>1, <3>3
    <2>9. QED
      BY <2>8
  <1>15. UpstreamPart(out) = m + 1 .. n
    <2>1. IsClosed(out, UpstreamPart(out))
      BY PartIs
    <2>2. m + 1 .. n \subseteq UpstreamPart(out)
      BY <1>14, <2>1
    <2>3. UpstreamPart(out) \subseteq m + 1 .. n
      BY <1>13, <2>1 DEF IsClosed
    <2>4. QED
      BY <2>2, <2>3
  <1>16. Settled(out)
    BY <1>13, <1>15 DEF Settled
  <1>17. Formatted(out).musa = musa
    <2>1. Formatted(out).musa = First(out, (m + 1) - 1)
      BY <1>4, <1>12, <1>16, SettledFormat
    <2>2. (m + 1) - 1 = m /\ m \in 0 .. Len(out)
      BY <1>3, <1>4
    <2>3. First(out, m) \in Seq(Commits) /\ Len(First(out, m)) = m
      BY <1>4, <2>2, FirstIs
    <2>4. \A k \in 1 .. m : First(out, m)[k] = musa[k]
      BY <1>3, <1>4 DEF First
    <2>5. First(out, m) = musa
      BY <1>1, <2>3, <2>4, SeqEqual DEF m
    <2>6. QED
      BY <2>1, <2>2, <2>5
  <1>18. Formatted(out).upstream = up
    <2>1. Formatted(out).upstream = [k \in 1 .. n - (m + 1) + 1 |-> out[(m + 1) + k - 1]]
      BY <1>4, <1>12, <1>16, SettledFormat
    <2>2. n - (m + 1) + 1 = Len(up)
      BY <1>3
    <2>3. ASSUME NEW k \in 1 .. Len(up) PROVE out[(m + 1) + k - 1] = up[k]
      <3>1. /\ (m + 1) + k - 1 \in 1 .. n /\ ~ ((m + 1) + k - 1 <= m)
            /\ ((m + 1) + k - 1) - m = k
        BY <1>3
      <3>2. QED
        BY <1>4, <3>1
    <2>4. up = [k \in 1 .. Len(up) |-> up[k]]
      BY <1>1, LenProperties
    <2>5. QED
      BY <2>1, <2>2, <2>3, <2>4
  <1>19. Formatted(out) = Formatted(stk)
    <2>1. \A x : Formatted(x) = [musa |-> Formatted(x).musa, upstream |-> Formatted(x).upstream]
      BY DEF Formatted
    <2>2. QED
      BY <1>17, <1>18, <2>1
  <1>20. QED
    BY <1>4, <1>16, <1>19 DEF out

\* Written in the order of the series, a sound stack is sound and makes its tree.
LEMMA RegenSound ==
  ASSUME NEW t \in SpotTexts, NEW stk \in Seq(Commits), Sound(t, stk)
  PROVE  /\ InSeriesOrder(Formatted(stk)) \in Seq(Commits)
         /\ Len(InSeriesOrder(Formatted(stk))) = Len(stk)
         /\ Sound(t, InSeriesOrder(Formatted(stk)))
         /\ HeadOf(t, InSeriesOrder(Formatted(stk))) = HeadOf(t, stk)
  <1> DEFINE out == InSeriesOrder(Formatted(stk))
             m == Len(Formatted(stk).musa)
  <1>1. out \in Seq(Commits)
    BY RegenSettles
  <1>2. PICK e : Splits(e, m, stk) /\ out = Listed(stk, e, Len(stk))
    BY FormattedSplits
  <1> HIDE DEF out, m
  <1>3. Reorders(out, stk, e)
    BY <1>1, <1>2, SplitReorders
  <1>4. Sound(t, out) /\ HeadOf(t, out) = HeadOf(t, stk)
    BY <1>1, <1>3, ReorderedSound
  <1>5. Len(out) = Len(stk)
    BY <1>3 DEF Reorders
  <1>6. QED
    BY <1>1, <1>4, <1>5 DEF out

\* A cherry-pick on top of a stack in that order is written after all the others.
LEMMA SettledAppend ==
  ASSUME NEW stk \in Seq(Commits), Settled(stk), NEW c \in Commits, c.pick # NoPick
  PROVE  /\ Formatted(Append(stk, c)).musa = Formatted(stk).musa
         /\ Formatted(Append(stk, c)).upstream = Append(Formatted(stk).upstream, c)
  <1> DEFINE n == Len(stk)
             new == Append(stk, c)
             p == FirstPick(stk)
  <1>1. /\ n \in Nat /\ new \in Seq(Commits) /\ Len(new) = n + 1 /\ new[n + 1] = c
        /\ \A i \in 1 .. n : new[i] = stk[i]
    BY LenProperties, AppendProperties
  <1>2. IsFirstPick(stk, p)
    BY FirstPickIs
  <1>3. /\ p \in 1 .. n + 1 /\ \A j \in 1 .. p - 1 : stk[j].pick = NoPick
        /\ p <= n => stk[p].pick # NoPick
    BY <1>2 DEF IsFirstPick
  <1>4. Above(stk) = p .. n /\ UpstreamPart(stk) = p .. n
    BY DEF Settled, Above
  <1> HIDE DEF n, new, p
  <1>5. IsFirstPick(new, p)
    <2>1. p \in 1 .. Len(new) + 1
      BY <1>1, <1>3
    <2>2. \A j \in 1 .. p - 1 : new[j].pick = NoPick
      BY <1>1, <1>3
    <2>3. new[p].pick # NoPick
      <3>1. p \in 1 .. n \/ p = n + 1
        BY <1>1, <1>3
      <3>2. QED
        BY <1>1, <1>3, <3>1
    <2>4. QED
      BY <2>1, <2>2, <2>3 DEF IsFirstPick
  <1>6. FirstPick(new) = p
    BY <1>1, <1>5, FirstPickIs
  <1>7. Above(new) = p .. n + 1
    BY <1>1, <1>6 DEF Above
  <1>8. ASSUME NEW Q, IsClosed(new, Q) PROVE p .. n + 1 \subseteq Q
    <2> DEFINE Q0 == Q \ {n + 1}
    <2>1. Q \subseteq p .. n + 1
      BY <1>7, <1>8 DEF IsClosed
    <2>2. Q0 \subseteq Above(stk)
      BY <1>1, <1>3, <1>4, <2>1
    <2>3. \A i \in Above(stk) : i \in Above(new) /\ i \in 1 .. n /\ i # n + 1 /\ new[i] = stk[i]
      BY <1>1, <1>3, <1>4, <1>7
    <2>4. ASSUME NEW i \in Above(stk), stk[i].pick # NoPick PROVE i \in Q0
      BY <1>8, <2>3, <2>4 DEF IsClosed
    <2>5. ASSUME NEW i \in Above(stk), NEW j \in Q0, Shares(stk, i, j) PROVE i \in Q0
      <3>1. j \in Above(stk)
        BY <2>2
      <3>2. Shares(new, i, j)
        BY <2>3, <2>5, <3>1 DEF Shares
      <3>3. QED
        BY <1>8, <2>3, <3>2 DEF IsClosed
    <2>6. IsClosed(stk, Q0)
      BY <2>2, <2>4, <2>5 DEF IsClosed
    <2>7. p .. n \subseteq Q0
      BY <1>4, <2>6, PartIs
    <2>8. n + 1 \in Q
      <3>1. n + 1 \in Above(new)
        BY <1>1, <1>3, <1>7
      <3>2. QED
        BY <1>1, <1>8, <3>1 DEF IsClosed
    <2>9. QED
      BY <1>1, <1>3, <2>7, <2>8
  <1>9. Settled(new)
    <2>1. IsClosed(new, UpstreamPart(new))
      BY PartIs
    <2>2. p .. n + 1 \subseteq UpstreamPart(new)
      BY <1>8, <2>1
    <2>3. UpstreamPart(new) \subseteq p .. n + 1
      BY <1>7, <2>1 DEF IsClosed
    <2>4. QED
      BY <1>7, <2>2, <2>3 DEF Settled
  <1>10. /\ Formatted(new).musa = First(new, p - 1)
         /\ Formatted(new).upstream = [k \in 1 .. (n + 1) - p + 1 |-> new[p + k - 1]]
         /\ Formatted(stk).musa = First(stk, p - 1)
         /\ Formatted(stk).upstream = [k \in 1 .. n - p + 1 |-> stk[p + k - 1]]
    BY <1>1, <1>6, <1>9, SettledFormat DEF n, p
  <1>11. First(new, p - 1) = First(stk, p - 1)
    BY <1>1, <1>3 DEF First
  <1>12. Formatted(new).upstream = Append(Formatted(stk).upstream, c)
    <2> DEFINE u == n - p + 1
               old == Formatted(stk).upstream
               grown == Append(old, c)
               fresh == Formatted(new).upstream
    <2>1. u \in Nat /\ (n + 1) - p + 1 = u + 1 /\ p + (u + 1) - 1 = n + 1
      BY <1>1, <1>3
    <2>2. old \in Seq(Commits) /\ fresh \in Seq(Commits)
      BY <1>1, FormattedSplits
    <2>3. Len(old) = u /\ \A k \in 1 .. u : old[k] = stk[p + k - 1]
      <3>1. DOMAIN old = 1 .. u
        BY <1>10
      <3>2. Len(old) \in Nat /\ DOMAIN old = 1 .. Len(old)
        BY <2>2, LenProperties
      <3>3. QED
        BY <1>10, <2>1, <3>1, <3>2
    <2>4. Len(fresh) = u + 1 /\ \A k \in 1 .. u + 1 : fresh[k] = new[p + k - 1]
      <3>1. fresh = [k \in 1 .. u + 1 |-> new[p + k - 1]]
        BY <1>10, <2>1
      <3>2. Len(fresh) \in Nat /\ DOMAIN fresh = 1 .. Len(fresh)
        BY <2>2, LenProperties
      <3>3. QED
        BY <2>1, <3>1, <3>2
    <2> HIDE DEF u, old, fresh
    <2>5. /\ grown \in Seq(Commits) /\ Len(grown) = u + 1 /\ grown[u + 1] = c
          /\ \A k \in 1 .. u : grown[k] = old[k]
      BY <2>2, <2>3, AppendProperties
    <2> HIDE DEF grown
    <2>6. ASSUME NEW k \in 1 .. u + 1 PROVE fresh[k] = grown[k]
      <3>1. CASE k = u + 1
        BY <1>1, <2>1, <2>4, <2>5, <3>1
      <3>2. CASE k \in 1 .. u
        <4>1. p + k - 1 \in 1 .. n
          BY <1>1, <1>3, <3>2 DEF u
        <4>2. QED
          BY <1>1, <2>3, <2>4, <2>5, <3>2, <4>1
      <3>3. QED
        BY <2>1, <3>1, <3>2
    <2>7. fresh = grown
      BY <2>2, <2>4, <2>5, <2>6, SeqEqual
    <2>8. QED
      BY <2>7 DEF fresh, grown, old
  <1>13. QED
    BY <1>10, <1>11, <1>12 DEF new

\* A complete run leaves its own files, whatever was there.
LEMMA RegenWrites ==
  ASSUME NEW files, NEW entries \in Seq(Commits)
  PROVE  Written(files, entries, Len(entries), Stale(files, entries)) = NumberedFiles(entries)
  <1> DEFINE copied == {f \in NumberedFiles(entries) : f.num <= Len(entries)}
  <1>1. \A f \in NumberedFiles(entries) : f.num \in 1 .. Len(entries)
    BY NumberedInOrder
  <1>2. copied = NumberedFiles(entries)
    BY <1>1, LenProperties
  <1>3. \A f \in files \ Stale(files, entries) : \E g \in NumberedFiles(entries) : SameName(f, g)
    BY DEF Stale
  <1>4. Written(files, entries, Len(entries), Stale(files, entries))
          = {f \in files \ Stale(files, entries) : \A g \in copied : ~ SameName(f, g)} \cup copied
    BY DEF Written
  <1> HIDE DEF copied
  <1>5. QED
    BY <1>2, <1>3, <1>4

\* A directory of the series: each of its files changes something.
IsSeriesDirectory(files) ==
  /\ IsDirectory(files)
  /\ \A f \in files : f.num \in 1 .. MaxStack /\ Edited(f.entry.patch) # {}

Substantial(entries) ==
  /\ entries \in Seq(Commits)
  /\ Len(entries) <= MaxStack
  /\ \A i \in 1 .. Len(entries) : Edited(entries[i].patch) # {}

LEMMA NumberedSeries ==
  ASSUME NEW entries, Substantial(entries)
  PROVE  IsSeriesDirectory(NumberedFiles(entries))
  <1>1. /\ entries \in Seq(Commits) /\ DOMAIN entries = 1 .. Len(entries)
        /\ Len(entries) \in Nat /\ Len(entries) <= MaxStack /\ MaxStack \in Nat
    BY LenProperties, MusaSyncAssumption DEF Substantial
  <1>2. IsDirectory(NumberedFiles(entries)) /\ \A f \in NumberedFiles(entries) : f.num \in 1 .. Len(entries)
    BY <1>1, NumberedInOrder
  <1>3. \A f \in NumberedFiles(entries) : Edited(f.entry.patch) # {}
    BY <1>1 DEF NumberedFiles, Substantial
  <1>4. QED
    BY <1>1, <1>2, <1>3 DEF IsSeriesDirectory

\* What a run that is killed leaves is a directory still.
LEMMA WrittenSeries ==
  ASSUME NEW files, IsSeriesDirectory(files), NEW entries, Substantial(entries),
         NEW copies, NEW unlinked
  PROVE  IsSeriesDirectory(Written(files, entries, copies, unlinked))
  <1> DEFINE copied == {f \in NumberedFiles(entries) : f.num <= copies}
             kept == {f \in files \ unlinked : \A g \in copied : ~ SameName(f, g)}
  <1>1. Written(files, entries, copies, unlinked) = kept \cup copied
    BY DEF Written
  <1>2. IsSeriesDirectory(NumberedFiles(entries))
    BY NumberedSeries
  <1>3. kept \subseteq files /\ copied \subseteq NumberedFiles(entries)
    OBVIOUS
  <1>4. \A f \in kept, g \in copied : ~ SameName(f, g) /\ ~ SameName(g, f)
    BY DEF SameName
  <1> HIDE DEF kept, copied
  <1>5. IsFiniteSet(kept \cup copied)
    <2>1. IsFiniteSet(files) /\ IsFiniteSet(NumberedFiles(entries))
      BY <1>2 DEF IsSeriesDirectory, IsDirectory
    <2>2. IsFiniteSet(kept) /\ IsFiniteSet(copied)
      BY <1>3, <2>1, FS_Subset
    <2>3. QED
      BY <2>2, FS_Union
  <1>6. kept \cup copied \subseteq CommitFiles
    BY <1>2, <1>3 DEF IsSeriesDirectory, IsDirectory
  <1>7. \A f, g \in kept \cup copied : SameName(f, g) => f = g
    BY <1>2, <1>3, <1>4 DEF IsSeriesDirectory, IsDirectory
  <1>8. \A f \in kept \cup copied : f.num \in 1 .. MaxStack /\ Edited(f.entry.patch) # {}
    BY <1>2, <1>3 DEF IsSeriesDirectory
  <1>9. QED
    BY <1>1, <1>5, <1>6, <1>7, <1>8 DEF IsSeriesDirectory, IsDirectory

----------------------------------------------------------------------------
(* The trees of the main branch.                                           *)

LEMMA EventText ==
  ASSUME NEW from \in [Spots -> Texts], NEW e \in Events
  PROVE  Patched(from, EventPatch(from, e)) \in [Spots -> Texts]
  <1> DEFINE p == EventPatch(from, e)
  <1>1. \A s \in Edited(p) : s \in Spots => p[s].post \in Texts
    <2>1. CASE e \in [kind : {"rewrite"}, of : Spots]
      <3>1. e.kind = "rewrite" /\ e.of \in Spots
        BY <2>1
      <3>2. p = Diff(from, [from EXCEPT ![e.of] = Rewritten])
        BY <3>1 DEF EventPatch, Landings, Titled, Reverts
      <3>3. \A s \in Edited(p) : p[s].post = [from EXCEPT ![e.of] = Rewritten][s]
        BY <3>2 DEF Diff, Edited
      <3>4. \A s \in Spots : [from EXCEPT ![e.of] = Rewritten][s] \in Texts
        BY <3>1 DEF Texts
      <3>5. QED
        BY <3>3, <3>4
    <2>2. CASE e \in [kind : Landings \cup Reverts, of : Changes]
      <3>1. e.of \in Changes /\ e.kind \in Landings \cup Reverts
        BY <2>2
      <3>2. PICK edited \in SUBSET Spots : PatchOf[e.of] \in [edited -> [pre : Texts, post : {e.of}]]
        BY <3>1, ChangesAssumption
      <3>3. \A s \in edited : PatchOf[e.of][s].pre \in Texts /\ PatchOf[e.of][s].post = e.of
        BY <3>2
      <3>4. Edited(PatchOf[e.of]) = edited /\ e.of \in Texts
        BY <3>1, <3>2 DEF Edited, Texts
      <3>5. CASE e.kind \in Landings
        <4>1. p = PatchOf[e.of]
          BY <3>5 DEF EventPatch, Landings, Titled, Reverts
        <4>2. QED
          BY <3>3, <3>4, <4>1
      <3>6. CASE e.kind \in Reverts
        <4>1. p = Reversed(PatchOf[e.of])
          BY <3>6 DEF EventPatch, Landings, Titled, Reverts
        <4>2. Edited(p) = edited /\ \A s \in edited : p[s].post = PatchOf[e.of][s].pre
          BY <3>4, <4>1 DEF Reversed, Edited
        <4>3. QED
          BY <3>3, <4>2
      <3>7. QED
        BY <3>1, <3>5, <3>6
    <2>3. QED
      BY <2>1, <2>2 DEF Events
  <1> HIDE DEF p
  <1>2. Patched(from, p) \in [Spots -> Texts]
    BY <1>1 DEF Patched
  <1>3. QED
    BY <1>2 DEF p

\* The trees of a branch, from the text vLLM started from, one commit after another.
LEMMA TreesAre ==
  ASSUME NEW h \in Histories
  PROVE  /\ \A ref \in 0 .. Len(h) : TreeAt(h, ref) \in [Spots -> Texts]
         /\ TreeAt(h, 0) = [s \in Spots |-> 0]
         /\ \A k \in 1 .. Len(h) :
              TreeAt(h, k) = Patched(TreeAt(h, k - 1), EventPatch(TreeAt(h, k - 1), h[k]))
  <1> DEFINE n == Len(h)
             V == [Spots -> Texts]
             first == [s \in Spots |-> 0]
             step == [i \in Nat |-> [x \in V |->
                        IF i < n THEN Patched(x, EventPatch(x, h[i + 1])) ELSE x]]
             Rec(f) == [i \in 0 .. n |->
                          IF i = 0 THEN first ELSE Patched(f[i - 1], EventPatch(f[i - 1], h[i]))]
             g == CHOOSE f : f = Rec(f)
  <1>1. n \in Nat /\ \A i \in 1 .. n : h[i] \in Events
    BY MusaSyncAssumption, LenProperties
  <1>2. \A ref : TreeAt(h, ref) = g[ref]
    BY DEF TreeAt, TreesOf
  <1> HIDE DEF n
  <1>4. step \in [Nat -> [V -> V]]
    <2>1. ASSUME NEW i \in Nat, NEW x \in V
          PROVE  (IF i < n THEN Patched(x, EventPatch(x, h[i + 1])) ELSE x) \in V
      <3>1. i < n => i + 1 \in 1 .. n
        BY <1>1
      <3>2. QED
        BY <1>1, <3>1, EventText
    <2> HIDE DEF V
    <2>2. QED
      BY <2>1
  <1>5. first \in V
    BY DEF Texts
  <1> HIDE DEF step, V, first
  <1>6. PICK f \in [0 .. n -> V] : IsRun(f, n, first, step)
    BY <1>1, <1>4, <1>5, RunsExist
  <1>7. ASSUME NEW i \in 1 .. n PROVE f[i] = Patched(f[i - 1], EventPatch(f[i - 1], h[i]))
    <2>1. i - 1 \in 0 .. n - 1 /\ i - 1 \in Nat /\ (i - 1) + 1 = i /\ i - 1 < n /\ i - 1 \in 0 .. n
      BY <1>1
    <2>2. f[(i - 1) + 1] = step[i - 1][f[i - 1]]
      BY <1>6, <2>1 DEF IsRun
    <2>3. f[i - 1] \in V
      BY <1>6, <2>1
    <2>4. step[i - 1][f[i - 1]] = Patched(f[i - 1], EventPatch(f[i - 1], h[(i - 1) + 1]))
      BY <2>1, <2>3 DEF step
    <2>5. QED
      BY <2>1, <2>2, <2>4
  <1>8. f[0] = first
    BY <1>6 DEF IsRun
  <1>9. f = Rec(f)
    BY <1>1, <1>6, <1>7, <1>8
  <1>10. g = Rec(g)
    BY <1>9
  <1> HIDE DEF g
  <1>11. /\ g[0] = first
         /\ \A k \in 1 .. n : g[k] = Patched(g[k - 1], EventPatch(g[k - 1], h[k]))
    <2>1. \A k \in 0 .. n :
            Rec(g)[k] = IF k = 0 THEN first ELSE Patched(g[k - 1], EventPatch(g[k - 1], h[k]))
      OBVIOUS
    <2>2. 0 \in 0 .. n /\ \A k \in 1 .. n : k \in 0 .. n /\ k # 0
      BY <1>1
    <2> HIDE DEF Rec
    <2>3. QED
      BY <1>10, <2>1, <2>2
  <1> DEFINE T == {i \in Nat : i <= n => g[i] \in V}
  <1>12. 0 \in T
    BY <1>5, <1>11
  <1>13. ASSUME NEW i \in Nat, i \in T PROVE i + 1 \in T
    <2>1. SUFFICES ASSUME i + 1 <= n PROVE g[i + 1] \in V
      OBVIOUS
    <2>2. i + 1 \in 1 .. n /\ (i + 1) - 1 = i /\ g[i] \in V
      BY <1>1, <1>13, <2>1
    <2>3. Patched(g[i], EventPatch(g[i], h[i + 1])) \in V
      BY <1>1, <2>2, EventText DEF V
    <2>4. QED
      BY <1>11, <2>2, <2>3
  <1>14. \A i \in Nat : i \in T
    <2> HIDE DEF T
    <2> QED BY <1>12, <1>13, SetInduction
  <1>15. \A ref \in 0 .. n : g[ref] \in V
    BY <1>1, <1>14
  <1>16. QED
    BY <1>2, <1>11, <1>15 DEF V, n, first

\* A spot of the main branch has the text of a change, or none of ours.
LEMMA TreesText ==
  ASSUME NEW h \in Histories, NEW ref \in 0 .. Len(h)
  PROVE  TreeAt(h, ref) \in [Spots -> Texts] /\ TreeAt(h, ref) \in SpotTexts
  <1>1. TreeAt(h, ref) \in [Spots -> Texts]
    BY TreesAre
  <1>2. Texts \subseteq Int
    BY ChangesAssumption DEF Texts, Rewritten
  <1>3. QED
    BY <1>1, <1>2 DEF SpotTexts

----------------------------------------------------------------------------
(* The inductive invariant.                                                *)

\* The refs name commits of the branch.
RefsInv == history \in Histories /\ pin \in Refs /\ base \in Refs

\* The clone holds a sound stack on its base.
CloneInv == stack \in Seq(Commits) /\ Len(stack) <= MaxStack /\ Sound(BaseTree, stack)

\* What an unfinished operation has left over.
WorkInv ==
  /\ rest \in Seq(Commits)
  /\ busy \in {"none", "am", "cherry-pick"}
  /\ (busy = "none") = (rest = <<>>)

\* Both directories hold our commits, one file of a name, mixed or not.
DiskInv ==
  /\ series = [musa |-> series.musa, upstream |-> series.upstream]
  /\ IsSeriesDirectory(series.musa)
  /\ IsSeriesDirectory(series.upstream)

SyncInv == RefsInv /\ CloneInv /\ WorkInv /\ DiskInv

LEMMA BaseSpotTexts ==
  ASSUME RefsInv
  PROVE  /\ BaseTree \in SpotTexts /\ BaseTree \in [Spots -> Texts]
         /\ \A ref \in Refs : TreeAt(history, ref) \in SpotTexts
  BY TreesText DEF RefsInv, BaseTree, Refs

\* A sound stack of the clone can be written.
LEMMA FormattedSubstantial ==
  ASSUME NEW t \in SpotTexts, NEW stk \in Seq(Commits), Len(stk) <= MaxStack, Sound(t, stk)
  PROVE  Substantial(Formatted(stk).musa) /\ Substantial(Formatted(stk).upstream)
  <1> DEFINE musa == Formatted(stk).musa
             up == Formatted(stk).upstream
             out == InSeriesOrder(Formatted(stk))
  <1>1. musa \in Seq(Commits) /\ up \in Seq(Commits) /\ Len(musa) + Len(up) = Len(stk)
    BY FormattedSplits
  <1>2. Len(musa) \in Nat /\ Len(up) \in Nat /\ Len(stk) \in Nat /\ MaxStack \in Nat
    BY <1>1, LenProperties, MusaSyncAssumption
  <1>3. Sound(t, out) /\ Len(out) = Len(stk)
    BY RegenSound
  <1>4. \A k \in 1 .. Len(stk) : out[k] = IF k <= Len(musa) THEN musa[k] ELSE up[k - Len(musa)]
    BY <1>1, Joined DEF InSeriesOrder
  <1>5. \A k \in 1 .. Len(stk) : Edited(out[k].patch) # {}
    BY <1>3 DEF Sound
  <1> HIDE DEF musa, up, out
  <1>6. \A k \in 1 .. Len(musa) : Edited(musa[k].patch) # {}
    <2> SUFFICES ASSUME NEW k \in 1 .. Len(musa) PROVE Edited(musa[k].patch) # {}
      OBVIOUS
    <2>1. k \in 1 .. Len(stk) /\ k <= Len(musa)
      BY <1>1, <1>2
    <2>2. QED
      BY <1>4, <1>5, <2>1
  <1>7. \A k \in 1 .. Len(up) : Edited(up[k].patch) # {}
    <2> SUFFICES ASSUME NEW k \in 1 .. Len(up) PROVE Edited(up[k].patch) # {}
      OBVIOUS
    <2> DEFINE j == Len(musa) + k
    <2>1. j \in 1 .. Len(stk) /\ ~ (j <= Len(musa)) /\ j - Len(musa) = k
      BY <1>1, <1>2
    <2> HIDE DEF j
    <2>2. QED
      BY <1>4, <1>5, <2>1
  <1>8. Len(musa) <= MaxStack /\ Len(up) <= MaxStack
    BY <1>1, <1>2
  <1>9. Substantial(musa) /\ Substantial(up)
    BY <1>1, <1>6, <1>7, <1>8 DEF Substantial
  <1>10. QED
    BY <1>9 DEF musa, up

\* The order in which a series is applied is a sequence of its entries.
LEMMA SeriesOrder ==
  ASSUME DiskInv
  PROVE  /\ ApplyOrder(series) \in Seq(Commits)
         /\ DOMAIN ApplyOrder(series) = 1 .. Len(ApplyOrder(series))
  <1>1. InNameOrder(series.musa) \in Seq(Commits) /\ InNameOrder(series.upstream) \in Seq(Commits)
    BY DirectoryInOrder DEF DiskInv, IsSeriesDirectory
  <1>2. ApplyOrder(series) \in Seq(Commits)
    BY <1>1, ConcatProperties DEF ApplyOrder
  <1>3. QED
    BY <1>2, LenProperties

\* When no commit of the branch lies above the pin, regen formats the clone's stack.
LEMMA NoneAbovePin ==
  ASSUME RefsInv, CloneInv, BaseAgrees
  PROVE  CommitsAbovePin = stack
  <1> DEFINE between == [i \in 1 .. base - pin |->
               [subject |-> -(pin + i), pick |-> NoPick,
                patch |-> EventPatch(TreeAt(history, pin + i - 1), history[pin + i])]]
  <1>1. CommitsAbovePin = between \o stack
    BY DEF CommitsAbovePin
  <1>2. 1 .. base - pin = {} /\ 1 .. 0 = {}
    <2>1. base = pin /\ pin \in Int
      BY MusaSyncAssumption, LenProperties DEF RefsInv, Refs, BaseAgrees
    <2>2. QED
      BY <2>1
  <1>3. between \in [1 .. 0 -> Commits]
    BY <1>2
  <1> HIDE DEF between
  <1>4. between \in Seq(Commits) /\ Len(between) = 0
    BY <1>3, SeqDef, LenProperties
  <1>5. between = <<>>
    BY <1>4, EmptySeq
  <1>6. QED
    BY <1>1, <1>5, ConcatEmptySeq DEF CloneInv

\* Both directories after a complete run.
LEMMA RegeneratedIs ==
  ASSUME NEW stk \in Seq(Commits)
  PROVE  Regenerated(Formatted(stk))
           = [musa |-> NumberedFiles(Formatted(stk).musa),
              upstream |-> NumberedFiles(Formatted(stk).upstream)]
  <1> DEFINE fresh == Formatted(stk)
             Files2(d) == Written(series[d], fresh[d], Len(fresh[d]), Stale(series[d], fresh[d]))
  <1>1. fresh.musa \in Seq(Commits) /\ fresh.upstream \in Seq(Commits)
    BY FormattedSplits
  <1>2. DOMAIN fresh = {"musa", "upstream"}
    BY DEF Formatted
  <1>3. fresh["musa"] = fresh.musa /\ fresh["upstream"] = fresh.upstream
    OBVIOUS
  <1> HIDE DEF fresh
  <1>4. Regenerated(fresh) = [d \in {"musa", "upstream"} |-> Files2(d)]
    BY <1>2 DEF Regenerated
  <1>5. /\ Files2("musa") = NumberedFiles(fresh.musa)
        /\ Files2("upstream") = NumberedFiles(fresh.upstream)
    BY <1>1, <1>3, RegenWrites
  <1> HIDE DEF Files2
  <1>6. Regenerated(fresh) = [musa |-> Files2("musa"), upstream |-> Files2("upstream")]
    BY <1>4
  <1>7. QED
    BY <1>5, <1>6 DEF fresh

\* A series that a complete run wrote is applied in the order of its commits.
LEMMA WrittenOrder ==
  ASSUME NEW stk \in Seq(Commits)
  PROVE  /\ InNameOrder(NumberedFiles(Formatted(stk).musa)) = Formatted(stk).musa
         /\ InNameOrder(NumberedFiles(Formatted(stk).upstream)) = Formatted(stk).upstream
         /\ ApplyOrder([musa |-> NumberedFiles(Formatted(stk).musa),
                        upstream |-> NumberedFiles(Formatted(stk).upstream)])
              = InSeriesOrder(Formatted(stk))
  <1>1. Formatted(stk).musa \in Seq(Commits) /\ Formatted(stk).upstream \in Seq(Commits)
    BY FormattedSplits
  <1>2. /\ InNameOrder(NumberedFiles(Formatted(stk).musa)) = Formatted(stk).musa
        /\ InNameOrder(NumberedFiles(Formatted(stk).upstream)) = Formatted(stk).upstream
    BY <1>1, NumberedInOrder
  <1>3. QED
    BY <1>2 DEF ApplyOrder, InSeriesOrder

----------------------------------------------------------------------------
(* The actions keep the invariant.                                         *)

LEMMA SyncInit ==
  ASSUME Init
  PROVE  SyncInv
  <1>1. 0 \in Refs
    BY MusaSyncAssumption, LenProperties DEF Init, Refs
  <1>2. RefsInv
    BY <1>1 DEF RefsInv, Init
  <1>3. stack = <<>> /\ stack \in Seq(Commits) /\ Len(stack) = 0
    BY EmptySeq DEF Init
  <1>4. CloneInv
    BY <1>3, MusaSyncAssumption DEF CloneInv, Sound
  <1>5. WorkInv
    BY EmptySeq DEF WorkInv, Init
  <1>6. IsFiniteSet({})
    BY FS_EmptySet
  <1>7. IsSeriesDirectory({})
    BY <1>6 DEF IsSeriesDirectory, IsDirectory
  <1>8. DiskInv
    BY <1>7 DEF DiskInv, Init
  <1>9. QED
    BY <1>2, <1>4, <1>5, <1>8 DEF SyncInv

\* A text of the clone is one of the branch's or of a commit in the stack.
LEMMA ClonedText ==
  ASSUME RefsInv, CloneInv, NEW s \in Spots
  PROVE  \/ ClonedTree[s] \in Texts
         \/ \E i \in 1 .. Len(stack) : ClonedTree[s] = stack[i].subject
  <1>1. BaseTree \in SpotTexts /\ BaseTree \in [Spots -> Texts]
    BY BaseSpotTexts
  <1>2. TextAt(BaseTree, stack, Len(stack), s, ClonedTree[s])
    BY <1>1, HeadText DEF CloneInv, ClonedTree
  <1>3. \A i \in 1 .. Len(stack) :
          s \in Edited(stack[i].patch) => stack[i].patch[s].post = stack[i].subject
    BY CommitParts, ElementOfSeq DEF CloneInv
  <1>4. QED
    BY <1>1, <1>2, <1>3 DEF TextAt

LEMMA SyncCommitMusa ==
  ASSUME SyncInv, NEW m \in MusaSubjects, NEW spots \in MusaEdits, CommitMusa(m, spots)
  PROVE  SyncInv'
  <1> DEFINE p == [s \in spots |-> [pre |-> ClonedTree[s], post |-> m]]
             c == [subject |-> m, pick |-> NoPick, patch |-> p]
  <1>1. RefsInv /\ CloneInv /\ WorkInv /\ DiskInv
    BY DEF SyncInv
  <1>2. BaseTree \in SpotTexts /\ stack \in Seq(Commits) /\ Sound(BaseTree, stack)
    BY <1>1, BaseSpotTexts DEF CloneInv
  <1>3. ClonedTree \in SpotTexts
    BY <1>2, HeadText DEF ClonedTree
  <1>4. spots \in SUBSET Spots /\ spots # {} /\ m \in Int /\ m \in Subjects
    BY MusaSyncAssumption DEF Subjects
  <1>5. Edited(p) = spots /\ p \in [spots -> [pre : Int, post : Int]]
    BY <1>3, <1>4 DEF Edited, SpotTexts
  <1>6. c \in Commits
    BY <1>4, <1>5 DEF Commits
  <1>7. \A s \in spots : ClonedTree[s] # m
    <2> SUFFICES ASSUME NEW s \in spots, ClonedTree[s] = m PROVE FALSE
      OBVIOUS
    <2>1. m \notin Texts
      BY MusaSyncAssumption, ChangesAssumption DEF Texts, Rewritten
    <2>2. PICK i \in 1 .. Len(stack) : stack[i].subject = m
      BY <1>1, <1>4, <2>1, ClonedText
    <2>3. DOMAIN stack = 1 .. Len(stack)
      BY <1>2, LenProperties
    <2>4. QED
      BY <2>2, <2>3 DEF CommitMusa, Used
  <1>8. /\ stack' = Append(stack, c) /\ Len(stack) < MaxStack
        /\ UNCHANGED <<history, pin, base, busy, rest, series, killed>>
    BY DEF CommitMusa
  <1> HIDE DEF p
  <1>9. Committed(ClonedTree, c) = c
    <2>1. \A s \in Edited(c.patch) :
            ClonedTree[s] = c.patch[s].pre /\ c.patch[s].pre # c.patch[s].post
      BY <1>5, <1>7 DEF p
    <2> HIDE DEF c
    <2>2. QED
      BY <1>3, <1>6, <2>1, CommittedSame
  <1>10. Push(stack, c) = Append(stack, c)
    <2>1. c.patch # <<>>
      BY <1>4, <1>5, <1>6, EmptyPatch
    <2>2. QED
      BY <2>1 DEF Push
  <1> HIDE DEF c
  <1>11. stack' \in Seq(Commits) /\ Sound(BaseTree, stack')
    BY <1>2, <1>6, <1>8, <1>9, <1>10, PushSound DEF ClonedTree
  <1>12. Len(stack') <= MaxStack
    <2>1. Len(stack') = Len(stack) + 1 /\ Len(stack) \in Nat /\ MaxStack \in Nat
      BY <1>2, <1>6, <1>8, AppendProperties, LenProperties, MusaSyncAssumption
    <2>2. QED
      BY <1>8, <2>1
  <1>13. BaseTree' = BaseTree
    BY <1>8 DEF BaseTree
  <1>14. CloneInv'
    BY <1>11, <1>12, <1>13 DEF CloneInv
  <1>15. RefsInv' /\ WorkInv' /\ DiskInv'
    BY <1>1, <1>8 DEF RefsInv, Refs, WorkInv, DiskInv
  <1>16. QED
    BY <1>14, <1>15 DEF SyncInv

LEMMA SyncSetPins ==
  ASSUME SyncInv, NEW ref \in Refs, SetPins(ref)
  PROVE  SyncInv'
  BY DEF SyncInv, SetPins, RefsInv, Refs, CloneInv, BaseTree, WorkInv, DiskInv

LEMMA SyncAbort ==
  ASSUME SyncInv, Abort
  PROVE  SyncInv'
  <1>1. <<>> \in Seq(Commits)
    BY EmptySeq
  <1>2. QED
    BY <1>1 DEF SyncInv, Abort, RefsInv, Refs, CloneInv, BaseTree, WorkInv, DiskInv

LEMMA SyncResolve ==
  ASSUME SyncInv, Resolve
  PROVE  SyncInv'
  <1> DEFINE resolved == Push(stack, Committed(ClonedTree, rest[1]))
             done == AmFrom(BaseTree, resolved, Tail(rest))
  <1>1. RefsInv /\ CloneInv /\ WorkInv /\ DiskInv
    BY DEF SyncInv
  <1>2. BaseTree \in SpotTexts /\ stack \in Seq(Commits) /\ Sound(BaseTree, stack)
    BY <1>1, BaseSpotTexts DEF CloneInv
  <1>3. busy # "none" /\ rest # <<>> /\ rest \in Seq(Commits)
    BY <1>1 DEF Resolve, WorkInv
  <1>4. rest[1] \in Commits /\ Tail(rest) \in Seq(Commits)
    <2>1. Len(rest) \in Nat \ {0}
      BY <1>3, EmptySeq
    <2>2. 1 \in 1 .. Len(rest)
      BY <2>1
    <2>3. QED
      BY <1>3, <2>2, ElementOfSeq, HeadTailProperties
  <1>5. resolved \in Seq(Commits) /\ Sound(BaseTree, resolved)
    BY <1>2, <1>4, PushSound DEF ClonedTree
  <1> HIDE DEF resolved
  <1>6. done.stack \in Seq(Commits) /\ Sound(BaseTree, done.stack) /\ done.rest \in Seq(Commits)
    BY <1>2, <1>4, <1>5, AmSound
  <1>7. /\ Len(done.stack) <= MaxStack /\ stack' = done.stack /\ rest' = done.rest
        /\ busy' = IF done.rest = <<>> THEN "none" ELSE "am"
        /\ UNCHANGED <<history, pin, base, series, killed>>
    BY DEF Resolve, resolved
  <1> HIDE DEF done
  <1>8. BaseTree' = BaseTree
    BY <1>7 DEF BaseTree
  <1>9. CloneInv'
    BY <1>6, <1>7, <1>8 DEF CloneInv
  <1>10. WorkInv'
    BY <1>6, <1>7 DEF WorkInv
  <1>11. RefsInv' /\ DiskInv'
    BY <1>1, <1>7 DEF RefsInv, Refs, DiskInv
  <1>12. QED
    BY <1>9, <1>10, <1>11 DEF SyncInv

\* What regen formats, and that it may be written.
LEMMA RegenFresh ==
  ASSUME SyncInv, BaseAgrees
  PROVE  /\ stack \in Seq(Commits) /\ Sound(BaseTree, stack) /\ BaseTree \in SpotTexts
         /\ Formatted(CommitsAbovePin) = Formatted(stack)
         /\ Substantial(Formatted(stack).musa) /\ Substantial(Formatted(stack).upstream)
  <1>1. RefsInv /\ CloneInv
    BY DEF SyncInv
  <1>2. BaseTree \in SpotTexts /\ stack \in Seq(Commits) /\ Sound(BaseTree, stack)
    BY <1>1, BaseSpotTexts DEF CloneInv
  <1>3. CommitsAbovePin = stack
    BY <1>1, NoneAbovePin
  <1>4. Substantial(Formatted(stack).musa) /\ Substantial(Formatted(stack).upstream)
    BY <1>1, <1>2, FormattedSubstantial DEF CloneInv
  <1>5. QED
    BY <1>2, <1>3, <1>4

LEMMA SyncRegen ==
  ASSUME SyncInv, Regen
  PROVE  SyncInv'
  <1>1. BaseAgrees
    BY DEF Regen, MayRegen
  <1>2. /\ stack \in Seq(Commits) /\ Formatted(CommitsAbovePin) = Formatted(stack)
        /\ Substantial(Formatted(stack).musa) /\ Substantial(Formatted(stack).upstream)
    BY <1>1, RegenFresh
  <1>3. series' = Regenerated(Formatted(stack)) /\ UNCHANGED <<history, pin, base, stack, busy, rest>>
    BY <1>2 DEF Regen
  <1>4. series' = [musa |-> NumberedFiles(Formatted(stack).musa),
                   upstream |-> NumberedFiles(Formatted(stack).upstream)]
    BY <1>2, <1>3, RegeneratedIs
  <1>5. /\ IsSeriesDirectory(NumberedFiles(Formatted(stack).musa))
        /\ IsSeriesDirectory(NumberedFiles(Formatted(stack).upstream))
    BY <1>2, NumberedSeries
  <1>6. DiskInv'
    BY <1>4, <1>5 DEF DiskInv
  <1>7. RefsInv' /\ CloneInv' /\ WorkInv'
    BY <1>3 DEF SyncInv, RefsInv, Refs, CloneInv, BaseTree, WorkInv
  <1>8. QED
    BY <1>6, <1>7 DEF SyncInv

LEMMA SyncRegenStops ==
  ASSUME SyncInv, RegenStops
  PROVE  SyncInv'
  <1> DEFINE fresh == Formatted(CommitsAbovePin)
  <1>1. PICK upstreamCopies \in 0 .. Len(fresh.upstream), musaCopies \in 0 .. Len(fresh.musa),
             unlinked \in SUBSET (series.musa \cup series.upstream) :
               RegenKilled(fresh, upstreamCopies, musaCopies, unlinked)
    BY DEF RegenStops
  <1>2. BaseAgrees
    BY <1>1 DEF RegenKilled, MayRegen
  <1>3. Substantial(fresh.musa) /\ Substantial(fresh.upstream)
    BY <1>2, RegenFresh
  <1> HIDE DEF fresh
  <1>4. /\ series' = [musa |-> Written(series.musa, fresh.musa, musaCopies, unlinked),
                      upstream |-> Written(series.upstream, fresh.upstream, upstreamCopies, unlinked)]
        /\ UNCHANGED <<history, pin, base, stack, busy, rest>>
    BY <1>1 DEF RegenKilled
  <1>5. IsSeriesDirectory(series.musa) /\ IsSeriesDirectory(series.upstream)
    BY DEF SyncInv, DiskInv
  <1>6. /\ IsSeriesDirectory(Written(series.musa, fresh.musa, musaCopies, unlinked))
        /\ IsSeriesDirectory(Written(series.upstream, fresh.upstream, upstreamCopies, unlinked))
    BY <1>3, <1>5, WrittenSeries
  <1>7. DiskInv'
    BY <1>4, <1>6 DEF DiskInv
  <1>8. RefsInv' /\ CloneInv' /\ WorkInv'
    BY <1>4 DEF SyncInv, RefsInv, Refs, CloneInv, BaseTree, WorkInv
  <1>9. QED
    BY <1>7, <1>8 DEF SyncInv

LEMMA SyncRebase ==
  ASSUME SyncInv, NEW target \in Refs, NEW drop, Rebase(target, drop)
  PROVE  SyncInv'
  <1> DEFINE order == ApplyOrder(series)
             taken == DOMAIN order \ drop
             entries == At(order, taken)
             t == TreeAt(history, target)
             done == AmFrom(t, <<>>, entries)
  <1>1. RefsInv /\ CloneInv /\ WorkInv /\ DiskInv
    BY DEF SyncInv
  <1>2. order \in Seq(Commits) /\ taken \in SUBSET (1 .. Len(order))
    BY <1>1, SeriesOrder
  <1> HIDE DEF order, taken
  <1>3. entries \in Seq(Commits)
    BY <1>2, AtTakes
  <1>4. t \in SpotTexts
    BY <1>1, BaseSpotTexts
  <1>5. <<>> \in Seq(Commits) /\ Len(<<>>) = 0 /\ Sound(t, <<>>)
    BY EmptySeq DEF Sound
  <1> HIDE DEF entries, t
  <1>6. done.stack \in Seq(Commits) /\ Sound(t, done.stack) /\ done.rest \in Seq(Commits)
    BY <1>3, <1>4, <1>5, AmSound
  <1>7. /\ Len(done.stack) <= MaxStack /\ base' = target
        /\ IF busy = "am" /\ entries # <<>>
           THEN stack' = <<>> /\ UNCHANGED <<busy, rest>>
           ELSE /\ stack' = done.stack
                /\ rest' = IF busy = "am" THEN rest ELSE done.rest
                /\ busy' = IF busy = "am" \/ done.rest # <<>> THEN "am" ELSE "none"
        /\ UNCHANGED <<history, pin, series, killed>>
    BY DEF Rebase, entries, taken, order, t
  <1> HIDE DEF done
  <1>8. BaseTree' = t
    BY <1>7 DEF BaseTree, t
  <1>9. stack' \in Seq(Commits) /\ Len(stack') <= MaxStack /\ Sound(t, stack')
    <2>1. stack' = <<>> \/ stack' = done.stack
      BY <1>7
    <2>2. Len(<<>>) <= MaxStack
      BY <1>5, MusaSyncAssumption
    <2>3. QED
      BY <1>5, <1>6, <1>7, <2>1, <2>2
  <1>10. CloneInv'
    BY <1>8, <1>9 DEF CloneInv
  <1>11. WorkInv'
    <2>1. /\ rest \in Seq(Commits) /\ busy \in {"none", "am", "cherry-pick"}
          /\ (busy = "none") = (rest = <<>>)
      BY <1>1 DEF WorkInv
    <2>2. CASE busy = "am"
      <3>1. rest' = rest /\ busy' = "am"
        BY <1>7, <2>2
      <3>2. QED
        BY <2>1, <2>2, <3>1 DEF WorkInv
    <2>3. CASE busy # "am"
      <3>1. rest' = done.rest /\ busy' = IF done.rest # <<>> THEN "am" ELSE "none"
        BY <1>7, <2>3
      <3>2. QED
        BY <1>6, <3>1 DEF WorkInv
    <2>4. QED
      BY <2>2, <2>3
  <1>12. RefsInv' /\ DiskInv'
    BY <1>1, <1>7 DEF RefsInv, Refs, DiskInv
  <1>13. QED
    BY <1>10, <1>11, <1>12 DEF SyncInv

\* With the series in the files, a backport starts from a stack in their order.
LEMMA Restacks ==
  ASSUME SyncInv, HoldsTheSeries
  PROVE  /\ Restacked.stack \in Seq(Commits)
         /\ Restacked.rest = <<>>
         /\ Len(Restacked.stack) = Len(stack)
         /\ Sound(BaseTree, Restacked.stack)
         /\ Settled(Restacked.stack)
         /\ Formatted(Restacked.stack) = Formatted(stack)
  <1> DEFINE out == InSeriesOrder(Formatted(stack))
  <1>1. RefsInv /\ CloneInv /\ DiskInv
    BY DEF SyncInv
  <1>2. BaseTree \in SpotTexts /\ stack \in Seq(Commits) /\ Sound(BaseTree, stack)
    BY <1>1, BaseSpotTexts DEF CloneInv
  <1>3. CASE Above(stack) = UpstreamPart(stack)
    <2>1. Restacked = [stack |-> stack, rest |-> <<>>]
      BY <1>3 DEF Restacked
    <2>2. QED
      BY <1>2, <1>3, <2>1 DEF Settled
  <1>4. CASE Above(stack) # UpstreamPart(stack)
    <2>1. /\ out \in Seq(Commits) /\ Settled(out) /\ Formatted(out) = Formatted(stack)
          /\ Len(out) = Len(stack) /\ Sound(BaseTree, out)
      BY <1>2, RegenSettles, RegenSound
    <2>2. /\ series.musa = NumberedFiles(Formatted(stack).musa)
          /\ series.upstream = NumberedFiles(Formatted(stack).upstream)
      <3>1. \A d \in {"musa", "upstream"} : series[d] = NumberedFiles(Formatted(stack)[d])
        BY <1>1 DEF HoldsTheSeries, DiskInv
      <3>2. QED
        BY <3>1
    <2>3. ApplyOrder(series) = out
      BY <1>2, <2>2, WrittenOrder DEF ApplyOrder, InSeriesOrder
    <2> HIDE DEF out
    <2>4. Restacked = AmFrom(BaseTree, <<>>, out)
      BY <1>4, <2>3 DEF Restacked
    <2>5. Restacked = [stack |-> out, rest |-> <<>>]
      BY <1>2, <2>1, <2>4, AmReplay
    <2>6. QED
      BY <2>1, <2>5
  <1>5. QED
    BY <1>3, <1>4

\* The commit a backport adds.
BackportCommit(c) == [subject |-> c, pick |-> c, patch |-> PatchOf[c]]

LEMMA BackportCommitType ==
  ASSUME NEW c \in Changes
  PROVE  BackportCommit(c) \in Commits /\ c # NoPick
  <1>1. PICK edited \in SUBSET Spots : PatchOf[c] \in [edited -> [pre : Texts, post : {c}]]
    BY ChangesAssumption
  <1>2. Texts \subseteq Int /\ c \in Int /\ c # NoPick /\ c \in Subjects
    BY ChangesAssumption DEF Texts, Rewritten, NoPick, Subjects
  <1>3. PatchOf[c] \in [edited -> [pre : Int, post : Int]] /\ Edited(PatchOf[c]) = edited
    BY <1>1, <1>2 DEF Edited
  <1>4. \A s \in edited : PatchOf[c][s].post = c
    BY <1>1
  <1>5. BackportCommit(c) \in Commits
    BY <1>2, <1>3, <1>4 DEF Commits, BackportCommit
  <1>6. QED
    BY <1>2, <1>5

\* The stack after a backport that met no conflict.
Picked(c) ==
  Push(Restacked.stack, Committed(HeadOf(BaseTree, Restacked.stack), BackportCommit(c)))

LEMMA BackportCases ==
  ASSUME NEW c \in Changes, NEW regen \in BOOLEAN, Backport(c, regen)
  PROVE  /\ busy = "none" /\ HoldsTheSeries /\ Len(stack) < MaxStack
         /\ UNCHANGED <<history, pin, base, killed>>
         /\ \/ /\ stack' = Picked(c)
               /\ series' = IF regen /\ Picked(c) # Restacked.stack
                            THEN Regenerated(Formatted(Picked(c))) ELSE series
               /\ UNCHANGED <<busy, rest>>
            \/ /\ stack' = Restacked.stack
               /\ busy' = "cherry-pick" /\ rest' = <<BackportCommit(c)>>
               /\ UNCHANGED series
  BY DEF Backport, Picked, BackportCommit

LEMMA PickedType ==
  ASSUME SyncInv, HoldsTheSeries, Len(stack) < MaxStack, NEW c \in Changes
  PROVE  /\ Picked(c) \in Seq(Commits) /\ Len(Picked(c)) <= MaxStack
         /\ Sound(BaseTree, Picked(c))
  <1> DEFINE before == Restacked.stack
             x == Committed(HeadOf(BaseTree, before), BackportCommit(c))
  <1>1. BaseTree \in SpotTexts
    BY BaseSpotTexts DEF SyncInv
  <1>2. before \in Seq(Commits) /\ Len(before) = Len(stack) /\ Sound(BaseTree, before)
    BY Restacks
  <1>3. BackportCommit(c) \in Commits
    BY BackportCommitType
  <1> HIDE DEF before
  <1>4. x \in Commits
    <2>1. HeadOf(BaseTree, before) \in SpotTexts
      BY <1>1, <1>2, HeadText
    <2>2. QED
      BY <1>3, <2>1, CommittedIs
  <1>5. Push(before, x) \in Seq(Commits) /\ Sound(BaseTree, Push(before, x))
    BY <1>1, <1>2, <1>3, PushSound
  <1> HIDE DEF x
  <1>6. Len(Push(before, x)) <= MaxStack
    <2>1. Len(Append(before, x)) = Len(before) + 1 /\ Len(before) \in Nat /\ MaxStack \in Nat
      BY <1>2, <1>4, AppendProperties, LenProperties, MusaSyncAssumption
    <2>2. QED
      BY <1>2, <2>1 DEF Push
  <1>7. QED
    BY <1>5, <1>6 DEF Picked, before, x

LEMMA SyncBackport ==
  ASSUME SyncInv, NEW c \in Changes, NEW regen \in BOOLEAN, Backport(c, regen)
  PROVE  SyncInv'
  <1>1. RefsInv /\ CloneInv /\ WorkInv /\ DiskInv /\ BaseTree \in SpotTexts
    BY BaseSpotTexts DEF SyncInv
  <1>2. /\ busy = "none" /\ HoldsTheSeries /\ Len(stack) < MaxStack
        /\ UNCHANGED <<history, pin, base, killed>>
    BY BackportCases
  <1>3. RefsInv' /\ BaseTree' = BaseTree
    BY <1>1, <1>2 DEF RefsInv, Refs, BaseTree
  <1>4. /\ Picked(c) \in Seq(Commits) /\ Len(Picked(c)) <= MaxStack
        /\ Sound(BaseTree, Picked(c))
    BY <1>2, PickedType
  <1>5. CASE /\ stack' = Picked(c)
             /\ series' = IF regen /\ Picked(c) # Restacked.stack
                          THEN Regenerated(Formatted(Picked(c))) ELSE series
             /\ UNCHANGED <<busy, rest>>
    <2>1. CloneInv' /\ WorkInv'
      BY <1>1, <1>3, <1>4, <1>5 DEF CloneInv, WorkInv
    <2>2. CASE series' = series
      BY <1>1, <1>3, <2>1, <2>2 DEF SyncInv, DiskInv
    <2>3. CASE series' = Regenerated(Formatted(Picked(c)))
      <3>1. series' = [musa |-> NumberedFiles(Formatted(Picked(c)).musa),
                       upstream |-> NumberedFiles(Formatted(Picked(c)).upstream)]
        BY <1>4, <2>3, RegeneratedIs
      <3>2. Substantial(Formatted(Picked(c)).musa) /\ Substantial(Formatted(Picked(c)).upstream)
        BY <1>1, <1>4, FormattedSubstantial
      <3>3. /\ IsSeriesDirectory(NumberedFiles(Formatted(Picked(c)).musa))
            /\ IsSeriesDirectory(NumberedFiles(Formatted(Picked(c)).upstream))
        BY <3>2, NumberedSeries
      <3>4. DiskInv'
        BY <3>1, <3>3 DEF DiskInv
      <3>5. QED
        BY <1>3, <2>1, <3>4 DEF SyncInv
    <2>4. QED
      BY <1>5, <2>2, <2>3
  <1>6. CASE /\ stack' = Restacked.stack
             /\ busy' = "cherry-pick" /\ rest' = <<BackportCommit(c)>>
             /\ UNCHANGED series
    <2>1. /\ Restacked.stack \in Seq(Commits) /\ Len(Restacked.stack) = Len(stack)
          /\ Sound(BaseTree, Restacked.stack)
      BY <1>2, Restacks
    <2>2. CloneInv'
      BY <1>1, <1>3, <1>6, <2>1 DEF CloneInv
    <2>3. rest' \in Seq(Commits) /\ rest' # <<>>
      BY <1>6, BackportCommitType
    <2>4. WorkInv'
      BY <1>6, <2>3 DEF WorkInv
    <2>5. QED
      BY <1>1, <1>3, <1>6, <2>2, <2>4 DEF SyncInv, DiskInv
  <1>7. QED
    BY <1>5, <1>6, BackportCases

\* Every step keeps the invariant.
LEMMA SyncStep ==
  ASSUME SyncInv, [Next]_vars
  PROVE  SyncInv'
  <1>1. ASSUME NEW m \in MusaSubjects, NEW spots \in MusaEdits, CommitMusa(m, spots) PROVE SyncInv'
    BY <1>1, SyncCommitMusa
  <1>2. ASSUME NEW ref \in Refs, SetPins(ref) PROVE SyncInv'
    BY <1>2, SyncSetPins
  <1>3. CASE Resolve
    BY <1>3, SyncResolve
  <1>4. CASE Abort
    BY <1>4, SyncAbort
  <1>5. CASE Regen
    BY <1>5, SyncRegen
  <1>6. CASE RegenStops
    BY <1>6, SyncRegenStops
  <1>7. ASSUME NEW target \in Refs, RebaseAll(target) PROVE SyncInv'
    BY <1>7, SyncRebase DEF RebaseAll
  <1>8. ASSUME NEW target \in Refs, RebaseWithoutUpstreamed(target) PROVE SyncInv'
    <2>1. PICK q \in {FullHistory(target), CloneHistory(target)} : Rebase(target, Dropped(q))
      BY <1>8 DEF RebaseWithoutUpstreamed
    <2>2. QED
      BY <2>1, SyncRebase
  <1>9. ASSUME NEW c \in Changes, NEW regen \in BOOLEAN, Backport(c, regen) PROVE SyncInv'
    BY <1>9, SyncBackport
  <1>10. CASE UNCHANGED vars
    BY <1>10 DEF vars, SyncInv, RefsInv, Refs, CloneInv, BaseTree, WorkInv, DiskInv
  <1>11. QED
    BY <1>1, <1>2, <1>3, <1>4, <1>5, <1>6, <1>7, <1>8, <1>9, <1>10 DEF Next

\* Whatever the user, git and killed runs do, the clone's stack stays sound and the
\* directories hold our commits, one file of a name.
THEOREM SyncInvariance == Spec => []SyncInv
  <1>1. Init => SyncInv
    BY SyncInit
  <1>2. SyncInv /\ [Next]_vars => SyncInv'
    BY SyncStep
  <1>3. QED
    BY <1>1, <1>2, PTL DEF Spec

LEMMA SyncTypes ==
  ASSUME SyncInv
  PROVE  TypeOK /\ OnlyOurEntries
  <1>1. RefsInv /\ CloneInv /\ WorkInv /\ DiskInv
    BY DEF SyncInv
  <1>2. \A i \in DOMAIN stack : stack[i] \in Commits /\ Edited(stack[i].patch) # {}
    BY <1>1, LenProperties DEF CloneInv, Sound
  <1>3. \A f \in series.musa \cup series.upstream :
          f.entry \in Commits /\ Edited(f.entry.patch) # {} /\ f.num \in 1 .. MaxStack
    BY <1>1 DEF DiskInv, IsSeriesDirectory, IsDirectory, CommitFiles
  <1>4. \A c \in Commits : Edited(c.patch) # {} => c.patch # <<>>
    BY EmptyPatch
  <1>5. \A c \in Entries \cup {stack[i] : i \in DOMAIN stack} :
          c.patch # <<>> /\ c.pick \in Changes \cup {NoPick}
    BY <1>2, <1>3, <1>4, CommitParts DEF Entries
  <1>6. TypeOK
    BY <1>1, <1>3, <1>5 DEF TypeOK, RefsInv, CloneInv, WorkInv
  <1>7. OnlyOurEntries
    BY <1>3, CommitParts DEF OnlyOurEntries, Entries, Subjects
  <1>8. QED
    BY <1>6, <1>7

\* The clone and the series hold commits that change something, the entries are
\* numbered from 1, and work is left over only by an unfinished operation.
THEOREM SyncTypeCorrect == Spec => []TypeOK
  <1>1. SyncInv => TypeOK
    BY SyncTypes
  <1>2. QED
    BY <1>1, SyncInvariance, PTL

\* No entry of the series is a commit the main branch made between two pins.
THEOREM OnlyOurEntriesHolds == Spec => []OnlyOurEntries
  <1>1. SyncInv => OnlyOurEntries
    BY SyncTypes
  <1>2. QED
    BY <1>1, SyncInvariance, PTL

\* What regen would write, replayed on the base, is written the same way again.
THEOREM RoundTripHolds == Spec => []RoundTrip
  <1>1. ASSUME SyncInv PROVE RoundTrip
    <2> DEFINE out == InSeriesOrder(Formatted(stack))
    <2>1. BaseTree \in SpotTexts /\ stack \in Seq(Commits) /\ Sound(BaseTree, stack)
      BY <1>1, BaseSpotTexts DEF SyncInv, CloneInv
    <2>2. out \in Seq(Commits) /\ Sound(BaseTree, out) /\ Formatted(out) = Formatted(stack)
      BY <2>1, RegenSound, RegenSettles
    <2>3. out = Formatted(stack).musa \o Formatted(stack).upstream
      BY DEF InSeriesOrder
    <2> HIDE DEF out
    <2>4. AmFrom(BaseTree, <<>>, out) = [stack |-> out, rest |-> <<>>]
      BY <2>1, <2>2, AmReplay
    <2>5. AmFrom(BaseTree, <<>>, out).stack = out /\ AmFrom(BaseTree, <<>>, out).rest = <<>>
      BY <2>4
    <2>6. QED
      BY <2>2, <2>3, <2>5 DEF RoundTrip
  <1>2. QED
    BY <1>1, SyncInvariance, PTL

\* A complete regen writes a series that the build applies to the pin, entry after
\* entry, and that yields the clone's tree.
THEOREM RegenBuildsTheCloneHolds == Spec => RegenBuildsTheClone
  <1> DEFINE Builds == BuildsTo(TreeAt(history, pin), ApplyOrder(series'), ClonedTree)
  <1>1. ASSUME SyncInv, Regen PROVE Builds
    <2> DEFINE out == InSeriesOrder(Formatted(stack))
    <2>1. BaseAgrees
      BY <1>1 DEF Regen, MayRegen
    <2>2. /\ stack \in Seq(Commits) /\ Sound(BaseTree, stack) /\ BaseTree \in SpotTexts
          /\ Formatted(CommitsAbovePin) = Formatted(stack)
      BY <1>1, <2>1, RegenFresh
    <2>3. series' = Regenerated(Formatted(stack))
      BY <1>1, <2>2 DEF Regen
    <2>4. series' = [musa |-> NumberedFiles(Formatted(stack).musa),
                     upstream |-> NumberedFiles(Formatted(stack).upstream)]
      BY <2>2, <2>3, RegeneratedIs
    <2>5. ApplyOrder(series') = out
      BY <2>2, <2>4, WrittenOrder
    <2>6. /\ out \in Seq(Commits) /\ Sound(BaseTree, out)
          /\ HeadOf(BaseTree, out) = HeadOf(BaseTree, stack)
      BY <2>2, RegenSound
    <2> HIDE DEF out
    <2>7. BuildsTo(BaseTree, out, HeadOf(BaseTree, out))
      BY <2>2, <2>6, SoundBuilds
    <2>8. TreeAt(history, pin) = BaseTree
      BY <2>1 DEF BaseAgrees, BaseTree
    <2>9. QED
      BY <2>5, <2>6, <2>7, <2>8 DEF ClonedTree
  <1>2. SyncInv /\ [Next]_vars => [Regen => Builds]_vars
    BY <1>1
  <1>3. Spec => [][Next]_vars
    BY PTL DEF Spec
  <1>4. QED
    BY <1>2, <1>3, SyncInvariance, PTL DEF RegenBuildsTheClone

\* A backport that regenerates the series adds one entry, the last of upstream/, and
\* leaves every other file as it is.
LEMMA BackportAdds ==
  ASSUME SyncInv, NEW c \in Changes, Backport(c, TRUE), series' # series
  PROVE  /\ series'.musa = series.musa
         /\ \E f \in series'.upstream :
              /\ series'.upstream = series.upstream \cup {f}
              /\ f.entry.pick = c
              /\ f.num = Cardinality(series.upstream) + 1
  <1> DEFINE before == Restacked.stack
             x == Committed(HeadOf(BaseTree, before), BackportCommit(c))
             up == Formatted(stack).upstream
             f == [num |-> Len(up) + 1, entry |-> x]
  <1>1. HoldsTheSeries /\ Len(stack) < MaxStack
    BY BackportCases
  <1>2. Picked(c) # before /\ series' = Regenerated(Formatted(Picked(c)))
    BY BackportCases
  <1>3. /\ before \in Seq(Commits) /\ Sound(BaseTree, before) /\ Settled(before)
        /\ Formatted(before) = Formatted(stack)
    BY <1>1, Restacks
  <1>4. BaseTree \in SpotTexts /\ stack \in Seq(Commits)
    BY BaseSpotTexts DEF SyncInv, CloneInv
  <1> HIDE DEF before
  <1>5. HeadOf(BaseTree, before) \in SpotTexts
    BY <1>3, <1>4, HeadText
  <1>6. x \in Commits /\ x.pick = c /\ c # NoPick
    <2>1. BackportCommit(c) \in Commits /\ c # NoPick /\ BackportCommit(c).pick = c
      BY BackportCommitType DEF BackportCommit
    <2>2. QED
      BY <1>5, <2>1, CommittedIs
  <1>7. Picked(c) = Push(before, x)
    BY DEF Picked, before
  <1> HIDE DEF x
  <1>8. Picked(c) = Append(before, x)
    BY <1>2, <1>7 DEF Push
  <1>9. /\ Picked(c) \in Seq(Commits)
        /\ Formatted(Picked(c)).musa = Formatted(stack).musa
        /\ Formatted(Picked(c)).upstream = Append(up, x)
    BY <1>3, <1>6, <1>8, SettledAppend, AppendProperties
  <1>10. /\ series'.musa = NumberedFiles(Formatted(stack).musa)
         /\ series'.upstream = NumberedFiles(Append(up, x))
    <2>1. Regenerated(Formatted(Picked(c)))
            = [musa |-> NumberedFiles(Formatted(Picked(c)).musa),
               upstream |-> NumberedFiles(Formatted(Picked(c)).upstream)]
      BY <1>9, RegeneratedIs
    <2>2. series' = [musa |-> NumberedFiles(Formatted(stack).musa),
                     upstream |-> NumberedFiles(Append(up, x))]
      BY <1>2, <1>9, <2>1
    <2>3. QED
      BY <2>2
  <1>11. series.musa = NumberedFiles(Formatted(stack).musa) /\ series.upstream = NumberedFiles(up)
    <2>1. series = [musa |-> series.musa, upstream |-> series.upstream]
      BY DEF SyncInv, DiskInv
    <2>2. \A d \in {"musa", "upstream"} : series[d] = NumberedFiles(Formatted(stack)[d])
      BY <1>1, <2>1 DEF HoldsTheSeries
    <2>3. QED
      BY <2>2
  <1>12. up \in Seq(Commits) /\ Len(up) \in Nat
    BY <1>4, FormattedSplits, LenProperties
  <1> HIDE DEF up
  <1>13. Cardinality(series.upstream) = Len(up)
    BY <1>11, <1>12, NumberedInOrder
  <1>14. NumberedFiles(Append(up, x)) = NumberedFiles(up) \cup {f}
    <2> DEFINE n == Len(up)
               grown == Append(up, x)
    <2>1. /\ grown \in Seq(Commits) /\ Len(grown) = n + 1 /\ grown[n + 1] = x
          /\ \A i \in 1 .. n : grown[i] = up[i]
      BY <1>6, <1>12, AppendProperties
    <2>2. DOMAIN grown = 1 .. n + 1 /\ DOMAIN up = 1 .. n
      BY <1>12, <2>1, LenProperties
    <2> HIDE DEF grown
    <2>3. 1 .. n + 1 = (1 .. n) \cup {n + 1}
      BY <1>12
    <2>4. QED
      BY <2>1, <2>2, <2>3 DEF NumberedFiles, grown
  <1>15. /\ f \in series'.upstream
         /\ series'.upstream = series.upstream \cup {f}
         /\ f.entry.pick = c
         /\ f.num = Cardinality(series.upstream) + 1
    BY <1>6, <1>10, <1>11, <1>13, <1>14
  <1> HIDE DEF f
  <1>16. series'.musa = series.musa
    BY <1>10, <1>11
  <1>17. QED
    BY <1>15, <1>16

\* A backport that regenerates the series adds one entry, the last of upstream/, and
\* leaves every other file as it is, wherever MUSA commits stood in the clone.
THEOREM BackportAppendsHolds == Spec => BackportAppends
  <1> DEFINE Adds ==
        \A c \in Changes :
          Backport(c, TRUE) /\ series' # series =>
            /\ series'.musa = series.musa
            /\ \E f \in series'.upstream :
                 /\ series'.upstream = series.upstream \cup {f}
                 /\ f.entry.pick = c
                 /\ f.num = Cardinality(series.upstream) + 1
  <1>1. SyncInv => Adds
    BY BackportAdds
  <1>2. SyncInv /\ [Next]_vars => [Adds]_vars
    BY <1>1
  <1>3. Spec => [][Next]_vars
    BY PTL DEF Spec
  <1>4. QED
    BY <1>2, <1>3, SyncInvariance, PTL DEF BackportAppends

----------------------------------------------------------------------------
(* What a rebase drops.  First the branch: a text that was reverted does   *)
(* not come back without landing again.                                    *)

\* The last of a set of positions of a branch.
LEMMA LatestIs ==
  ASSUME NEW n \in Nat, NEW p \in SUBSET (1 .. n)
  PROVE  /\ Latest(p) \in p \cup {0}
         /\ Latest(p) = 0 <=> p = {}
         /\ \A i \in p : i <= Latest(p)
  <1>1. CASE p = {}
    BY <1>1 DEF Latest
  <1>2. CASE p # {}
    <2>1. PICK i \in p : TRUE
      BY <1>2
    <2> DEFINE T == {k \in Nat : n - k \in p}
    <2>2. n - i \in T
      BY <2>1
    <2>3. PICK k \in T : \A m \in T : k <= m
      BY <2>2, LeastNumber
    <2>4. n - k \in p /\ k \in Nat
      BY <2>3
    <2>5. ASSUME NEW j \in p PROVE j <= n - k
      <3>1. j \in Nat /\ j <= n /\ n - j \in Nat /\ n - (n - j) = j
        OBVIOUS
      <3>2. n - j \in T
        BY <3>1
      <3>3. k <= n - j
        BY <2>3, <3>2
      <3>4. QED
        BY <2>4, <3>1, <3>3
    <2>6. \E m \in p : \A j \in p : j <= m
      BY <2>4, <2>5
    <2>7. Latest(p) = CHOOSE m \in p : \A j \in p : j <= m
      BY <1>2 DEF Latest
    <2>8. Latest(p) \in p /\ \A j \in p : j <= Latest(p)
      BY <2>6, <2>7
    <2>9. Latest(p) # 0
      BY <2>8
    <2>10. QED
      BY <1>2, <2>8, <2>9
  <1>3. QED
    BY <1>1, <1>2

\* The texts that stand, at a spot, on the text of a change, and that text itself.
OnTopOf(c, s) ==
  {x \in Changes :
     \A T \in SUBSET Changes :
       (/\ c \in T
        /\ \A y \in Changes : s \in Edited(PatchOf[y]) /\ PatchOf[y][s].pre \in T => y \in T)
       => x \in T}

LEMMA OnTop ==
  ASSUME NEW c \in Changes, NEW s
  PROVE  /\ c \in OnTopOf(c, s) /\ OnTopOf(c, s) \subseteq Changes
         /\ \A y \in Changes :
              s \in Edited(PatchOf[y]) /\ PatchOf[y][s].pre \in OnTopOf(c, s) => y \in OnTopOf(c, s)
         /\ \A x \in OnTopOf(c, s) :
              x = c \/ (s \in Edited(PatchOf[x]) /\ PatchOf[x][s].pre \in OnTopOf(c, s))
  <1> DEFINE B == OnTopOf(c, s)
             Closed(T) ==
               /\ c \in T
               /\ \A y \in Changes : s \in Edited(PatchOf[y]) /\ PatchOf[y][s].pre \in T => y \in T
  <1>1. B = {x \in Changes : \A T \in SUBSET Changes : Closed(T) => x \in T}
    BY DEF OnTopOf
  <1> HIDE DEF B
  <1>2. c \in B /\ B \subseteq Changes
    BY <1>1
  <1>3. ASSUME NEW y \in Changes, s \in Edited(PatchOf[y]), PatchOf[y][s].pre \in B PROVE y \in B
    <2> SUFFICES ASSUME NEW T \in SUBSET Changes, Closed(T) PROVE y \in T
      BY <1>1
    <2>1. PatchOf[y][s].pre \in T
      BY <1>1, <1>3
    <2>2. QED
      BY <1>3, <2>1
  <1> DEFINE U == {x \in B : x = c \/ (s \in Edited(PatchOf[x]) /\ PatchOf[x][s].pre \in B)}
  <1>4. U \in SUBSET Changes /\ Closed(U)
    BY <1>2, <1>3
  <1>5. \A x \in B : x \in U
    <2> HIDE DEF U, Closed
    <2> QED BY <1>1, <1>4
  <1>6. QED
    BY <1>2, <1>3, <1>5 DEF B

\* What a commit of the branch does to a spot: a landing writes the change's text on the
\* text it expects, a revert goes back, anything else leaves no change's text.
LEMMA EventAt ==
  ASSUME NEW h \in Histories, NEW k \in 1 .. Len(h), NEW s \in Spots
  PROVE  LET before == TreeAt(h, k - 1)[s]
             after == TreeAt(h, k)[s]
             c == h[k].of
         IN  \/ after = before /\ (h[k].kind \in Landings \cup Reverts =>
                                     c \in Changes /\ s \notin Edited(PatchOf[c]))
             \/ /\ h[k].kind \in Landings /\ c \in Changes /\ s \in Edited(PatchOf[c])
                /\ before = PatchOf[c][s].pre /\ after = c
             \/ /\ h[k].kind \in Reverts /\ c \in Changes /\ s \in Edited(PatchOf[c])
                /\ before = c /\ after = PatchOf[c][s].pre
             \/ h[k].kind = "rewrite" /\ after = Rewritten
  <1> DEFINE old == TreeAt(h, k - 1)
             p == EventPatch(old, h[k])
             c == h[k].of
  <1>1. Len(h) \in Nat /\ h[k] \in Events /\ DOMAIN h = 1 .. Len(h) /\ IsHistory(h)
    BY MusaSyncAssumption, LenProperties
  <1>2. Expects(old, p)
    BY <1>1 DEF IsHistory
  <1>3. TreeAt(h, k) = Patched(old, p)
    BY TreesAre
  <1>4. TreeAt(h, k)[s] = IF s \in Edited(p) THEN p[s].post ELSE old[s]
    BY <1>3 DEF Patched
  <1>5. s \in Edited(p) => old[s] = p[s].pre
    BY <1>2 DEF Expects
  <1> HIDE DEF p, old
  <1>6. CASE h[k] \in [kind : Landings \cup Reverts, of : Changes]
    <2>1. c \in Changes /\ h[k].kind \in Landings \cup Reverts
      BY <1>6
    <2>2. PICK edited \in SUBSET Spots : PatchOf[c] \in [edited -> [pre : Texts, post : {c}]]
      BY <2>1, ChangesAssumption
    <2>3. Edited(PatchOf[c]) = edited /\ \A x \in edited : PatchOf[c][x].post = c
      BY <2>2 DEF Edited
    <2>4. CASE h[k].kind \in Landings
      <3>1. p = PatchOf[c]
        BY <2>4 DEF p, EventPatch, Landings, Titled, Reverts
      <3>2. QED
        BY <1>4, <1>5, <2>1, <2>3, <2>4, <3>1 DEF old
    <2>5. CASE h[k].kind \in Reverts
      <3>1. p = Reversed(PatchOf[c])
        BY <2>5 DEF p, EventPatch, Landings, Titled, Reverts
      <3>2. Edited(p) = edited /\ \A x \in edited : p[x].pre = c /\ p[x].post = PatchOf[c][x].pre
        BY <2>3, <3>1 DEF Reversed, Edited
      <3>3. QED
        BY <1>4, <1>5, <2>1, <2>3, <2>5, <3>2 DEF old
    <2>6. QED
      BY <2>1, <2>4, <2>5
  <1>7. CASE h[k] \in [kind : {"rewrite"}, of : Spots]
    <2>1. h[k].kind = "rewrite" /\ c \in Spots
      BY <1>7
    <2>2. p = Diff(old, [old EXCEPT ![c] = Rewritten])
      BY <2>1 DEF p, EventPatch, Landings, Titled, Reverts
    <2>3. old \in [Spots -> Texts]
      <3>1. k - 1 \in 0 .. Len(h)
        BY <1>1
      <3>2. QED
        BY <3>1, TreesAre DEF old
    <2>4. s \in Edited(p) => p[s].post = Rewritten
      BY <2>2, <2>3 DEF Diff, Edited
    <2>5. h[k].kind \notin Landings \cup Reverts
      BY <2>1 DEF Landings, Titled, Reverts
    <2>6. QED
      BY <1>4, <2>1, <2>4, <2>5 DEF old
  <1>8. QED
    <2>1. h[k] \in [kind : Landings \cup Reverts, of : Changes] \cup [kind : {"rewrite"}, of : Spots]
      BY <1>1 DEF Events
    <2>2. QED
      BY <1>6, <1>7, <2>1

\* A landing and a revert edit some spot.
LEMMA ChangeEdits ==
  ASSUME NEW h \in Histories, NEW k \in 1 .. Len(h), h[k].kind \in Landings \cup Reverts
  PROVE  /\ h[k].of \in Changes /\ Edited(PatchOf[h[k].of]) \subseteq Spots
         /\ Edited(PatchOf[h[k].of]) # {}
  <1> DEFINE c == h[k].of
             p == EventPatch(TreeAt(h, k - 1), h[k])
  <1>1. h[k] \in Events /\ DOMAIN h = 1 .. Len(h) /\ IsHistory(h)
    BY MusaSyncAssumption, LenProperties
  <1>2. c \in Changes
    BY <1>1 DEF Events, Landings, Titled, Reverts
  <1>3. PICK edited \in SUBSET Spots : PatchOf[c] \in [edited -> [pre : Texts, post : {c}]]
    BY <1>2, ChangesAssumption
  <1>4. Edited(PatchOf[c]) = edited
    BY <1>3 DEF Edited
  <1>5. p # <<>>
    BY <1>1 DEF IsHistory
  <1>6. p = PatchOf[c] \/ p = Reversed(PatchOf[c])
    BY DEF EventPatch, Landings, Titled, Reverts
  <1>7. edited # {}
    <2> SUFFICES ASSUME edited = {} PROVE FALSE
      OBVIOUS
    <2>1. PatchOf[c] = [x \in {} |-> 0]
      BY <1>3
    <2>2. Reversed(PatchOf[c]) = [x \in {} |-> 0]
      BY <1>4 DEF Reversed
    <2>3. [x \in {} |-> 0] = <<>>
      OBVIOUS
    <2>4. QED
      BY <1>5, <1>6, <2>1, <2>2, <2>3
  <1>8. QED
    BY <1>2, <1>4, <1>7

Lands(h, k, c) == h[k].kind \in Landings /\ h[k].of = c

\* A text on top of a change's comes to a spot only after that of the change, which lands
\* on a text that is not on top of its own.
LEMMA EntersOnTop ==
  ASSUME NEW h \in Histories, NEW k \in 1 .. Len(h), NEW c \in Changes, NEW s \in Spots,
         TreeAt(h, k - 1)[s] \notin OnTopOf(c, s), TreeAt(h, k)[s] \in OnTopOf(c, s)
  PROVE  /\ Lands(h, k, c) /\ s \in Edited(PatchOf[c])
         /\ TreeAt(h, k - 1)[s] = PatchOf[c][s].pre
  <1> DEFINE B == OnTopOf(c, s)
             before == TreeAt(h, k - 1)[s]
             after == TreeAt(h, k)[s]
             x == h[k].of
  <1>1. /\ c \in B /\ B \subseteq Changes
        /\ \A y \in Changes : s \in Edited(PatchOf[y]) /\ PatchOf[y][s].pre \in B => y \in B
        /\ \A y \in B : y = c \/ (s \in Edited(PatchOf[y]) /\ PatchOf[y][s].pre \in B)
    BY OnTop
  <1>2. Rewritten \notin B
    BY <1>1, ChangesAssumption DEF Rewritten
  <1>3. before \notin B /\ after \in B
    OBVIOUS
  <1>4. \/ after = before
        \/ /\ h[k].kind \in Landings /\ x \in Changes /\ s \in Edited(PatchOf[x])
           /\ before = PatchOf[x][s].pre /\ after = x
        \/ /\ x \in Changes /\ s \in Edited(PatchOf[x])
           /\ before = x /\ after = PatchOf[x][s].pre
        \/ after = Rewritten
    BY EventAt
  <1> HIDE DEF B, before, after, x
  <1>5. h[k].kind \in Landings /\ x = c /\ s \in Edited(PatchOf[c]) /\ before = PatchOf[c][s].pre
    BY <1>1, <1>2, <1>3, <1>4
  <1>6. QED
    BY <1>5 DEF Lands, x, before

LEMMA StartsBelow ==
  ASSUME NEW h \in Histories, NEW c \in Changes, NEW s \in Spots
  PROVE  TreeAt(h, 0)[s] \notin OnTopOf(c, s)
  <1>1. TreeAt(h, 0)[s] = 0
    BY TreesAre
  <1>2. QED
    BY <1>1, OnTop, ChangesAssumption

\* Positions of a branch up to which a fact holds all along.
LEMMA HoldsAlong ==
  ASSUME NEW a \in Nat, NEW b \in Nat, NEW P, a \in P,
         \A k \in a + 1 .. b : k - 1 \in P => k \in P
  PROVE  \A k \in a .. b : k \in P
  <1> DEFINE T == {k \in Nat : a <= k /\ k <= b => k \in P}
  <1>1. 0 \in T
    OBVIOUS
  <1>2. ASSUME NEW k \in Nat, k \in T PROVE k + 1 \in T
    <2>1. SUFFICES ASSUME a <= k + 1, k + 1 <= b PROVE k + 1 \in P
      OBVIOUS
    <2>2. CASE a = k + 1
      BY <2>2
    <2>3. CASE a # k + 1
      <3>1. k + 1 \in a + 1 .. b /\ (k + 1) - 1 = k /\ k \in P
        BY <1>2, <2>1, <2>3
      <3>2. QED
        BY <3>1
    <2>4. QED
      BY <2>2, <2>3
  <1>3. \A k \in Nat : k \in T
    <2> HIDE DEF T
    <2> QED BY <1>1, <1>2, SetInduction
  <1>4. QED
    BY <1>3

\* The text a change that has landed expects is not on top of its own.
LEMMA ExpectsBelow ==
  ASSUME NEW h \in Histories, NEW c \in Changes, NEW s \in Spots,
         NEW i \in 0 .. Len(h), TreeAt(h, i)[s] \in OnTopOf(c, s)
  PROVE  PatchOf[c][s].pre \notin OnTopOf(c, s) /\ PatchOf[c][s].pre # c
  <1> DEFINE P == {k \in Nat : TreeAt(h, k)[s] \notin OnTopOf(c, s)}
  <1>1. Len(h) \in Nat
    BY MusaSyncAssumption, LenProperties
  <1>2. 0 \in P
    BY StartsBelow
  <1>3. PICK k \in 1 .. Len(h) : k - 1 \in P /\ k \notin P
    <2> SUFFICES ASSUME \A k \in 0 + 1 .. Len(h) : k - 1 \in P => k \in P PROVE FALSE
      OBVIOUS
    <2> HIDE DEF P
    <2>1. \A k \in 0 .. Len(h) : k \in P
      BY <1>1, <1>2, HoldsAlong
    <2>2. QED
      BY <2>1 DEF P
  <1>4. TreeAt(h, k - 1)[s] \notin OnTopOf(c, s) /\ TreeAt(h, k)[s] \in OnTopOf(c, s)
    BY <1>1, <1>3
  <1>5. TreeAt(h, k - 1)[s] = PatchOf[c][s].pre
    BY <1>4, EntersOnTop
  <1>6. QED
    BY <1>4, <1>5, OnTop

\* The last revert of a change that is undone.
LEMMA LastRevert ==
  ASSUME NEW h \in Histories, NEW target \in 0 .. Len(h), NEW c, Undone(h, target, c)
  PROVE  \E last \in 1 .. target :
           /\ h[last].kind \in Reverts /\ h[last].of = c
           /\ \A k \in 1 .. target : Lands(h, k, c) => k < last
           /\ \A k \in 1 .. target : h[k].kind \in Reverts /\ h[k].of = c => k <= last
  <1> DEFINE p == {i \in 1 .. target : h[i].kind \in Landings \cup Reverts /\ h[i].of = c}
             last == Latest(p)
  <1>1. target \in Nat /\ p \in SUBSET (1 .. target)
    BY MusaSyncAssumption, LenProperties
  <1>2. last # 0 /\ h[last].kind \in Reverts
    BY DEF Undone
  <1>3. last \in p \cup {0} /\ \A i \in p : i <= last
    <2> HIDE DEF p
    <2> QED BY <1>1, LatestIs
  <1>4. last \in p
    BY <1>2, <1>3
  <1>5. ASSUME NEW k \in 1 .. target, Lands(h, k, c) PROVE k < last
    <2>1. k \in p
      BY <1>5 DEF Lands
    <2>2. k # last
      BY <1>2, <1>5 DEF Lands, Landings, Titled, Reverts
    <2>3. QED
      BY <1>3, <1>4, <2>1, <2>2
  <1>6. ASSUME NEW k \in 1 .. target, h[k].kind \in Reverts, h[k].of = c PROVE k <= last
    BY <1>3, <1>6
  <1>7. QED
    BY <1>2, <1>4, <1>5, <1>6

\* The text of a change the branch undid last is nowhere on its tree.
LEMMA UndoneIsGone ==
  ASSUME NEW h \in Histories, NEW target \in 0 .. Len(h), NEW c \in Changes,
         Undone(h, target, c), NEW s \in Edited(PatchOf[c])
  PROVE  TreeAt(h, target)[s] # c
  <1>1. PICK last \in 1 .. target :
          /\ h[last].kind \in Reverts /\ h[last].of = c
          /\ \A k \in 1 .. target : Lands(h, k, c) => k < last
    BY LastRevert
  <1>2. Len(h) \in Nat /\ target \in Nat /\ last \in 1 .. Len(h)
    BY MusaSyncAssumption, LenProperties
  <1>3. s \in Spots
    BY <1>1, <1>2, ChangeEdits
  <1>4. TreeAt(h, last - 1)[s] = c /\ TreeAt(h, last)[s] = PatchOf[c][s].pre
    BY <1>1, <1>2, <1>3, EventAt DEF Landings, Titled, Reverts
  <1>5. PatchOf[c][s].pre \notin OnTopOf(c, s)
    <2>1. last - 1 \in 0 .. Len(h) /\ c \in OnTopOf(c, s)
      BY <1>2, OnTop
    <2>2. QED
      BY <1>3, <1>4, <2>1, ExpectsBelow
  <1> DEFINE P == {k \in Nat : TreeAt(h, k)[s] \notin OnTopOf(c, s)}
  <1>6. last \in P
    BY <1>2, <1>4, <1>5
  <1>7. ASSUME NEW k \in last + 1 .. target, k - 1 \in P PROVE k \in P
    <2>1. k \in 1 .. Len(h) /\ k \in 1 .. target /\ last < k /\ last \in Nat
      BY <1>2
    <2>2. ~ Lands(h, k, c)
      BY <1>1, <2>1
    <2>3. TreeAt(h, k - 1)[s] \notin OnTopOf(c, s)
      BY <1>7
    <2>4. QED
      BY <1>3, <2>1, <2>2, <2>3, EntersOnTop
  <1>8. target \in P
    <2> HIDE DEF P
    <2>1. last \in Nat /\ target \in Nat
      BY <1>2
    <2>2. \A k \in last .. target : k \in P
      BY <2>1, <1>6, <1>7, HoldsAlong
    <2>3. QED
      BY <1>2, <2>2
  <1>9. QED
    BY <1>8, OnTop

\* What a commit that lands or undoes a change finds and leaves.
LEMMA LandsAt ==
  ASSUME NEW h \in Histories, NEW k \in 1 .. Len(h), NEW c, Lands(h, k, c),
         NEW s \in Edited(PatchOf[c])
  PROVE  /\ s \in Spots /\ c \in Changes /\ PatchOf[c][s].pre # c
         /\ TreeAt(h, k - 1)[s] = PatchOf[c][s].pre /\ TreeAt(h, k)[s] = c
  <1>1. h[k].kind \in Landings \cup Reverts /\ h[k].of = c
    BY DEF Lands
  <1>2. c \in Changes /\ s \in Spots
    BY <1>1, ChangeEdits
  <1>3. TreeAt(h, k - 1)[s] = PatchOf[c][s].pre /\ TreeAt(h, k)[s] = c
    BY <1>1, <1>2, EventAt DEF Lands, Landings, Titled, Reverts
  <1>4. k \in 0 .. Len(h)
    BY MusaSyncAssumption, LenProperties
  <1>5. PatchOf[c][s].pre # c
    BY <1>2, <1>3, <1>4, OnTop, ExpectsBelow
  <1>6. QED
    BY <1>2, <1>3, <1>5

\* The landings of a change before a position.
LandedBefore(h, k, c) == {i \in 1 .. k - 1 : h[i].kind \in Landings /\ h[i].of = c}

\* Where a change is never taken away without a word, the first commit that takes it away
\* after a landing says so, and undoes that landing.
LEMMA ToldBetween ==
  ASSUME NEW h \in Histories, NEW target \in 0 .. Len(h), NEW c \in Changes,
         ~ TakenSilently(h, target, c),
         NEW a \in 1 .. target, Lands(h, a, c), NEW s \in Edited(PatchOf[c]),
         NEW b \in a .. target, TreeAt(h, b)[s] # c
  PROVE  \E j \in a + 1 .. b :
           h[j].kind = "told" /\ h[j].of = c /\ Latest(LandedBefore(h, j, c)) = a
  <1> DEFINE P == {k \in Nat : \A m \in a .. k : TreeAt(h, m)[s] = c}
  <1>1. Len(h) \in Nat /\ target \in Nat /\ a \in Nat /\ b \in Nat /\ a \in 1 .. Len(h)
    BY MusaSyncAssumption, LenProperties
  <1>2. TreeAt(h, a)[s] = c
    BY <1>1, LandsAt
  <1>3. a \in P
    BY <1>1, <1>2
  <1>4. PICK j \in a + 1 .. b : j - 1 \in P /\ j \notin P
    <2> SUFFICES ASSUME \A k \in a + 1 .. b : k - 1 \in P => k \in P PROVE FALSE
      OBVIOUS
    <2> HIDE DEF P
    <2>1. \A k \in a .. b : k \in P
      BY <1>1, <1>3, HoldsAlong
    <2>2. b \in P /\ b \in a .. b
      BY <1>1, <2>1
    <2>3. QED
      BY <2>2 DEF P
  <1>5. \A m \in a .. j - 1 : TreeAt(h, m)[s] = c
    BY <1>4
  <1>6. TreeAt(h, j - 1)[s] = c /\ TreeAt(h, j)[s] # c /\ j \in 1 .. target
    <2>1. j \in Nat /\ a .. j = (a .. j - 1) \cup {j}
      BY <1>1
    <2>2. QED
      BY <1>1, <1>4, <1>5, <2>1
  <1>7. h[j] = [kind |-> "told", of |-> c]
    BY <1>6 DEF TakenSilently
  <1>8. ASSUME NEW k \in LandedBefore(h, j, c) PROVE k <= a
    <2>1. SUFFICES ASSUME a < k PROVE FALSE
      BY <1>1 DEF LandedBefore
    <2>2. k \in 1 .. Len(h) /\ k - 1 \in a .. j - 1 /\ Lands(h, k, c)
      BY <1>1, <1>6, <1>8, <2>1 DEF LandedBefore, Lands
    <2>3. QED
      BY <1>5, <2>2, LandsAt
  <1>9. a \in LandedBefore(h, j, c)
    BY <1>1, <1>6 DEF LandedBefore, Lands
  <1>10. LandedBefore(h, j, c) \in SUBSET (1 .. j - 1) /\ j - 1 \in Nat
    BY <1>1, <1>6 DEF LandedBefore
  <1>11. Latest(LandedBefore(h, j, c)) = a
    <2> DEFINE p == LandedBefore(h, j, c)
    <2>1. p \in SUBSET (1 .. j - 1) /\ j - 1 \in Nat /\ a \in p /\ \A k \in p : k <= a
      BY <1>8, <1>9, <1>10
    <2> HIDE DEF p
    <2>2. Latest(p) \in p /\ a <= Latest(p)
      BY <2>1, LatestIs
    <2>3. Latest(p) <= a /\ Latest(p) \in Nat
      <3>1. \A k \in p : k \in Nat /\ k <= a
        BY <1>1, <1>6, <2>1
      <3>2. QED
        BY <2>2, <3>1
    <2>4. QED
      BY <1>1, <2>2, <2>3 DEF p
  <1>12. QED
    BY <1>7, <1>11

\* A landing that no commit reverts, of a change the branch undid last: the change was
\* once taken away without a word.
LEMMA NotRevertedTaken ==
  ASSUME NEW h \in Histories, NEW target \in 0 .. Len(h), NEW q,
         q.h = h, q.target = target, q.cut \in Nat,
         NEW c \in Changes, NEW found \in 1 .. target, Lands(h, found, c),
         ~ IsReverted(q, found), Undone(h, target, c)
  PROVE  TakenSilently(h, target, c)
  <1> SUFFICES ASSUME ~ TakenSilently(h, target, c) PROVE FALSE
    OBVIOUS
  <1> DEFINE titled == h[found].kind \in Titled
             undoes(j) ==
               /\ h[j].kind = "told" /\ h[j].of = c
               /\ LET undone == Latest(LandedBefore(h, j, c))
                  IN  undone = found \/ (titled /\ h[undone].kind \in Titled)
             U == {j \in found + 1 .. target : undoes(j)}
             revert == Latest(U)
  <1>1. Len(h) \in Nat /\ target \in Nat /\ found \in Nat /\ found \in 1 .. Len(h)
    BY MusaSyncAssumption, LenProperties
  <1>2. IsReverted(q, found)
          = (revert # 0 /\ ~ (titled /\ \E i \in Landed(q, Titled, c) : i > revert))
    <2>1. q.h[found].of = c
      BY DEF Lands
    <2>2. QED
      BY <2>1 DEF IsReverted, LandedBefore
  <1>3. \A i \in Landed(q, Titled, c) : i \in 1 .. target /\ Lands(h, i, c) /\ h[i].kind \in Titled
    BY <1>1 DEF Landed, Lands, Landings
  <1>4. PICK last \in 1 .. target :
          /\ h[last].kind \in Reverts /\ h[last].of = c
          /\ \A k \in 1 .. target : Lands(h, k, c) => k < last
          /\ \A k \in 1 .. target : h[k].kind \in Reverts /\ h[k].of = c => k <= last
    BY LastRevert
  <1>5. PICK s : s \in Edited(PatchOf[c])
    <2>1. h[found].kind \in Landings \cup Reverts /\ h[found].of = c
      BY DEF Lands
    <2>2. QED
      BY <1>1, <2>1, ChangeEdits
  <1>6. found < last /\ last \in 1 .. Len(h) /\ last \in Nat
    BY <1>1, <1>4
  <1>7. U \in SUBSET (1 .. target)
    BY <1>1
  <1>8. /\ revert \in U \cup {0} /\ (revert = 0 <=> U = {})
        /\ \A j \in U : j <= revert
    <2> HIDE DEF U
    <2> QED BY <1>1, <1>7, LatestIs
  <1>9. TreeAt(h, last - 1)[s] = c /\ TreeAt(h, last)[s] = PatchOf[c][s].pre
    <2>1. s \in Spots
      BY <1>1, <1>5, LandsAt
    <2>2. QED
      BY <1>4, <1>5, <1>6, <2>1, EventAt DEF Landings, Titled, Reverts
  <1>10. PatchOf[c][s].pre # c
    BY <1>1, <1>5, LandsAt
  <1>11. h[last].kind = "told"
    BY <1>4, <1>5, <1>9, <1>10 DEF TakenSilently
  <1> DEFINE p == Latest(LandedBefore(h, last, c))
  <1>12. /\ p \in 1 .. target /\ Lands(h, p, c) /\ found <= p
         /\ \A k \in 1 .. target : Lands(h, k, c) => k <= p
    <2> DEFINE L == LandedBefore(h, last, c)
    <2>1. L \in SUBSET (1 .. target) /\ found \in L
      BY <1>1, <1>6 DEF LandedBefore, Lands
    <2>2. \A k \in 1 .. target : Lands(h, k, c) => k \in L
      BY <1>1, <1>4 DEF LandedBefore, Lands
    <2>3. \A k \in L : Lands(h, k, c)
      BY DEF LandedBefore, Lands
    <2> HIDE DEF L
    <2>4. Latest(L) \in L /\ \A k \in L : k <= Latest(L)
      BY <1>1, <2>1, LatestIs
    <2>5. QED
      BY <2>1, <2>2, <2>3, <2>4 DEF L
  <1> HIDE DEF p, revert
  <1>13. CASE p = found \/ (titled /\ h[p].kind \in Titled)
    <2>1. undoes(last)
      BY <1>4, <1>11, <1>13 DEF p
    <2>2. last \in U
      BY <1>1, <1>6, <2>1
    <2>3. revert \in U /\ last <= revert /\ revert # 0
      BY <1>6, <1>8, <2>2
    <2>4. revert \in 1 .. target /\ h[revert].kind \in Reverts /\ h[revert].of = c
      BY <1>1, <2>3 DEF Reverts
    <2>5. revert = last
      BY <1>4, <2>3, <2>4
    <2>6. PICK i \in Landed(q, Titled, c) : i > revert
      BY <1>2, <2>3
    <2>7. QED
      BY <1>3, <1>4, <2>5, <2>6
  <1>14. CASE p # found /\ ~ (titled /\ h[p].kind \in Titled)
    <2>1. found < p /\ p \in 1 .. Len(h)
      BY <1>1, <1>12, <1>14
    <2>2. TreeAt(h, p - 1)[s] # c
      BY <1>5, <1>10, <1>12, <2>1, LandsAt
    <2>3. p - 1 \in found .. target /\ p - 1 <= target
      BY <1>1, <1>12, <2>1
    <2>4. PICK j \in found + 1 .. p - 1 :
            h[j].kind = "told" /\ h[j].of = c /\ Latest(LandedBefore(h, j, c)) = found
      BY <1>5, <2>2, <2>3, ToldBetween
    <2>5. j \in U
      BY <1>1, <2>3, <2>4
    <2>6. revert # 0 /\ revert \in U
      BY <1>8, <2>5
    <2>7. PICK i \in Landed(q, Titled, c) : i > revert
      BY <1>2, <2>6
    <2>8. titled
      BY <1>2, <2>6
    <2>9. i \in 1 .. target /\ Lands(h, i, c) /\ h[i].kind \in Titled
      BY <1>3, <2>7
    <2>10. i < p
      <3>1. i <= p /\ i # p
        BY <1>12, <1>14, <2>8, <2>9
      <3>2. QED
        BY <1>12, <2>9, <3>1
    <2>11. p - 1 \in i .. target
      BY <1>12, <2>3, <2>9, <2>10
    <2>12. PICK k \in i + 1 .. p - 1 :
             h[k].kind = "told" /\ h[k].of = c /\ Latest(LandedBefore(h, k, c)) = i
      BY <1>5, <2>2, <2>9, <2>11, ToldBetween
    <2>13. undoes(k)
      BY <2>8, <2>9, <2>12
    <2>14. revert \in found + 1 .. target
      BY <2>6
    <2>15. k \in found + 1 .. target /\ k > revert
      BY <1>1, <2>3, <2>7, <2>9, <2>12, <2>14
    <2>16. k <= revert
      BY <1>8, <2>13, <2>15
    <2>17. QED
      BY <2>14, <2>15, <2>16
  <1>15. QED
    BY <1>13, <1>14

\* The trees an upgrade plan goes through.
LEMMA AppliedRun ==
  ASSUME NEW t \in SpotTexts, NEW stk \in Seq(Commits)
  PROVE  /\ Applied(t, stk)[0] = t
         /\ \A k \in 1 .. Len(stk) :
              Applied(t, stk)[k]
                = IF ApplyStatus(Applied(t, stk)[k - 1], stk[k].patch) = "applied"
                  THEN Patched(Applied(t, stk)[k - 1], stk[k].patch) ELSE Applied(t, stk)[k - 1]
  <1> DEFINE n == Len(stk)
             Next1(x, k) == IF ApplyStatus(x, stk[k].patch) = "applied"
                            THEN Patched(x, stk[k].patch) ELSE x
             step == [i \in Nat |-> [x \in SpotTexts |-> IF i < n THEN Next1(x, i + 1) ELSE x]]
             Rec(f) == [i \in 0 .. n |-> IF i = 0 THEN t ELSE Next1(f[i - 1], i)]
             g == CHOOSE f : f = Rec(f)
  <1>1. n \in Nat /\ \A i \in 1 .. n : stk[i] \in Commits
    BY LenProperties
  <1>2. Applied(t, stk) = g
    BY DEF Applied
  <1> HIDE DEF n
  <1>3. ASSUME NEW x \in SpotTexts, NEW i \in 1 .. n PROVE Next1(x, i) \in SpotTexts
    BY <1>1, PatchedType
  <1> HIDE DEF Next1
  <1>4. step \in [Nat -> [SpotTexts -> SpotTexts]]
    <2>1. ASSUME NEW i \in Nat, NEW x \in SpotTexts
          PROVE  (IF i < n THEN Next1(x, i + 1) ELSE x) \in SpotTexts
      <3>1. i < n => i + 1 \in 1 .. n
        BY <1>1
      <3>2. QED
        BY <1>3, <3>1
    <2>2. QED
      BY <2>1
  <1> HIDE DEF step
  <1>5. PICK f \in [0 .. n -> SpotTexts] : IsRun(f, n, t, step)
    BY <1>1, <1>4, RunsExist
  <1>6. ASSUME NEW i \in 1 .. n PROVE f[i] = Next1(f[i - 1], i)
    <2>1. i - 1 \in 0 .. n - 1 /\ i - 1 \in Nat /\ (i - 1) + 1 = i /\ i - 1 < n /\ i - 1 \in 0 .. n
      BY <1>1
    <2>2. f[(i - 1) + 1] = step[i - 1][f[i - 1]]
      BY <1>5, <2>1 DEF IsRun
    <2>3. f[i - 1] \in SpotTexts
      BY <1>5, <2>1
    <2>4. step[i - 1][f[i - 1]] = Next1(f[i - 1], (i - 1) + 1)
      BY <2>1, <2>3 DEF step
    <2>5. QED
      BY <2>1, <2>2, <2>4
  <1>7. f[0] = t
    BY <1>5 DEF IsRun
  <1>8. f = Rec(f)
    BY <1>1, <1>5, <1>6, <1>7
  <1>9. g = Rec(g)
    BY <1>8
  <1> HIDE DEF g
  <1>10. g[0] = t /\ \A k \in 1 .. n : g[k] = Next1(g[k - 1], k)
    <2>1. \A k \in 0 .. n : Rec(g)[k] = IF k = 0 THEN t ELSE Next1(g[k - 1], k)
      OBVIOUS
    <2>2. 0 \in 0 .. n /\ \A k \in 1 .. n : k \in 0 .. n /\ k # 0
      BY <1>1
    <2> HIDE DEF Rec
    <2>3. QED
      BY <1>9, <2>1, <2>2
  <1>11. QED
    BY <1>2, <1>10 DEF Next1, n

\* The text of a spot there is the target's, or that of an entry so far.
LEMMA AppliedText ==
  ASSUME NEW t \in SpotTexts, NEW stk \in Seq(Commits), NEW i \in 0 .. Len(stk), NEW s \in Spots
  PROVE  \/ Applied(t, stk)[i][s] = t[s]
         \/ \E j \in 1 .. i : /\ s \in Edited(stk[j].patch)
                              /\ Applied(t, stk)[i][s] = stk[j].patch[s].post
  <1> DEFINE a == Applied(t, stk)
             Known(k) == \/ a[k][s] = t[s]
                         \/ \E j \in 1 .. k : /\ s \in Edited(stk[j].patch)
                                              /\ a[k][s] = stk[j].patch[s].post
             P == {k \in Nat : Known(k)}
  <1>1. Len(stk) \in Nat
    BY LenProperties
  <1>2. /\ a[0] = t
        /\ \A k \in 1 .. Len(stk) : a[k] = a[k - 1] \/ a[k] = Patched(a[k - 1], stk[k].patch)
    BY AppliedRun
  <1> HIDE DEF a
  <1>3. 0 \in P
    BY <1>2
  <1>4. ASSUME NEW k \in 0 + 1 .. Len(stk), k - 1 \in P PROVE k \in P
    <2>1. k \in Nat /\ k \in 1 .. k /\ \A j \in 1 .. k - 1 : j \in 1 .. k
      OBVIOUS
    <2>2. \/ a[k][s] = a[k - 1][s]
          \/ s \in Edited(stk[k].patch) /\ a[k][s] = stk[k].patch[s].post
      <3>1. k \in 1 .. Len(stk)
        BY <1>1
      <3>2. Patched(a[k - 1], stk[k].patch)[s]
              = IF s \in Edited(stk[k].patch) THEN stk[k].patch[s].post ELSE a[k - 1][s]
        BY DEF Patched
      <3>3. QED
        BY <1>2, <3>1, <3>2
    <2>3. Known(k - 1)
      BY <1>4
    <2>4. Known(k)
      BY <2>1, <2>2, <2>3
    <2>5. QED
      BY <2>1, <2>4
  <1>5. \A k \in 0 .. Len(stk) : k \in P
    <2> HIDE DEF P
    <2> QED BY <1>1, <1>3, <1>4, HoldsAlong
  <1>6. QED
    BY <1>5 DEF a

\* "in" is said of a change that has a landing which no commit reverts.
LEMMA InIsLanded ==
  ASSUME NEW q, q.target \in Nat, q.cut \in Nat, NEW c, RefsState(q, c) = "in"
  PROVE  \E found \in 1 .. q.target :
           Lands(q.h, found, c) /\ ~ IsReverted(q, found)
  <1>1. ASSUME NEW kinds \in SUBSET Landings, NEW p \in SUBSET Landed(q, kinds, c), Latest(p) # 0
        PROVE  Latest(p) \in 1 .. q.target /\ Lands(q.h, Latest(p), c)
    <2>1. p \in SUBSET (1 .. q.target)
      BY DEF Landed
    <2>2. Latest(p) \in p
      BY <1>1, <2>1, LatestIs
    <2>3. QED
      BY <2>1, <2>2 DEF Landed, Lands
  <1>2. /\ Titled \in SUBSET Landings /\ {"itself"} \in SUBSET Landings
        /\ {"pick"} \in SUBSET Landings /\ Landings \in SUBSET Landings
    BY DEF Landings, Titled
  <1> DEFINE itself == Latest(Landed(q, {"itself"}, c))
             pick == Latest(Landed(q, {"pick"}, c))
             merged == Latest(Landed(q, Titled, c))
             same == Latest({i \in Landed(q, Landings, c) : i > q.pin})
             Good(f) == f # 0 => f \in 1 .. q.target /\ Lands(q.h, f, c)
  <1>3. Good(itself) /\ Good(pick) /\ Good(merged)
    BY <1>1, <1>2
  <1>4. Good(same)
    <2>1. {i \in Landed(q, Landings, c) : i > q.pin} \in SUBSET Landed(q, Landings, c)
      OBVIOUS
    <2>2. QED
      BY <1>1, <1>2, <2>1
  <1>5. FoundAs(q, c) \in {itself, pick, merged, same}
    <2> HIDE DEF itself, pick, merged, same
    <2>1. FoundAs(q, c) = IF itself # 0 THEN itself
                          ELSE IF pick # 0 THEN pick
                          ELSE IF merged # 0 THEN merged ELSE same
      BY DEF FoundAs, itself, pick, merged, same
    <2>2. QED
      BY <2>1
  <1> HIDE DEF itself, pick, merged, same, Good
  <1>6. Good(FoundAs(q, c))
    BY <1>3, <1>4, <1>5
  <1>7. \A f : StateOf(q, f) = "in" => f # 0 /\ ~ IsReverted(q, f)
    BY DEF StateOf
  <1>8. StateOf(q, FoundAs(q, c)) = "in" \/ StateOf(q, merged) = "in"
    BY DEF RefsState, merged
  <1>9. QED
    BY <1>3, <1>6, <1>7, <1>8 DEF Good

\* What is dropped: an upstream entry whose content the target has, or one whose change is
\* in by the branch's history and that does not apply.
LEMMA DroppedIs ==
  ASSUME NEW q, NEW musa \in Seq(Commits), NEW upstream \in Seq(Commits),
         NEW i \in DOMAIN PlanRows(q, musa, upstream), PlanRows(q, musa, upstream)[i] = "drop"
  PROVE  LET entries == musa \o upstream
             content == Statuses(TreeAt(q.h, q.target), entries)[i]
         IN  /\ i \in 1 .. Len(entries) /\ entries[i].pick # NoPick
             /\ \/ content = "already-applied"
                \/ RefsState(q, entries[i].pick) = "in" /\ content = "conflict"
  <1> DEFINE entries == musa \o upstream
             content == Statuses(TreeAt(q.h, q.target), entries)
             own(k) ==
               IF k <= Len(musa) THEN Verdict(FALSE, "out", content[k], "unknown")
               ELSE Verdict(TRUE, RefsState(q, entries[k].pick), content[k],
                            Verbatim(q, entries[k]))
             moved(k) ==
               \E j \in Len(musa) + 1 .. k - 1 : entries[j].pick # NoPick /\ own(j) # "keep"
  <1>1. entries \in Seq(Commits) /\ Len(musa) \in Nat
    BY ConcatProperties, LenProperties
  <1> HIDE DEF content, entries
  <1>2. PlanRows(q, musa, upstream)
          = [k \in DOMAIN entries |->
               IF k > Len(musa) /\ entries[k].pick = NoPick
               THEN IF moved(k) THEN "review" ELSE "keep"
               ELSE own(k)]
    BY Zenon DEF PlanRows, content, entries
  <1> HIDE DEF own, moved
  <1>3. i \in 1 .. Len(entries) /\ i \in Nat
    BY <1>1, <1>2, LenProperties
  <1>4. ~ (i > Len(musa) /\ entries[i].pick = NoPick) /\ own(i) = "drop"
    BY <1>2
  <1>5. i > Len(musa)
    <2> SUFFICES ASSUME i <= Len(musa) PROVE FALSE
      BY <1>1, <1>3
    <2>1. own(i) = Verdict(FALSE, "out", content[i], "unknown")
      BY DEF own
    <2>2. QED
      BY <1>4, <2>1 DEF Verdict
  <1>6. own(i) = Verdict(TRUE, RefsState(q, entries[i].pick), content[i], Verbatim(q, entries[i]))
    <2>1. ~ (i <= Len(musa))
      BY <1>1, <1>3, <1>5
    <2>2. QED
      BY <2>1, Zenon DEF own
  <1>7. content[i] = "already-applied"
        \/ (RefsState(q, entries[i].pick) = "in" /\ content[i] = "conflict")
    BY <1>4, <1>6 DEF Verdict
  <1>8. QED
    BY <1>3, <1>4, <1>5, <1>7 DEF content, entries

\* Every entry of a series changes something.
LEMMA EntriesEdit ==
  ASSUME DiskInv, NEW i \in 1 .. Len(ApplyOrder(series))
  PROVE  Edited(ApplyOrder(series)[i].patch) # {}
  <1> DEFINE E == {f.entry : f \in series.musa \cup series.upstream}
  <1>1. \A e \in E : Edited(e.patch) # {}
    BY DEF DiskInv, IsSeriesDirectory
  <1>2. /\ InNameOrder(series.musa) \in Seq({f.entry : f \in series.musa})
        /\ InNameOrder(series.upstream) \in Seq({f.entry : f \in series.upstream})
    BY DirectoryInOrder DEF DiskInv, IsSeriesDirectory
  <1>3. {f.entry : f \in series.musa} \subseteq E /\ {f.entry : f \in series.upstream} \subseteq E
    OBVIOUS
  <1> HIDE DEF E
  <1>4. InNameOrder(series.musa) \in Seq(E) /\ InNameOrder(series.upstream) \in Seq(E)
    BY <1>2, <1>3
  <1>5. ApplyOrder(series) \in Seq(E)
    BY <1>4, ConcatProperties DEF ApplyOrder
  <1>6. QED
    BY <1>1, <1>5, ElementOfSeq

\* rebase --drop-upstreamed drops no backport that the target branch undid last, unless the
\* change was once taken away without a word and the entry does not apply, or an earlier
\* entry carries the change (_plan_verdict, _UpstreamHistory).
THEOREM DropsOnlyTheUpstreamedHolds == Spec => []DropsOnlyTheUpstreamed
  <1>1. ASSUME SyncInv PROVE DropsOnlyTheUpstreamed
    <2> DEFINE order == ApplyOrder(series)
               Top(target) == TreeAt(history, target)
    <2> SUFFICES ASSUME NEW target \in Refs, NEW q \in {FullHistory(target), CloneHistory(target)},
                        NEW i \in Dropped(q), Undone(history, target, order[i].pick)
                 PROVE  \/ /\ TakenSilently(history, target, order[i].pick)
                           /\ Statuses(Top(target), order)[i] = "conflict"
                        \/ \E j \in 1 .. i - 1 : order[j].pick = order[i].pick
      BY DEF DropsOnlyTheUpstreamed
    <2> DEFINE c == order[i].pick
    <2>1. /\ InNameOrder(series.musa) \in Seq(Commits) /\ InNameOrder(series.upstream) \in Seq(Commits)
          /\ order \in Seq(Commits) /\ DOMAIN order = 1 .. Len(order) /\ Len(order) \in Nat
      BY <1>1, DirectoryInOrder, SeriesOrder, LenProperties DEF SyncInv, DiskInv, IsSeriesDirectory
    <2>2. order = InNameOrder(series.musa) \o InNameOrder(series.upstream)
      BY DEF ApplyOrder
    <2>3. history \in Histories /\ target \in 0 .. Len(history) /\ target \in Nat
      BY <1>1, MusaSyncAssumption, LenProperties DEF SyncInv, RefsInv, Refs
    <2>4. q.h = history /\ q.target = target /\ q.cut \in Nat
      BY <2>3 DEF FullHistory, CloneHistory
    <2>5. /\ i \in 1 .. Len(order) /\ c # NoPick
          /\ \/ Statuses(Top(target), order)[i] = "already-applied"
             \/ RefsState(q, c) = "in" /\ Statuses(Top(target), order)[i] = "conflict"
      <3>1. i \in DOMAIN Plan(q) /\ Plan(q)[i] = "drop"
        BY DEF Dropped
      <3> DEFINE musa == InNameOrder(series.musa)
                 up == InNameOrder(series.upstream)
      <3>2. musa \in Seq(Commits) /\ up \in Seq(Commits) /\ order = musa \o up
        BY <2>1, <2>2
      <3>3. i \in DOMAIN PlanRows(q, musa, up) /\ PlanRows(q, musa, up)[i] = "drop"
        BY <3>1 DEF Plan, Upstream
      <3>4. Top(target) = TreeAt(q.h, q.target)
        BY <2>4
      <3> HIDE DEF musa, up, order, Top
      <3>5. QED
        BY <3>2, <3>3, <3>4, DroppedIs
    <2> HIDE DEF order
    <2>6. order[i] \in Commits /\ c \in Changes
      BY <2>1, <2>5, CommitParts
    <2>7. Top(target) \in SpotTexts
      BY <2>3, TreesText
    <2>8. CASE RefsState(q, c) = "in" /\ Statuses(Top(target), order)[i] = "conflict"
      <3>1. PICK found \in 1 .. target : Lands(history, found, c) /\ ~ IsReverted(q, found)
        BY <2>3, <2>4, <2>8, InIsLanded
      <3>2. TakenSilently(history, target, c)
        BY <2>3, <2>4, <2>6, <3>1, NotRevertedTaken
      <3>3. QED
        BY <2>8, <3>2
    <2>9. CASE Statuses(Top(target), order)[i] = "already-applied"
      <3> DEFINE a == Applied(Top(target), order)[i - 1]
      <3>1. ApplyStatus(a, order[i].patch) = "already-applied"
        BY <2>1, <2>5, <2>9 DEF Statuses
      <3>2. Holds(a, order[i].patch)
        BY <3>1 DEF ApplyStatus
      <3>3. PICK s \in Edited(order[i].patch) : TRUE
        BY <1>1, <2>5, EntriesEdit DEF order, SyncInv
      <3>4. s \in Spots /\ s \in Edited(PatchOf[c]) /\ order[i].patch[s].post = c
        BY <2>5, <2>6, CommitParts
      <3>5. a[s] = c
        BY <3>2, <3>3, <3>4 DEF Holds
      <3>6. Top(target)[s] # c
        BY <2>3, <2>6, <3>4, UndoneIsGone
      <3>7. i - 1 \in 0 .. Len(order)
        BY <2>1, <2>5
      <3>8. PICK j \in 1 .. i - 1 : s \in Edited(order[j].patch) /\ a[s] = order[j].patch[s].post
        BY <2>1, <2>7, <3>4, <3>5, <3>6, <3>7, AppliedText
      <3>9. order[j] \in Commits
        BY <2>1, <2>5, ElementOfSeq
      <3>10. order[j].subject = c
        BY <3>5, <3>8, <3>9, CommitParts
      <3>11. order[j].pick = c
        BY <2>6, <3>9, <3>10, CommitParts, MusaSyncAssumption
      <3>12. QED
        BY <3>11
    <2>10. QED
      BY <2>5, <2>8, <2>9
  <1>2. QED
    BY <1>1, SyncInvariance, PTL
=============================================================================
