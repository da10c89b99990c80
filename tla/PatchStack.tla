----------------------------- MODULE PatchStack -----------------------------
(***************************************************************************)
(* The patches the authoring tool works with: the commits above the pin in *)
(* the clone, the entries of the series, and what git and build_apply.py   *)
(* do with them.                                                           *)
(*                                                                         *)
(* A spot is a hunk with its context, in some file.  Its content is named  *)
(* by the change that wrote it, 0 being the text vLLM started from, so a   *)
(* patch says, for each spot it edits, whose text it expects and whose     *)
(* text it leaves.  A commit is its subject, its patch, and the upstream   *)
(* change its "(cherry picked from commit ...)" line names, if it has one. *)
(***************************************************************************)
EXTENDS Integers, Sequences, FiniteSets

CONSTANTS
  Spots,                \* the places that patches edit
  FileOf                \* the file a spot lies in

NoPick == 0

Edited(patch) == DOMAIN patch
Files(commit) == {FileOf[s] : s \in Edited(commit.patch)}

Expects(tree, patch) == \A s \in Edited(patch) : tree[s] = patch[s].pre
Holds(tree, patch) == \A s \in Edited(patch) : tree[s] = patch[s].post

Patched(tree, patch) ==
  [s \in Spots |-> IF s \in Edited(patch) THEN patch[s].post ELSE tree[s]]

\* The patch that turns one tree into another.
Diff(from, to) ==
  [s \in {x \in Spots : from[x] # to[x]} |-> [pre |-> from[s], post |-> to[s]]]

----------------------------------------------------------------------------
(* git apply, as the build and the upgrade plan use it.                    *)

\* build_apply.apply_patch: the reverse is tried first.
ApplyStatus(tree, patch) ==
  IF Holds(tree, patch) THEN "already-applied"
  ELSE IF Expects(tree, patch) THEN "applied" ELSE "conflict"

\* The trees a series goes through, entry by entry; a conflict leaves its tree.
Applied(tree, entries) ==
  LET after[i \in 0 .. Len(entries)] ==
        IF i = 0 THEN tree
        ELSE IF ApplyStatus(after[i - 1], entries[i].patch) = "applied"
             THEN Patched(after[i - 1], entries[i].patch) ELSE after[i - 1]
  IN after

Statuses(tree, entries) ==
  [i \in DOMAIN entries |-> ApplyStatus(Applied(tree, entries)[i - 1], entries[i].patch)]

\* What a strict build makes of a series, if every entry applies.
BuildsTo(tree, entries, result) ==
  /\ \A i \in DOMAIN entries : Statuses(tree, entries)[i] = "applied"
  /\ Applied(tree, entries)[Len(entries)] = result

----------------------------------------------------------------------------
(* git am -3 and git cherry-pick: a three-way merge, spot by spot.         *)

Merges(tree, patch) ==
  \A s \in Edited(patch) : tree[s] \in {patch[s].pre, patch[s].post}

\* The tree once a commit is merged, its conflicts resolved in its favour.
Committed(tree, commit) ==
  [commit EXCEPT !.patch = Diff(tree, Patched(tree, commit.patch))]

\* Faulty variant: an empty commit is made.
PushEmpty(stack, commit) == Append(stack, commit)

\* A commit that changes nothing is not made ("No changes").
Push(stack, commit) == IF commit.patch = <<>> THEN stack ELSE Append(stack, commit)

HeadOf(tree, stack) ==
  LET after[i \in 0 .. Len(stack)] ==
        IF i = 0 THEN tree ELSE Patched(after[i - 1], stack[i].patch)
  IN after[Len(stack)]

\* git am of the entries one by one onto a stack, up to the first conflict: the
\* stack reached, and the entries not applied.
AmFrom(tree, stack, entries) ==
  LET after[i \in 0 .. Len(entries)] ==
        IF i = 0 THEN [stack |-> stack, stuckAt |-> 0]
        ELSE LET before == after[i - 1]
                 head == HeadOf(tree, before.stack)
             IN  IF before.stuckAt # 0 THEN before
                 ELSE IF ~Merges(head, entries[i].patch)
                 THEN [before EXCEPT !.stuckAt = i]
                 ELSE [before EXCEPT
                         !.stack = Push(@, Committed(head, entries[i]))]
      last == after[Len(entries)]
  IN  [stack |-> last.stack,
       rest |-> IF last.stuckAt = 0 THEN <<>>
                ELSE SubSeq(entries, last.stuckAt, Len(entries))]

----------------------------------------------------------------------------
(* From the stack to the series (regen) and back.                          *)

FirstPick(stack) ==
  IF \E i \in DOMAIN stack : stack[i].pick # NoPick
  THEN CHOOSE i \in DOMAIN stack :
         /\ stack[i].pick # NoPick
         /\ \A j \in 1 .. i - 1 : stack[j].pick = NoPick
  ELSE Len(stack) + 1

Above(stack) == FirstPick(stack) .. Len(stack)

\* Faulty variant: only the cherry-picks go to upstream/.
PicksOnly(stack) == {i \in Above(stack) : stack[i].pick # NoPick}

\* The positions of the commits that go to upstream/: the cherry-picks and, from the
\* first of them on, the commits that share a file with one that goes there.
UpstreamPart(stack) ==
  LET shares(i, j) == Files(stack[i]) \cap Files(stack[j]) # {}
      closed(part) ==
        \A i \in Above(stack) :
          (stack[i].pick # NoPick \/ \E j \in part : shares(i, j)) => i \in part
  IN  {i \in Above(stack) : \A part \in SUBSET Above(stack) : closed(part) => i \in part}

\* The elements of a sequence at some of its positions, in order.
At(seq, positions) ==
  [n \in 1 .. Cardinality(positions) |->
     seq[CHOOSE i \in positions : Cardinality({j \in positions : j < i}) = n - 1]]

\* The two directories regen writes for a stack, each in the order of its numbers.
Formatted(stack) ==
  LET part == UpstreamPart(stack)
  IN  [musa |-> At(stack, DOMAIN stack \ part), upstream |-> At(stack, part)]

\* The files of a numbered directory, and the order its names sort in.
NumberedFiles(entries) == {[num |-> i, entry |-> entries[i]] : i \in DOMAIN entries}

Before(f, g) ==
  \/ f.num < g.num
  \/ f.num = g.num /\ f.entry.subject < g.entry.subject

InNameOrder(files) ==
  [i \in 1 .. Cardinality(files) |->
     (CHOOSE f \in files : Cardinality({g \in files : Before(g, f)}) = i - 1).entry]

\* series_apply_order: the MUSA entries, then upstream/.
ApplyOrder(series) == InNameOrder(series.musa) \o InNameOrder(series.upstream)
=============================================================================
