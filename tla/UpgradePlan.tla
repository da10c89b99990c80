----------------------------- MODULE UpgradePlan -----------------------------
(***************************************************************************)
(* What a pin bump does with each entry of the series: keep it, drop it,   *)
(* or have it reviewed (musa_sync.py, _UpstreamHistory, _plan_verdict and  *)
(* _upgrade_plan_rows).                                                    *)
(*                                                                         *)
(* The history of vLLM's main branch is a sequence of events.  A change    *)
(* lands as its own commit, as a squash merge with the number of its pull  *)
(* request, as a cherry-pick that names it, or as a copy with nothing but  *)
(* its patch; it is reverted by a commit that says so, or silently; and    *)
(* other work rewrites a spot.  A ref is the number of events it holds.    *)
(***************************************************************************)
EXTENDS PatchStack

CONSTANTS
  Changes,              \* upstream changes: numbers that also name their text
  PatchOf               \* the patch of an upstream change

Rewritten == -1         \* text of an upstream commit that is none of the changes

\* The text of a spot on the main branch: a change's, or nobody's here.
Texts == Changes \cup {0, Rewritten}

\* A change leaves its own text on the spots it edits.
ASSUME ChangesAssumption ==
  /\ Changes \subseteq Nat \ {0}
  /\ \A c \in Changes :
       \E edited \in SUBSET Spots : PatchOf[c] \in [edited -> [pre : Texts, post : {c}]]

Titled == {"itself", "pr", "pick"}      \* landings that keep the change's title
Landings == Titled \cup {"copy"}
Reverts == {"told", "silent"}

Events ==
  [kind : Landings \cup Reverts, of : Changes] \cup [kind : {"rewrite"}, of : Spots]

Reversed(patch) ==
  [s \in Edited(patch) |-> [pre |-> patch[s].post, post |-> patch[s].pre]]

EventPatch(tree, e) ==
  CASE e.kind \in Landings -> PatchOf[e.of]
    [] e.kind \in Reverts -> Reversed(PatchOf[e.of])
    [] OTHER -> Diff(tree, [tree EXCEPT ![e.of] = Rewritten])

\* The trees of the main branch, one per ref.
TreesOf(h) ==
  LET at[i \in 0 .. Len(h)] ==
        IF i = 0 THEN [s \in Spots |-> 0]
        ELSE Patched(at[i - 1], EventPatch(at[i - 1], h[i]))
  IN at

TreeAt(h, ref) == TreesOf(h)[ref]

\* A branch that could exist: each commit changes something and applies where it
\* stands, and a commit is in the branch once.
IsHistory(h) ==
  /\ \A i \in DOMAIN h :
       LET patch == EventPatch(TreeAt(h, i - 1), h[i])
       IN  patch # <<>> /\ Expects(TreeAt(h, i - 1), patch)
  /\ \A i, j \in DOMAIN h :
       h[i] = h[j] /\ h[i].kind = "itself" => i = j

\* The last of a set of positions, 0 if there is none.
Latest(positions) ==
  IF positions = {} THEN 0
  ELSE CHOOSE i \in positions : \A j \in positions : j <= i

----------------------------------------------------------------------------
(* Questions to the history, asked in a repository that holds the commits  *)
(* after "cut" (0: a full clone) and, of the changes' own commits, "has".  *)

Landed(q, kinds, c) ==
  {i \in q.cut + 1 .. q.target : q.h[i].kind \in kinds /\ q.h[i].of = c}

\* The commit that brought the change: itself, else a cherry-pick of it, else the
\* merge of its pull request, else the same patch between the pin and the target.
FoundAs(q, c) ==
  LET itself == Latest(Landed(q, {"itself"}, c))
      pick == Latest(Landed(q, {"pick"}, c))
      merged == Latest(Landed(q, Titled, c))
      same == Latest({i \in Landed(q, Landings, c) : i > q.pin})
  IN  IF itself # 0 THEN itself
      ELSE IF pick # 0 THEN pick
      ELSE IF merged # 0 THEN merged ELSE same

\* A later commit says it reverts the found one, by its sha or its title, and none
\* after the last of those lands the title again.
IsReverted(q, found) ==
  LET c == q.h[found].of
      titled == q.h[found].kind \in Titled
      undoes(j) ==
        /\ q.h[j].kind = "told" /\ q.h[j].of = c
        /\ LET undone == Latest({i \in 1 .. j - 1 : q.h[i].kind \in Landings /\ q.h[i].of = c})
           IN  undone = found \/ (titled /\ q.h[undone].kind \in Titled)
      revert == Latest({j \in found + 1 .. q.target : undoes(j)})
  IN  /\ revert # 0
      /\ ~(titled /\ \E i \in Landed(q, Titled, c) : i > revert)

StateOf(q, found) ==
  CASE found # 0 -> IF IsReverted(q, found) THEN "reverted" ELSE "in"
    [] found = 0 /\ q.cut > 0 -> "unknown"
    [] OTHER -> "out"

\* An upstream entry names a commit and its pull request; "in" wins, then the first
\* answer that is not "out".
RefsState(q, c) ==
  LET commit == IF c \in q.has THEN StateOf(q, FoundAs(q, c)) ELSE "unknown"
      pull == StateOf(q, Latest(Landed(q, Titled, c)))
  IN  IF "in" \in {commit, pull} THEN "in"
      ELSE IF commit # "out" THEN commit ELSE pull

\* Whether an entry changes what its commit changes, if that commit is at hand.
Verbatim(q, entry) ==
  IF entry.pick \notin q.has THEN "unknown"
  ELSE IF entry.patch = PatchOf[entry.pick] THEN "yes" ELSE "no"

----------------------------------------------------------------------------
\* Faulty variant: what the history says is enough.
VerdictByHistory(isUpstream, state, content, verbatim) ==
  IF isUpstream /\ state = "in" /\ verbatim = "yes" THEN "drop" ELSE "keep"

\* _plan_verdict.
Verdict(isUpstream, state, content, verbatim) ==
  CASE ~isUpstream -> IF content = "already-applied" THEN "review" ELSE "keep"
    [] isUpstream /\ state = "in" /\ content = "applied" -> "review"
    [] isUpstream /\ content = "already-applied" -> "drop"
    [] isUpstream /\ state = "in" /\ content = "conflict" ->
         IF verbatim = "yes" THEN "drop" ELSE "review"
    [] isUpstream /\ state = "reverted" /\ content # "already-applied" -> "review"
    [] OTHER -> IF state = "unknown" /\ content # "applied" THEN "review" ELSE "keep"

\* _upgrade_plan_rows: the verdict on each entry, the content settled by applying
\* the series in order to the target; a MUSA fix in upstream/ is reviewed when an
\* upstream commit before it is not kept.
PlanRows(q, musa, upstream) ==
  LET entries == musa \o upstream
      content == Statuses(TreeAt(q.h, q.target), entries)
      own(i) ==
        IF i <= Len(musa) THEN Verdict(FALSE, "out", content[i], "unknown")
        ELSE Verdict(TRUE, RefsState(q, entries[i].pick), content[i],
                     Verbatim(q, entries[i]))
      moved(i) ==
        \E j \in Len(musa) + 1 .. i - 1 : entries[j].pick # NoPick /\ own(j) # "keep"
  IN  [i \in DOMAIN entries |->
         IF i > Len(musa) /\ entries[i].pick = NoPick
         THEN IF moved(i) THEN "review" ELSE "keep"
         ELSE own(i)]
=============================================================================
