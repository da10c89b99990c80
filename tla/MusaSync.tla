------------------------------ MODULE MusaSync ------------------------------
(***************************************************************************)
(* musa_sync.py: the authoring loop of the patch series.  The clone holds  *)
(* the series as commits above a base; the user commits there, backports   *)
(* upstream commits, and regen writes the commits back as numbered files;  *)
(* rebase rebuilds the clone from the files on a new base, without what    *)
(* upstream has by then.  Either may stop half way: rebase at a conflict,  *)
(* regen between two files.                                                *)
(***************************************************************************)
EXTENDS UpgradePlan

CONSTANTS
  MusaEdits,            \* bound: the sets of spots a MUSA commit edits
  MusaSubjects,         \* the subjects of MUSA commits, also naming their text
  Histories,            \* bound: the upstream branches considered
  MaxStack,             \* bound: commits in the clone above the base
  MaxKilled             \* bound: runs of regen killed before one is let through

ASSUME MusaSyncAssumption ==
  /\ \A h \in Histories : h \in Seq(Events) /\ IsHistory(h)
  /\ {MaxStack, MaxKilled} \subseteq Nat
  /\ MusaSubjects \cap Changes = {} /\ MusaSubjects \subseteq Nat \ {0}
  /\ MusaEdits \subseteq (SUBSET Spots) \ {{}}

VARIABLES
  history,              \* upstream's main branch
  pin,                  \* the ref third_party/PINS names
  base,                 \* refs/musa-sync/base of the clone
  stack,                \* the commits above it
  busy,                 \* "none", or the git operation a conflict left unfinished
  rest,                 \* the entries it has not committed, the conflict's first
  series,               \* the files of series/ and of series/upstream/
  killed                \* runs of regen killed since it last came to its end

vars == <<history, pin, base, stack, busy, rest, series, killed>>

Refs == 0 .. Len(history)
BaseTree == TreeAt(history, base)
ClonedTree == HeadOf(BaseTree, stack)
Upstream == InNameOrder(series.upstream)

Init ==
  /\ history \in Histories
  /\ pin = 0
  /\ base = 0
  /\ stack = <<>>
  /\ busy = "none"
  /\ rest = <<>>
  /\ series = [musa |-> {}, upstream |-> {}]
  /\ killed = 0

----------------------------------------------------------------------------
(* What the user does in the clone and in third_party/PINS.                *)

Used(m) ==
  \/ \E i \in DOMAIN stack : stack[i].subject = m
  \/ \E f \in series.musa \cup series.upstream : f.entry.subject = m

\* A MUSA change, committed at the end of the stack.
CommitMusa(m, spots) ==
  /\ busy = "none"
  /\ Len(stack) < MaxStack
  /\ ~Used(m) /\ \A n \in MusaSubjects : n < m => Used(n)
  /\ stack' = Append(stack, [subject |-> m, pick |-> NoPick,
                             patch |-> [s \in spots |-> [pre |-> ClonedTree[s], post |-> m]]])
  /\ UNCHANGED <<history, pin, base, busy, rest, series, killed>>

SetPins(ref) ==
  /\ ref # pin
  /\ pin' = ref
  /\ UNCHANGED <<history, base, stack, busy, rest, series, killed>>

\* The user settles the conflict in the commit's favour and carries on: git am
\* --continue and git am of the entries after it, or git cherry-pick --continue.
Resolve ==
  /\ busy # "none"
  /\ LET resolved == Push(stack, Committed(ClonedTree, rest[1]))
         done == AmFrom(BaseTree, resolved, Tail(rest))
     IN  /\ Len(done.stack) <= MaxStack
         /\ stack' = done.stack
         /\ rest' = done.rest
         /\ busy' = IF done.rest = <<>> THEN "none" ELSE "am"
  /\ UNCHANGED <<history, pin, base, series, killed>>

\* git am --abort, git cherry-pick --abort.
Abort ==
  /\ busy # "none"
  /\ busy' = "none"
  /\ rest' = <<>>
  /\ UNCHANGED <<history, pin, base, stack, series, killed>>

----------------------------------------------------------------------------
(* regen.                                                                  *)

\* Faulty variant: the clone's base is not looked at.
BaseIsAncestor == pin <= base

\* _base_problem finds none: the series sits on the commit PINS names.
BaseAgrees == base = pin

\* git log pin..HEAD: an upstream commit between the two counts as one of ours.
CommitsAbovePin ==
  [i \in 1 .. base - pin |->
     [subject |-> -(pin + i), pick |-> NoPick,
      patch |-> EventPatch(TreeAt(history, pin + i - 1), history[pin + i])]] \o stack

SameName(f, g) == f.num = g.num /\ f.entry.subject = g.entry.subject

Stale(files, entries) == {f \in files : \A g \in NumberedFiles(entries) : ~SameName(f, g)}

\* A directory after the first copies, and with some stale files unlinked: a fresh
\* file replaces the one of its name, number and subject.
Written(files, entries, copies, unlinked) ==
  LET copied == {f \in NumberedFiles(entries) : f.num <= copies}
  IN  {f \in files \ unlinked : \A g \in copied : ~SameName(f, g)} \cup copied

\* Faulty variant: the files left over are not unlinked.
RegeneratedOver(fresh) ==
  [d \in DOMAIN fresh |-> Written(series[d], fresh[d], Len(fresh[d]), {})]

\* Both directories once regen is through.
Regenerated(fresh) ==
  [d \in DOMAIN fresh |->
     Written(series[d], fresh[d], Len(fresh[d]), Stale(series[d], fresh[d]))]

MayRegen(fresh) == BaseAgrees /\ fresh.musa \o fresh.upstream # <<>>

Regen ==
  LET fresh == Formatted(CommitsAbovePin)
  IN  /\ MayRegen(fresh)
      /\ series' = Regenerated(fresh)
      /\ killed' = 0
      /\ UNCHANGED <<history, pin, base, stack, busy, rest>>

\* regen copies upstream/ first, then the MUSA entries, and then unlinks; a run that
\* is killed stops after a copy or an unlink.
RegenKilled(fresh, upstreamCopies, musaCopies, unlinked) ==
  LET copied == upstreamCopies = Len(fresh.upstream) /\ musaCopies = Len(fresh.musa)
      stale(d) == Stale(series[d], fresh[d])
  IN  /\ MayRegen(fresh)
      /\ killed < MaxKilled
      /\ killed' = killed + 1
      /\ musaCopies > 0 => upstreamCopies = Len(fresh.upstream)
      /\ unlinked \subseteq stale("musa") \cup stale("upstream")
      /\ unlinked # {} => copied
      /\ unlinked \cap stale("musa") # {} => stale("upstream") \subseteq unlinked
      /\ series' =
           [musa |-> Written(series.musa, fresh.musa, musaCopies, unlinked),
            upstream |-> Written(series.upstream, fresh.upstream, upstreamCopies, unlinked)]
      /\ UNCHANGED <<history, pin, base, stack, busy, rest>>

RegenStops ==
  LET fresh == Formatted(CommitsAbovePin)
  IN  \E upstreamCopies \in 0 .. Len(fresh.upstream), musaCopies \in 0 .. Len(fresh.musa),
         unlinked \in SUBSET (series.musa \cup series.upstream) :
        RegenKilled(fresh, upstreamCopies, musaCopies, unlinked)

----------------------------------------------------------------------------
(* rebase.                                                                 *)

\* The repository the plan asks: a full clone of vLLM, or the clone itself, which
\* holds the target alone and the commits backported into it.
FullHistory(target) ==
  [h |-> history, pin |-> pin, target |-> target, cut |-> 0,
   has |-> {history[i].of : i \in {j \in Refs \ {0} : history[j].kind = "itself"}}]

CloneHistory(target) ==
  [h |-> history, pin |-> pin, target |-> target,
   cut |-> IF target = 0 THEN 0 ELSE target - 1, has |-> Changes]

Plan(q) == PlanRows(q, InNameOrder(series.musa), Upstream)

\* The places in the series of the entries it drops.
Dropped(q) == {i \in DOMAIN Plan(q) : Plan(q)[i] = "drop"}

\* cmd_rebase: the clone moves to the target, whatever it held, and takes every
\* entry that is not dropped.  An unfinished git am survives the checkout, and then
\* the first git am stops at once.
Rebase(target, drop) ==
  LET entries == At(ApplyOrder(series), DOMAIN ApplyOrder(series) \ drop)
      done == AmFrom(TreeAt(history, target), <<>>, entries)
  IN  /\ Len(done.stack) <= MaxStack
      /\ base' = target
      /\ IF busy = "am" /\ entries # <<>>
         THEN stack' = <<>> /\ UNCHANGED <<busy, rest>>
         ELSE /\ stack' = done.stack
              /\ rest' = IF busy = "am" THEN rest ELSE done.rest
              /\ busy' = IF busy = "am" \/ done.rest # <<>> THEN "am" ELSE "none"
      /\ UNCHANGED <<history, pin, series, killed>>

RebaseAll(target) == Rebase(target, {})

RebaseWithoutUpstreamed(target) ==
  \E q \in {FullHistory(target), CloneHistory(target)} : Rebase(target, Dropped(q))

----------------------------------------------------------------------------
(* backport.                                                               *)

\* Faulty variant: the stack is left in the order it has.
NotRestacked == [stack |-> stack, rest |-> <<>>]

\* _restack: MUSA commits above an upstream one move below it, so that the new
\* commit lands after every entry.
Restacked ==
  IF Above(stack) = UpstreamPart(stack) THEN [stack |-> stack, rest |-> <<>>]
  ELSE AmFrom(BaseTree, <<>>, ApplyOrder(series))

\* _stack_problem finds none: regen would write the files that are there.
HoldsTheSeries ==
  LET fresh == Formatted(stack)
  IN  \A d \in DOMAIN series : series[d] = NumberedFiles(fresh[d])

\* cherry-pick -x of a change: refused unless the clone holds exactly the series on
\* the pin and no entry carries the change; a pick that changes nothing is undone.
\* regen follows, unless --no-regen.
Backport(c, regen) ==
  LET before == Restacked.stack
      head == HeadOf(BaseTree, before)
      commit == [subject |-> c, pick |-> c, patch |-> PatchOf[c]]
      picked == Push(before, Committed(head, commit))
  IN  /\ busy = "none"
      /\ BaseAgrees
      /\ HoldsTheSeries
      /\ \A f \in series.upstream : f.entry.pick # c
      /\ Restacked.rest = <<>>
      /\ Len(stack) < MaxStack
      /\ IF Merges(head, PatchOf[c])
         THEN /\ stack' = picked
              /\ series' = IF regen /\ picked # before
                           THEN Regenerated(Formatted(picked)) ELSE series
              /\ UNCHANGED <<busy, rest>>
         ELSE /\ stack' = before
              /\ busy' = "cherry-pick"
              /\ rest' = <<commit>>
              /\ UNCHANGED series
      /\ UNCHANGED <<history, pin, base, killed>>

----------------------------------------------------------------------------
Next ==
  \/ \E m \in MusaSubjects, spots \in MusaEdits : CommitMusa(m, spots)
  \/ \E ref \in Refs : SetPins(ref)
  \/ Resolve
  \/ Abort
  \/ Regen
  \/ RegenStops
  \/ \E target \in Refs : RebaseAll(target)
  \/ \E target \in Refs : RebaseWithoutUpstreamed(target)
  \/ \E c \in Changes, regen \in BOOLEAN : Backport(c, regen)

Spec == Init /\ [][Next]_vars

----------------------------------------------------------------------------
Entries == {f.entry : f \in series.musa \cup series.upstream}

\* The clone and the series hold commits that change something, the entries on disk
\* are numbered from 1, and work is left over only by an unfinished operation.
TypeOK ==
  /\ history \in Histories
  /\ {pin, base} \subseteq Refs
  /\ Len(stack) <= MaxStack
  /\ \A c \in Entries \cup {stack[i] : i \in DOMAIN stack} :
       c.patch # <<>> /\ c.pick \in Changes \cup {NoPick}
  /\ \A f \in series.musa \cup series.upstream : f.num \in 1 .. MaxStack
  /\ busy \in {"none", "am", "cherry-pick"}
  /\ (busy = "none") = (rest = <<>>)

\* Whatever a killed run left on disk, a complete regen writes a series that the
\* build applies to the pin, entry after entry, and that yields the clone's tree,
\* although MUSA commits made above a cherry-pick now come before it.
RegenBuildsTheClone ==
  [][Regen => BuildsTo(TreeAt(history, pin), ApplyOrder(series'), ClonedTree)]_vars

\* regen's output is a fixed point (check-series --round-trip): the series it would
\* write, replayed on the base, is a stack that it would write the same way.
RoundTrip ==
  LET fresh == Formatted(stack)
      replayed == AmFrom(BaseTree, <<>>, fresh.musa \o fresh.upstream)
  IN  replayed.rest = <<>> /\ Formatted(replayed.stack) = fresh

\* No entry of the series is a commit vLLM's own branch made between two pins, even
\* when PINS and the clone's base are moved one without the other.
OnlyOurEntries == \A e \in Entries : e.subject \in MusaSubjects \cup Changes

\* A backport that regenerates the series adds one entry, the last of upstream/, and
\* leaves every other file as it is, wherever MUSA commits stood in the clone.
BackportAppends ==
  [][\A c \in Changes :
       Backport(c, TRUE) /\ series' # series =>
         /\ series'.musa = series.musa
         /\ \E f \in series'.upstream :
              /\ series'.upstream = series.upstream \cup {f}
              /\ f.entry.pick = c
              /\ f.num = Cardinality(series.upstream) + 1]_vars

\* The last the branch did with a change was to revert it.
Undone(h, target, c) ==
  LET last == Latest({i \in 1 .. target : h[i].kind \in Landings \cup Reverts /\ h[i].of = c})
  IN  last # 0 /\ h[last].kind \in Reverts

\* The text of a change was once taken away without a word.
TakenSilently(h, target, c) ==
  \E i \in 1 .. target, s \in Edited(PatchOf[c]) :
    /\ TreeAt(h, i - 1)[s] = c /\ TreeAt(h, i)[s] # c
    /\ h[i] # [kind |-> "told", of |-> c]

\* rebase --drop-upstreamed never loses a backport, not even from the mixed files of a
\* killed regen: an upstream entry it would drop is a change the target branch did not
\* undo last, unless that change was once taken away without a word and the entry does
\* not apply in its place, or an earlier entry carries the same change.
DropsOnlyTheUpstreamed ==
  \A target \in Refs : \A q \in {FullHistory(target), CloneHistory(target)} :
    \A i \in Dropped(q) :
      LET order == ApplyOrder(series)
          c == order[i].pick
      IN  Undone(history, target, c) =>
            \/ /\ TakenSilently(history, target, c)
               /\ Statuses(TreeAt(history, target), order)[i] = "conflict"
            \/ \E j \in 1 .. i - 1 : order[j].pick = c
=============================================================================
