------------------------------ MODULE PagePlan ------------------------------
(***************************************************************************)
(* Which pages of a protocol's confirmed history one pass of the backfill  *)
(* fetches and which checkpoint it then proposes: the while loops of       *)
(* backfillProtocol (apps/indexer/src/daemon/daemon.ts) in closed form.    *)
(*                                                                         *)
(* Chronik lists a history newest first in pages of PageSize; page zero is *)
(* always fetched first and tells the length of the history.  A checkpoint *)
(* says that the newest `cursor' of the `history' transactions it saw were *)
(* indexed; after `new' more have arrived, these are the transactions      *)
(* new + 1 .. new + cursor of the list.                                    *)
(***************************************************************************)
EXTENDS Integers, Sequences

CONSTANTS
  PageSize,      \* BACKFILL_PAGE_SIZE
  MaxPages,      \* BACKFILL_MAX_PAGES_PER_RUN
  OverlapPages,  \* BACKFILL_OVERLAP_PAGES
  NoCheckpoint

ASSUME PlanAssumption ==
  /\ PageSize \in Nat \ {0}
  /\ MaxPages \in Nat \ {0}
  /\ OverlapPages \in Nat

Least(a, b) == IF a <= b THEN a ELSE b
Greatest(a, b) == IF a >= b THEN a ELSE b

PageCount(n) == (n + PageSize - 1) \div PageSize

(* The transactions on the pages 0 .. page - 1. *)
EndOf(page, total) == Least(total, page * PageSize)

(* The pages lo .. hi - 1, in the order they are fetched. *)
Span(lo, hi) == [i \in 1 .. (hi - lo) |-> lo + i - 1]

(* `more' are the pages fetched after page zero. *)
Result(more, cursor, complete) ==
  [more |-> more, cursor |-> cursor, complete |-> complete]

(* No usable checkpoint: as many pages as the run may fetch, from the top. *)
Restart(total) ==
  LET end == Least(PageCount(total), MaxPages)
  IN  Result(Span(1, end), EndOf(end, total), EndOf(end, total) >= total)

NewTxs(cp, total) == total - cp.history
NewPages(cp, total) == PageCount(NewTxs(cp, total))

(* The first page that the scan for new transactions does not reach. *)
ScanEnd(cp, total) == Greatest(1, Least(NewPages(cp, total), MaxPages))

(* Mutant: the old cursor is shifted past pages that were not scanned. *)
ScanOnlyKeepsCursor(cp, total) ==
  Result(Span(1, ScanEnd(cp, total)), Least(total, cp.cursor + NewTxs(cp, total)), FALSE)

(* New transactions fill more pages than the run may fetch: the rest, and  *)
(* the old cursor with it, is left to the next run.                        *)
ScanOnly(cp, total) ==
  Result(Span(1, ScanEnd(cp, total)), EndOf(ScanEnd(cp, total), total), FALSE)

(* Mutant: the cursor of a complete history is set back to the overlap. *)
ExtendSetBack(cp, total) ==
  LET end == Least(PageCount(total), MaxPages)
  IN  Result(Span(1, end), EndOf(end, total), EndOf(end, total) >= total)

(* A complete history is extended by the new pages and a few old ones.     *)
Extend(cp, total) ==
  LET overlapEnd == Least(PageCount(total),
                          Greatest(1, NewPages(cp, total)) + OverlapPages)
      end == Greatest(ScanEnd(cp, total), Least(overlapEnd, MaxPages))
  IN  Result(Span(1, end), total, TRUE)

(* Mutant: the probe of page zero uses up the budget. *)
AllowedWithProbe(cp, total, first) == MaxPages

(* Page zero is free when it only probed. *)
Allowed(cp, total, first) ==
  MaxPages + IF NewTxs(cp, total) = 0 /\ first > 0 THEN 1 ELSE 0

(* An incomplete one goes on at the cursor, shifted by the new ones; pages *)
(* that the scan has fetched are not fetched again.                        *)
Resume(cp, total) ==
  LET shifted == Least(total, cp.cursor + NewTxs(cp, total))
      first   == shifted \div PageSize
      scanned == ScanEnd(cp, total)
      from    == Greatest(first, scanned)
      end     == Least(PageCount(total), from + Allowed(cp, total, first) - scanned)
      cursor  == IF first < end THEN Greatest(shifted, EndOf(end, total)) ELSE shifted
  IN  Result(Span(1, scanned) \o Span(from, end), cursor, cursor >= total)

(* Mutant: a history that did not grow is taken for one that shrank. *)
UsableIfGrown(cp, total) == cp # NoCheckpoint /\ total > cp.history

Usable(cp, total) == cp # NoCheckpoint /\ total >= cp.history

Plan(cp, total) ==
  IF PageCount(total) <= 1 THEN Result(<<>>, total, TRUE)
  ELSE IF ~Usable(cp, total) THEN Restart(total)
  ELSE IF ScanEnd(cp, total) < NewPages(cp, total) THEN ScanOnly(cp, total)
  ELSE IF cp.complete THEN Extend(cp, total)
  ELSE Resume(cp, total)

-----------------------------------------------------------------------------
Pages(plan) == {0} \cup {plan.more[i] : i \in DOMAIN plan.more}

(***************************************************************************)
(* What a checkpoint may claim: the newest `cursor' transactions are each  *)
(* on a page this pass fetched or among those the checkpoint before it     *)
(* already covered.                                                        *)
(***************************************************************************)
Covers(cp, total) ==
  LET plan == Plan(cp, total)
  IN  \A i \in 1 .. plan.cursor :
        \/ (i - 1) \div PageSize \in Pages(plan)
        \/ /\ Usable(cp, total)
           /\ NewTxs(cp, total) < i
           /\ i <= NewTxs(cp, total) + cp.cursor

(***************************************************************************)
(* A pass fetches each page once and at most one page over its budget.     *)
(***************************************************************************)
WithinBudget(cp, total) ==
  LET more == Plan(cp, total).more
  IN  /\ Len(more) <= MaxPages
      /\ \A i, j \in DOMAIN more : i < j => more[i] < more[j]
      /\ \A i \in DOMAIN more : more[i] \in 1 .. (PageCount(total) - 1)

(***************************************************************************)
(* While nothing new arrives, every pass over an incomplete history gets   *)
(* MaxPages pages further or to the end, whatever the settings.            *)
(***************************************************************************)
Progresses(cp, total) ==
  LET plan == Plan(cp, total)
  IN  cp # NoCheckpoint /\ total = cp.history /\ ~cp.complete =>
        \/ plan.complete
        \/ plan.cursor \div PageSize >= cp.cursor \div PageSize + MaxPages
=============================================================================
