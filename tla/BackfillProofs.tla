--------------------------- MODULE BackfillProofs ---------------------------
(***************************************************************************)
(* Confirmed reconciliation, for every chain whose tip never returns to a  *)
(* block it left, every set of histories and every setting of the run:     *)
(* what one pass may claim (PagePlan), what the checkpoints may claim and  *)
(* which rows may be stale after any number of passes, crashes, failures   *)
(* and moves of the tip, and that the loops of a pass fetch its plan.      *)
(***************************************************************************)
EXTENDS Backfill, PagePlanLoops, FiniteSetTheorems, SequenceTheorems,
        WellFoundedInduction, TLAPS

-----------------------------------------------------------------------------
(* Pages and their numbers.                                                *)

LEMMA Settings ==
  /\ PageSize \in Nat /\ PageSize >= 1
  /\ MaxPages \in Nat /\ MaxPages >= 1
  /\ OverlapPages \in Nat
BY PlanAssumption

LEMMA Quotient ==
  ASSUME NEW n \in Nat
  PROVE  /\ n \div PageSize \in Nat
         /\ (n \div PageSize) * PageSize <= n
         /\ n < (n \div PageSize + 1) * PageSize
BY Settings

LEMMA Times ==
  ASSUME NEW j \in Int, NEW k \in Int
  PROVE  /\ j * PageSize \in Int
         /\ j <= k => j * PageSize <= k * PageSize
         /\ j < k => j * PageSize + PageSize <= k * PageSize
         /\ j * PageSize < k * PageSize => j < k
BY Settings

(* A page is one of n transactions' if it begins before the last of them.  *)
LEMMA PageCounts ==
  ASSUME NEW n \in Nat
  PROVE  /\ PageCount(n) \in Nat
         /\ n <= PageCount(n) * PageSize
         /\ \A k \in Int : k < PageCount(n) <=> k * PageSize < n \/ k < 0
<1> DEFINE m == n + PageSize - 1
           c == m \div PageSize
<1>1. m \in Nat
  BY Settings
<1>2. c \in Nat /\ c * PageSize <= m /\ m < (c + 1) * PageSize
  BY <1>1, Quotient
<1>3. (c + 1) * PageSize = c * PageSize + PageSize
  BY <1>2, Settings
<1>4. n <= c * PageSize
  BY <1>2, <1>3, Settings, Times
<1>5. ASSUME NEW k \in Int
      PROVE  k < c <=> k * PageSize < n \/ k < 0
  <2>1. k < c => k * PageSize + PageSize <= c * PageSize
    BY <1>2, Times
  <2>2. k >= c => c * PageSize <= k * PageSize
    BY <1>2, Times
  <2>3. k * PageSize \in Int /\ c * PageSize \in Int
    BY <1>2, Times
  <2> HIDE DEF c
  <2> QED
    BY <1>2, <1>4, <2>1, <2>2, <2>3, Settings
<1> QED
  BY <1>2, <1>4, <1>5 DEF PageCount

(* The page the i-th transaction of a list is on.                          *)
LEMMA PageOfNth ==
  ASSUME NEW i \in Nat \ {0}
  PROVE  /\ (i - 1) \div PageSize \in Nat
         /\ \A k \in Int : (i - 1) \div PageSize < k <=> i <= k * PageSize
<1> DEFINE p == (i - 1) \div PageSize
<1>1. p \in Nat /\ p * PageSize <= i - 1 /\ i - 1 < (p + 1) * PageSize
  BY Quotient
<1>2. ASSUME NEW k \in Int
      PROVE  p < k <=> i <= k * PageSize
  <2>1. p < k => (p + 1) * PageSize <= k * PageSize
    BY <1>1, Times
  <2>2. p >= k => k * PageSize <= p * PageSize
    BY <1>1, Times
  <2>3. k * PageSize \in Int /\ p * PageSize \in Int /\ (p + 1) * PageSize \in Int
    BY <1>1, Times
  <2> HIDE DEF p
  <2> QED
    BY <1>1, <2>1, <2>2, <2>3
<1> QED
  BY <1>1, <1>2

LEMMA EndOfIs ==
  ASSUME NEW page \in Nat, NEW total \in Nat
  PROVE  /\ EndOf(page, total) \in Nat
         /\ EndOf(page, total) <= total
         /\ EndOf(page, total) <= page * PageSize
         /\ EndOf(page, total) = total \/ EndOf(page, total) = page * PageSize
         /\ page * PageSize \in Nat
<1>1. page * PageSize \in Nat
  BY Settings
<1> QED
  BY <1>1 DEF EndOf, Least

-----------------------------------------------------------------------------
(* The pages of a plan.                                                    *)

LEMMA SpanIs ==
  ASSUME NEW lo \in Nat, NEW hi \in Nat
  PROVE  /\ Span(lo, hi) \in Seq(Nat)
         /\ Len(Span(lo, hi)) = IF lo < hi THEN hi - lo ELSE 0
         /\ \A i \in 1 .. Len(Span(lo, hi)) : Span(lo, hi)[i] = lo + i - 1
<1> DEFINE n == IF lo < hi THEN hi - lo ELSE 0
<1>1. n \in Nat /\ 1 .. hi - lo = 1 .. n
  OBVIOUS
<1>2. Span(lo, hi) = [i \in 1 .. n |-> lo + i - 1]
  BY <1>1 DEF Span
<1>3. Span(lo, hi) \in Seq(Nat) /\ Len(Span(lo, hi)) = n
  <2> HIDE DEF n
  <2> QED
    BY <1>1, <1>2
<1> QED
  BY <1>1, <1>2, <1>3

LEMMA SpanFromOne ==
  ASSUME NEW end \in Nat, end >= 1
  PROVE  /\ Span(1, end) \in Seq(Nat)
         /\ Len(Span(1, end)) = end - 1
         /\ DOMAIN Span(1, end) = 1 .. end - 1
         /\ \A i \in 1 .. end - 1 : Span(1, end)[i] = i
<1> DEFINE s == Span(1, end)
<1>1. /\ s \in Seq(Nat) /\ Len(s) = (IF 1 < end THEN end - 1 ELSE 0)
      /\ \A i \in 1 .. Len(s) : s[i] = 1 + i - 1
  BY SpanIs
<1>2. Len(s) = end - 1 /\ DOMAIN s = 1 .. Len(s)
  BY <1>1, LenProperties
<1> HIDE DEF s
<1>3. \A i \in 1 .. end - 1 : s[i] = i
  BY <1>1, <1>2
<1> QED
  BY <1>1, <1>2, <1>3 DEF s

(* The scan for new transactions, then older pages further on.             *)
LEMMA TwoSpans ==
  ASSUME NEW scanned \in Nat, NEW from \in Nat, NEW end \in Nat,
         scanned >= 1, scanned <= from
  PROVE  LET more == Span(1, scanned) \o Span(from, end)
         IN  /\ more \in Seq(Nat)
             /\ Len(more) = scanned - 1 + IF from < end THEN end - from ELSE 0
             /\ \A i \in 1 .. Len(more) :
                  more[i] = IF i < scanned THEN i ELSE from + i - scanned
<1> DEFINE more == Span(1, scanned) \o Span(from, end)
<1> DEFINE a == Span(1, scanned)
           b == Span(from, end)
<1>1. /\ a \in Seq(Nat) /\ Len(a) = scanned - 1
      /\ \A i \in 1 .. scanned - 1 : a[i] = i
  BY SpanFromOne
<1>2. /\ b \in Seq(Nat)
      /\ Len(b) = (IF from < end THEN end - from ELSE 0)
      /\ \A i \in 1 .. Len(b) : b[i] = from + i - 1
  BY SpanIs
<1> HIDE DEF a, b
<1>3. more = a \o b
  BY DEF a, b
<1>4. /\ more \in Seq(Nat)
      /\ Len(more) = Len(a) + Len(b)
      /\ \A i \in 1 .. Len(a) + Len(b) :
           more[i] = IF i <= Len(a) THEN a[i] ELSE b[i - Len(a)]
  BY <1>1, <1>2, <1>3, ConcatProperties
<1>5. ASSUME NEW i \in 1 .. Len(more)
      PROVE  more[i] = IF i < scanned THEN i ELSE from + i - scanned
  <2> i \in 1 .. Len(a) + Len(b) /\ Len(a) \in Nat /\ Len(b) \in Nat
    BY <1>1, <1>2, <1>4
  <2>1. CASE i < scanned
    <3>1. i <= Len(a) /\ i \in 1 .. scanned - 1
      BY <1>1, <2>1
    <3> QED
      BY <1>1, <1>4, <2>1, <3>1
  <2>2. CASE i >= scanned
    <3>1. i - (scanned - 1) \in 1 .. Len(b) /\ ~(i <= Len(a))
      BY <1>1, <1>2, <1>4, <2>2
    <3> QED
      BY <1>1, <1>2, <1>4, <2>2, <3>1
  <2> QED
    BY <2>1, <2>2
<1> QED
  BY <1>1, <1>2, <1>4, <1>5

LEMMA PagesOfSpan ==
  ASSUME NEW end \in Nat, end >= 1, NEW plan, plan.more = Span(1, end)
  PROVE  \A p \in Nat : p \in Pages(plan) <=> p < end
<1>1. /\ DOMAIN plan.more = 1 .. end - 1
      /\ \A i \in 1 .. end - 1 : plan.more[i] = i
  BY SpanFromOne
<1> QED
  BY <1>1 DEF Pages

LEMMA PagesOfTwoSpans ==
  ASSUME NEW scanned \in Nat, NEW from \in Nat, NEW end \in Nat,
         scanned >= 1, scanned <= from,
         NEW plan, plan.more = Span(1, scanned) \o Span(from, end)
  PROVE  \A p \in Nat : p < scanned \/ (from <= p /\ p < end) => p \in Pages(plan)
<1> DEFINE more == Span(1, scanned) \o Span(from, end)
<1>1. /\ more \in Seq(Nat)
      /\ Len(more) = scanned - 1 + IF from < end THEN end - from ELSE 0
      /\ \A i \in 1 .. Len(more) :
           more[i] = IF i < scanned THEN i ELSE from + i - scanned
  BY TwoSpans
<1>2. plan.more = more
  OBVIOUS
<1>3. DOMAIN more = 1 .. Len(more)
  BY <1>1, LenProperties
<1> HIDE DEF more
<1>4. Pages(plan) = {0} \cup {more[i] : i \in 1 .. Len(more)}
  BY <1>3, <1>2 DEF Pages
<1> SUFFICES ASSUME NEW p \in Nat, p < scanned \/ (from <= p /\ p < end)
             PROVE  p \in Pages(plan)
  OBVIOUS
<1>5. CASE p = 0
  BY <1>4, <1>5
<1>6. CASE p # 0 /\ p < scanned
  <2>1. p \in 1 .. Len(more) /\ more[p] = p
    BY <1>1, <1>6
  <2> QED
    BY <1>4, <2>1
<1>7. CASE from <= p /\ p < end
  <2>1. p - from + scanned \in 1 .. Len(more) /\ more[p - from + scanned] = p
    BY <1>1, <1>7
  <2> QED
    BY <1>4, <2>1
<1> QED
  BY <1>5, <1>6, <1>7

-----------------------------------------------------------------------------
(* The plan, case by case.                                                 *)

(* Every checkpoint a pass can leave.                                      *)
Counts(cp) ==
  /\ cp.cursor \in Nat /\ cp.history \in Nat /\ cp.complete \in BOOLEAN
  /\ cp.cursor <= cp.history
  /\ cp.complete <=> (cp.cursor = cp.history)

LEMMA ScanEndIs ==
  ASSUME NEW cp, NEW total \in Nat, Usable(cp, total), Counts(cp)
  PROVE  /\ NewTxs(cp, total) \in Nat /\ NewTxs(cp, total) <= total
         /\ NewTxs(cp, total) + cp.history = total
         /\ NewPages(cp, total) \in Nat
         /\ NewPages(cp, total) <= PageCount(total)
         /\ ScanEnd(cp, total) \in Nat
         /\ ScanEnd(cp, total) >= 1
         /\ ScanEnd(cp, total) <= MaxPages
         /\ ScanEnd(cp, total) = 1 \/ ScanEnd(cp, total) <= NewPages(cp, total)
         /\ ScanEnd(cp, total) < NewPages(cp, total) <=> MaxPages < NewPages(cp, total)
<1>1. /\ NewTxs(cp, total) \in Nat /\ NewTxs(cp, total) <= total
      /\ NewTxs(cp, total) + cp.history = total
  BY DEF Usable, Counts, NewTxs
<1>2. NewPages(cp, total) \in Nat /\ PageCount(total) \in Nat
  BY <1>1, PageCounts DEF NewPages
<1>3. NewPages(cp, total) <= PageCount(total)
  <2>1. PageCount(total) < NewPages(cp, total)
          => PageCount(total) * PageSize < NewTxs(cp, total) \/ PageCount(total) < 0
    BY <1>1, <1>2, PageCounts DEF NewPages
  <2>2. total <= PageCount(total) * PageSize /\ PageCount(total) * PageSize \in Int
    BY <1>2, PageCounts, Times
  <2> QED
    BY <1>1, <1>2, <2>1, <2>2
<1> QED
  BY <1>1, <1>2, <1>3, Settings DEF ScanEnd, Greatest, Least

(* A history that does not fit on a page. *)
LEMMA Several ==
  ASSUME NEW total \in Nat
  PROVE  /\ PageCount(total) \in Nat
         /\ PageCount(total) <= 1 <=> total <= PageSize
         /\ PageCount(total) > 1 => total \in Nat \ {0}
<1>1. PageCount(total) \in Nat /\ (1 < PageCount(total) <=> 1 * PageSize < total \/ 1 < 0)
  BY PageCounts
<1> QED
  BY <1>1, Settings

(* What holds of the plan in each of its five cases.                       *)
PlanFits(cp, total) ==
  LET plan == Plan(cp, total)
  IN  /\ plan.cursor \in Nat
      /\ plan.cursor <= total
      /\ plan.complete \in BOOLEAN
      /\ plan.complete <=> (plan.cursor = total)
      /\ plan.more \in Seq(Nat)

LEMMA ResultFields ==
  ASSUME NEW more, NEW cursor, NEW complete \in BOOLEAN
  PROVE  /\ Result(more, cursor, complete).more = more
         /\ Result(more, cursor, complete).cursor = cursor
         /\ Result(more, cursor, complete).complete = complete
BY DEF Result

(* The plan of one of the cases is all that is claimed of it.              *)
LEMMA PlanFitsIf ==
  ASSUME NEW cp, NEW total \in Nat, NEW more \in Seq(Nat), NEW cursor \in Nat,
         cursor <= total, NEW complete \in BOOLEAN, complete <=> (cursor = total),
         Plan(cp, total) = Result(more, cursor, complete)
  PROVE  /\ PlanFits(cp, total)
         /\ Plan(cp, total).more = more
         /\ Plan(cp, total).cursor = cursor
<1> DEFINE result == Result(more, cursor, complete)
<1>1. result.more = more /\ result.cursor = cursor /\ result.complete = complete
  BY ResultFields
<1>2. Plan(cp, total) = result
  OBVIOUS
<1> HIDE DEF result
<1>3. Plan(cp, total).more = more /\ Plan(cp, total).cursor = cursor
  BY <1>1, <1>2
<1>4. Plan(cp, total).complete \in BOOLEAN /\ (Plan(cp, total).complete <=> complete)
  BY <1>1, <1>2, Zenon
<1> QED
  BY <1>3, <1>4 DEF PlanFits

LEMMA CompleteFits ==
  ASSUME NEW cp, NEW total \in Nat, NEW more \in Seq(Nat),
         Plan(cp, total) = Result(more, total, TRUE)
  PROVE  /\ PlanFits(cp, total)
         /\ Plan(cp, total).more = more
         /\ Plan(cp, total).cursor = total
         /\ Plan(cp, total).complete
<1> DEFINE result == Result(more, total, TRUE)
<1>1. result.more = more /\ result.cursor = total /\ result.complete = TRUE
  BY DEF Result
<1>2. Plan(cp, total) = result
  OBVIOUS
<1> HIDE DEF result
<1>3. Plan(cp, total).more = more /\ Plan(cp, total).cursor = total
  BY <1>1, <1>2
<1>4. Plan(cp, total).complete = TRUE
  BY <1>1, <1>2
<1>5. Plan(cp, total).complete /\ Plan(cp, total).complete \in BOOLEAN
  BY <1>4, Zenon
<1>6. Plan(cp, total).complete <=> (Plan(cp, total).cursor = total)
  BY <1>3, <1>5, Zenon
<1>7. Plan(cp, total).cursor \in Nat /\ Plan(cp, total).cursor <= total
      /\ Plan(cp, total).more \in Seq(Nat)
  <2>1. total <= total
    OBVIOUS
  <2> QED
    BY <1>3, <2>1, Zenon
<1> QED
  BY <1>3, <1>5, <1>6, <1>7, Zenon DEF PlanFits

LEMMA OnePage ==
  ASSUME NEW cp, NEW total \in Nat, PageCount(total) <= 1
  PROVE  /\ Plan(cp, total).cursor = total /\ Plan(cp, total).complete
         /\ PlanFits(cp, total) /\ Covers(cp, total) /\ WithinBudget(cp, total)
<1>1. Plan(cp, total) = Result(<<>>, total, TRUE)
  BY DEF Plan
<1>2. /\ Plan(cp, total).more = <<>> /\ Plan(cp, total).cursor = total
      /\ Plan(cp, total).complete /\ PlanFits(cp, total)
  <2> DEFINE more == <<>>
  <2>1. more \in Seq(Nat)
    OBVIOUS
  <2> HIDE DEF more
  <2>2. Plan(cp, total) = Result(more, total, TRUE)
    BY <1>1 DEF more
  <2>3. /\ Plan(cp, total).more = more /\ Plan(cp, total).cursor = total
        /\ Plan(cp, total).complete /\ PlanFits(cp, total)
    BY <2>1, <2>2, CompleteFits
  <2> QED
    BY <2>3 DEF more
<1>3. ASSUME NEW i \in 1 .. total
      PROVE  (i - 1) \div PageSize = 0
  <2>1. i <= 1 * PageSize
    BY Several, Settings
  <2>2. (i - 1) \div PageSize \in Nat /\ (i - 1) \div PageSize < 1
    BY <2>1, PageOfNth
  <2> QED
    BY <2>2
<1>4. Covers(cp, total)
  BY <1>2, <1>3 DEF Covers, Pages
<1>5. WithinBudget(cp, total)
  BY <1>2, Settings DEF WithinBudget
<1> QED
  BY <1>2, <1>4, <1>5

(* Pages from the top, as far as the budget goes. *)
LEMMA FromTheTop ==
  ASSUME NEW cp, NEW total \in Nat, NEW end \in Nat,
         end >= 1, end <= MaxPages, end <= PageCount(total),
         Plan(cp, total).more = Span(1, end)
  PROVE  /\ WithinBudget(cp, total)
         /\ \A i \in 1 .. total : i <= end * PageSize =>
              (i - 1) \div PageSize \in Pages(Plan(cp, total))
         /\ Plan(cp, total).more \in Seq(Nat)
<1>1. /\ Plan(cp, total).more \in Seq(Nat)
      /\ Len(Plan(cp, total).more) = end - 1
      /\ DOMAIN Plan(cp, total).more = 1 .. end - 1
      /\ \A i \in 1 .. end - 1 : Plan(cp, total).more[i] = i
  BY SpanFromOne
<1>2. PageCount(total) \in Nat
  BY PageCounts
<1>3. WithinBudget(cp, total)
  BY <1>1, <1>2, Settings DEF WithinBudget
<1>4. ASSUME NEW i \in 1 .. total, i <= end * PageSize
      PROVE  (i - 1) \div PageSize \in Pages(Plan(cp, total))
  <2>1. i \in Nat \ {0}
    OBVIOUS
  <2>2. (i - 1) \div PageSize \in Nat /\ (i - 1) \div PageSize < end
    BY <1>4, <2>1, PageOfNth
  <2> QED
    BY <2>2, PagesOfSpan
<1> QED
  BY <1>1, <1>3, <1>4

LEMMA RestartSound ==
  ASSUME NEW cp, NEW total \in Nat, PageCount(total) > 1, ~Usable(cp, total)
  PROVE  PlanFits(cp, total) /\ Covers(cp, total) /\ WithinBudget(cp, total)
<1> DEFINE end == Least(PageCount(total), MaxPages)
           cursor == EndOf(end, total)
<1>1. end \in Nat /\ end >= 1 /\ end <= MaxPages /\ end <= PageCount(total)
  BY PageCounts, Settings DEF Least
<1>2. cursor \in Nat /\ cursor <= total /\ cursor <= end * PageSize /\ end * PageSize \in Nat
  BY <1>1, EndOfIs
<1>3. Plan(cp, total) = Result(Span(1, end), cursor, cursor >= total)
  <2>1. ~(PageCount(total) <= 1)
    BY PageCounts
  <2> QED
    BY <2>1, Zenon DEF Plan, Restart
<1> HIDE DEF end, cursor
<1>4. Span(1, end) \in Seq(Nat)
  BY <1>1, SpanIs
<1>5. /\ Plan(cp, total).more = Span(1, end) /\ Plan(cp, total).cursor = cursor
      /\ PlanFits(cp, total)
  <2> DEFINE done == cursor >= total
  <2>1. done \in BOOLEAN /\ (done <=> (cursor = total))
    BY <1>2
  <2> HIDE DEF done
  <2>2. Plan(cp, total) = Result(Span(1, end), cursor, done)
    BY <1>3 DEF done
  <2> QED
    BY <1>2, <1>4, <2>1, <2>2, PlanFitsIf
<1>6. /\ WithinBudget(cp, total)
      /\ \A i \in 1 .. total : i <= end * PageSize =>
           (i - 1) \div PageSize \in Pages(Plan(cp, total))
  BY <1>1, <1>5, FromTheTop
<1>7. \A i \in 1 .. cursor : i \in 1 .. total /\ i <= end * PageSize
  BY <1>2
<1>8. Covers(cp, total)
  BY <1>5, <1>6, <1>7 DEF Covers
<1> QED
  BY <1>5, <1>6, <1>8

(* ScanOnly: the budget ends before the last page of new transactions.     *)
LEMMA ScanOnlySound ==
  ASSUME NEW cp, NEW total \in Nat, PageCount(total) > 1, Usable(cp, total), Counts(cp),
         ScanEnd(cp, total) < NewPages(cp, total)
  PROVE  /\ PlanFits(cp, total) /\ Covers(cp, total) /\ WithinBudget(cp, total)
         /\ NewTxs(cp, total) > MaxPages * PageSize
<1> DEFINE end == ScanEnd(cp, total)
           cursor == EndOf(end, total)
<1>1. /\ end \in Nat /\ end >= 1 /\ end <= MaxPages /\ end <= PageCount(total)
      /\ MaxPages < NewPages(cp, total)
  BY ScanEndIs, PageCounts
<1>2. /\ cursor \in Nat /\ cursor <= total /\ cursor <= end * PageSize
      /\ end * PageSize \in Nat
  BY <1>1, EndOfIs
<1>3. Plan(cp, total) = Result(Span(1, end), cursor, FALSE)
  <2>1. ~(PageCount(total) <= 1)
    BY PageCounts
  <2> QED
    BY <2>1, Zenon DEF Plan, ScanOnly
<1>4. NewTxs(cp, total) > MaxPages * PageSize
  BY <1>1, ScanEndIs, PageCounts, Settings, Times DEF NewPages
<1>5. end * PageSize <= MaxPages * PageSize /\ MaxPages * PageSize \in Int
  BY <1>1, Settings, Times
<1>6. cursor < total
  <2> HIDE DEF end, cursor
  <2> QED
    BY <1>2, <1>4, <1>5, ScanEndIs
<1> HIDE DEF end, cursor
<1>7. Span(1, end) \in Seq(Nat)
  BY <1>1, SpanIs
<1>8. /\ Plan(cp, total).more = Span(1, end) /\ Plan(cp, total).cursor = cursor
      /\ PlanFits(cp, total)
  <2> DEFINE done == FALSE
  <2>1. done \in BOOLEAN /\ (done <=> (cursor = total))
    BY <1>2, <1>6
  <2>2. Plan(cp, total) = Result(Span(1, end), cursor, done)
    BY <1>3
  <2> HIDE DEF done
  <2> QED
    BY <1>2, <1>7, <2>1, <2>2, PlanFitsIf
<1>9. /\ WithinBudget(cp, total)
      /\ \A i \in 1 .. total : i <= end * PageSize =>
           (i - 1) \div PageSize \in Pages(Plan(cp, total))
  BY <1>1, <1>8, FromTheTop
<1>10. \A i \in 1 .. cursor : i \in 1 .. total /\ i <= end * PageSize
  BY <1>2
<1>11. Covers(cp, total)
  BY <1>8, <1>9, <1>10 DEF Covers
<1> QED
  BY <1>4, <1>8, <1>9, <1>11

(* Extend: the new transactions are on the pages, the old ones were there. *)
LEMMA ExtendSound ==
  ASSUME NEW cp, NEW total \in Nat, PageCount(total) > 1, Usable(cp, total), Counts(cp),
         ~(ScanEnd(cp, total) < NewPages(cp, total)), cp.complete
  PROVE  /\ PlanFits(cp, total) /\ Covers(cp, total) /\ WithinBudget(cp, total)
         /\ Plan(cp, total).complete
<1> DEFINE overlapEnd == Least(PageCount(total),
                               Greatest(1, NewPages(cp, total)) + OverlapPages)
           end == Greatest(ScanEnd(cp, total), Least(overlapEnd, MaxPages))
<1>1. /\ end \in Nat /\ end >= 1 /\ end <= MaxPages /\ end <= PageCount(total)
      /\ end >= NewPages(cp, total)
  <2>1. /\ ScanEnd(cp, total) \in Nat /\ ScanEnd(cp, total) >= 1
        /\ ScanEnd(cp, total) <= MaxPages /\ ScanEnd(cp, total) <= PageCount(total)
        /\ NewPages(cp, total) \in Nat /\ NewPages(cp, total) <= ScanEnd(cp, total)
        /\ PageCount(total) \in Nat
    BY ScanEndIs, PageCounts
  <2>2. overlapEnd \in Nat /\ overlapEnd <= PageCount(total)
    BY <2>1, Settings DEF Least, Greatest
  <2> HIDE DEF overlapEnd
  <2> QED
    BY <2>1, <2>2, Settings DEF Least, Greatest
<1>2. Plan(cp, total) = Result(Span(1, end), total, TRUE)
  <2>1. ~(PageCount(total) <= 1)
    BY PageCounts
  <2> QED
    BY <2>1, Zenon DEF Plan, Extend
<1> HIDE DEF end
<1>3. Span(1, end) \in Seq(Nat)
  BY <1>1, SpanIs
<1>4. /\ Plan(cp, total).more = Span(1, end) /\ Plan(cp, total).cursor = total
      /\ PlanFits(cp, total) /\ Plan(cp, total).complete
  BY <1>2, <1>3, CompleteFits
<1>5. /\ WithinBudget(cp, total)
      /\ \A i \in 1 .. total : i <= end * PageSize =>
           (i - 1) \div PageSize \in Pages(Plan(cp, total))
  BY <1>1, <1>4, FromTheTop
<1>6. ASSUME NEW i \in 1 .. total
      PROVE  i <= end * PageSize \/ (NewTxs(cp, total) < i /\ i <= NewTxs(cp, total) + cp.cursor)
  <2>1. cp.cursor = cp.history /\ cp.history \in Nat
    BY DEF Counts
  <2>2. NewTxs(cp, total) + cp.history = total /\ NewTxs(cp, total) \in Nat
    BY ScanEndIs
  <2>3. NewTxs(cp, total) <= NewPages(cp, total) * PageSize
    BY <2>2, PageCounts DEF NewPages
  <2>4. NewPages(cp, total) * PageSize <= end * PageSize
        /\ NewPages(cp, total) * PageSize \in Int /\ end * PageSize \in Int
    BY <1>1, ScanEndIs, Times
  <2> QED
    BY <2>1, <2>2, <2>3, <2>4
<1>7. Covers(cp, total)
  BY <1>4, <1>5, <1>6 DEF Covers
<1> QED
  BY <1>4, <1>5, <1>7

(* Resume: what it fetches, in numbers.                                    *)
LEMMA ResumeIs ==
  ASSUME NEW cp, NEW total \in Nat, PageCount(total) > 1, Usable(cp, total), Counts(cp),
         ~(ScanEnd(cp, total) < NewPages(cp, total)), ~cp.complete,
         NEW shifted, shifted = NewTxs(cp, total) + cp.cursor,
         NEW first, first = shifted \div PageSize,
         NEW scanned, scanned = ScanEnd(cp, total),
         NEW from, from = Greatest(first, scanned),
         NEW end, end = Least(PageCount(total), from + Allowed(cp, total, first) - scanned)
  PROVE  /\ shifted \in Nat /\ shifted < total /\ shifted >= NewTxs(cp, total)
         /\ first \in Nat /\ first * PageSize <= shifted
         /\ shifted < (first + 1) * PageSize
         /\ first < PageCount(total)
         /\ scanned \in Nat /\ scanned >= 1 /\ scanned <= MaxPages
         /\ scanned <= PageCount(total)
         /\ NewPages(cp, total) <= scanned
         /\ from \in Nat /\ scanned <= from /\ first <= from
         /\ from = first \/ from = scanned
         /\ end \in Nat /\ end <= PageCount(total)
         /\ end = PageCount(total)
              \/ (end = from + MaxPages - scanned /\ ~(NewTxs(cp, total) = 0 /\ first > 0))
              \/ (end = from + MaxPages + 1 - scanned /\ NewTxs(cp, total) = 0 /\ first > 0)
         /\ end <= from + MaxPages + 1 - scanned
         /\ NewTxs(cp, total) # 0 \/ first = 0 => end <= from + MaxPages - scanned
         /\ NewTxs(cp, total) = 0 => scanned = 1
<1>1. /\ NewTxs(cp, total) \in Nat /\ NewTxs(cp, total) + cp.history = total
      /\ scanned \in Nat /\ scanned >= 1 /\ scanned <= MaxPages
      /\ NewPages(cp, total) \in Nat /\ NewPages(cp, total) <= PageCount(total)
      /\ scanned = 1 \/ scanned <= NewPages(cp, total)
      /\ NewPages(cp, total) <= scanned
      /\ PageCount(total) \in Nat
  BY ScanEndIs, PageCounts
<1>2. cp.cursor \in Nat /\ cp.cursor < cp.history /\ cp.history \in Nat
  BY DEF Counts
<1>3. shifted \in Nat /\ shifted < total /\ shifted >= NewTxs(cp, total)
  BY <1>1, <1>2
<1>4. first \in Nat /\ first * PageSize <= shifted /\ shifted < (first + 1) * PageSize
  BY <1>3, Quotient
<1>5. first < PageCount(total)
  <2>1. first * PageSize < total
    BY <1>3, <1>4, Times
  <2> QED
    BY <2>1, <1>4, PageCounts
<1>6. /\ from \in Nat /\ scanned <= from /\ first <= from
      /\ from = first \/ from = scanned
  BY <1>1, <1>4 DEF Greatest
<1>7. Allowed(cp, total, first) = IF NewTxs(cp, total) = 0 /\ first > 0
                                   THEN MaxPages + 1 ELSE MaxPages
  BY Settings DEF Allowed
<1>8. /\ end \in Nat /\ end <= PageCount(total)
      /\ end = PageCount(total)
           \/ (end = from + MaxPages - scanned /\ ~(NewTxs(cp, total) = 0 /\ first > 0))
           \/ (end = from + MaxPages + 1 - scanned /\ NewTxs(cp, total) = 0 /\ first > 0)
      /\ end <= from + MaxPages + 1 - scanned
      /\ NewTxs(cp, total) # 0 \/ first = 0 => end <= from + MaxPages - scanned
  BY <1>1, <1>4, <1>6, <1>7, Settings DEF Least
<1>9. NewTxs(cp, total) = 0 => scanned = 1
  <2> SUFFICES ASSUME NewTxs(cp, total) = 0 PROVE scanned = 1
    OBVIOUS
  <2>1. NewPages(cp, total) <= 1
    BY <1>1, PageCounts, Settings DEF NewPages
  <2> QED
    BY <1>1, <2>1
<1> QED
  BY <1>1, <1>3, <1>4, <1>5, <1>6, <1>8, <1>9

LEMMA ResumePlan ==
  ASSUME NEW cp, NEW total \in Nat, PageCount(total) > 1, Usable(cp, total), Counts(cp),
         ~(ScanEnd(cp, total) < NewPages(cp, total)), ~cp.complete,
         NEW shifted, shifted = NewTxs(cp, total) + cp.cursor,
         NEW first, first = shifted \div PageSize,
         NEW scanned, scanned = ScanEnd(cp, total),
         NEW from, from = Greatest(first, scanned),
         NEW end, end = Least(PageCount(total), from + Allowed(cp, total, first) - scanned),
         NEW cursor, cursor = IF first < end THEN Greatest(shifted, EndOf(end, total))
                                             ELSE shifted
  PROVE  /\ Plan(cp, total).more = Span(1, scanned) \o Span(from, end)
         /\ Plan(cp, total).cursor = cursor
         /\ PlanFits(cp, total)
         /\ cursor \in Nat /\ cursor <= total /\ cursor >= shifted
<1>1. /\ shifted \in Nat /\ shifted < total /\ first \in Nat
      /\ scanned \in Nat /\ scanned >= 1 /\ from \in Nat /\ scanned <= from
      /\ end \in Nat
  BY ResumeIs
<1>2. Least(total, cp.cursor + NewTxs(cp, total)) = shifted
  <2>1. cp.cursor \in Nat /\ NewTxs(cp, total) \in Nat
    BY ScanEndIs DEF Counts
  <2>2. cp.cursor + NewTxs(cp, total) = shifted
    BY <2>1
  <2> QED
    BY <1>1, <2>2 DEF Least
<1>3. Plan(cp, total) = Result(Span(1, scanned) \o Span(from, end), cursor, cursor >= total)
  <2>1. ~(PageCount(total) <= 1)
    BY PageCounts
  <2>2. Plan(cp, total) = Resume(cp, total)
    BY <2>1, Zenon DEF Plan
  <2> QED
    BY <1>2, <2>2, Zenon DEF Resume
<1>4. cursor \in Nat /\ cursor <= total /\ cursor >= shifted
  <2>1. EndOf(end, total) \in Nat /\ EndOf(end, total) <= total
    BY <1>1, EndOfIs
  <2> QED
    BY <1>1, <2>1 DEF Greatest
<1> DEFINE more == Span(1, scanned) \o Span(from, end)
           done == cursor >= total
<1>5. more \in Seq(Nat)
  BY <1>1, TwoSpans
<1>6. done \in BOOLEAN /\ (done <=> (cursor = total))
  BY <1>4
<1> HIDE DEF more, done
<1>7. Plan(cp, total) = Result(more, cursor, done)
  BY <1>3 DEF more, done
<1>8. Plan(cp, total).more = more /\ Plan(cp, total).cursor = cursor /\ PlanFits(cp, total)
  BY <1>4, <1>5, <1>6, <1>7, PlanFitsIf
<1> QED
  BY <1>4, <1>8 DEF more

LEMMA ResumeSound ==
  ASSUME NEW cp, NEW total \in Nat, PageCount(total) > 1, Usable(cp, total), Counts(cp),
         ~(ScanEnd(cp, total) < NewPages(cp, total)), ~cp.complete
  PROVE  /\ PlanFits(cp, total) /\ Covers(cp, total) /\ WithinBudget(cp, total)
         /\ Progresses(cp, total)
         /\ NewTxs(cp, total) = 0 \/ NewPages(cp, total) < MaxPages =>
              Plan(cp, total).cursor > NewTxs(cp, total) + cp.cursor
<1> DEFINE new == NewTxs(cp, total)
           shifted == new + cp.cursor
           first == shifted \div PageSize
           scanned == ScanEnd(cp, total)
           from == Greatest(first, scanned)
           end == Least(PageCount(total), from + Allowed(cp, total, first) - scanned)
           cursor == IF first < end THEN Greatest(shifted, EndOf(end, total)) ELSE shifted
           plan == Plan(cp, total)
           count == PageCount(total)
<1>1. /\ shifted \in Nat /\ shifted < total /\ shifted >= new
      /\ first \in Nat /\ first * PageSize <= shifted
      /\ shifted < (first + 1) * PageSize /\ first < count
      /\ scanned \in Nat /\ scanned >= 1 /\ scanned <= MaxPages /\ scanned <= count
      /\ NewPages(cp, total) <= scanned
      /\ from \in Nat /\ scanned <= from /\ first <= from
      /\ from = first \/ from = scanned
      /\ end \in Nat /\ end <= count
      /\ end = count
           \/ (end = from + MaxPages - scanned /\ ~(new = 0 /\ first > 0))
           \/ (end = from + MaxPages + 1 - scanned /\ new = 0 /\ first > 0)
      /\ end <= from + MaxPages + 1 - scanned
      /\ new # 0 \/ first = 0 => end <= from + MaxPages - scanned
      /\ new = 0 => scanned = 1
  BY ResumeIs
<1>2. /\ plan.more = Span(1, scanned) \o Span(from, end)
      /\ plan.cursor = cursor
      /\ PlanFits(cp, total)
      /\ cursor \in Nat /\ cursor <= total /\ cursor >= shifted
  BY ResumePlan
<1>3. /\ count \in Nat /\ new \in Nat /\ NewPages(cp, total) \in Nat
      /\ cp.cursor \in Nat /\ cp.cursor < cp.history /\ cp.history \in Nat
      /\ new + cp.history = total
      /\ scanned = 1 \/ scanned <= NewPages(cp, total)
      /\ NewPages(cp, total) = 0 => new = 0
  <2>1. /\ new \in Nat /\ NewPages(cp, total) \in Nat
        /\ new + cp.history = total
        /\ scanned = 1 \/ scanned <= NewPages(cp, total)
    BY ScanEndIs
  <2>2. new <= NewPages(cp, total) * PageSize
    BY <2>1, PageCounts DEF NewPages
  <2>3. NewPages(cp, total) = 0 => new = 0
    <3> HIDE DEF new
    <3> QED
      BY <2>1, <2>2, Settings
  <2>4. /\ cp.cursor \in Nat /\ cp.cursor < cp.history /\ cp.history \in Nat
    BY DEF Counts
  <2>5. count \in Nat
    BY PageCounts
  <2> QED
    BY <2>1, <2>3, <2>4, <2>5
<1>4. EndOf(end, total) \in Nat /\ EndOf(end, total) <= end * PageSize
      /\ (EndOf(end, total) = total \/ EndOf(end, total) = end * PageSize)
      /\ end * PageSize \in Nat
  BY <1>1, EndOfIs
<1>5. cursor = IF first < end THEN Greatest(shifted, EndOf(end, total)) ELSE shifted
  OBVIOUS
<1>6. shifted = new + cp.cursor
  OBVIOUS
<1>7. new <= scanned * PageSize
  <2>1. new <= NewPages(cp, total) * PageSize
    BY <1>3, PageCounts DEF NewPages
  <2>2. NewPages(cp, total) * PageSize <= scanned * PageSize
        /\ NewPages(cp, total) * PageSize \in Int /\ scanned * PageSize \in Int
    BY <1>1, <1>3, Times
  <2> HIDE DEF new, scanned
  <2> QED
    BY <1>3, <2>1, <2>2
<1>8. WithinBudget(cp, total)
  <2> DEFINE more == Span(1, scanned) \o Span(from, end)
  <2> HIDE DEF new, shifted, first, scanned, from, end, count
  <2>1. /\ more \in Seq(Nat)
        /\ Len(more) = scanned - 1 + IF from < end THEN end - from ELSE 0
        /\ \A i \in 1 .. Len(more) :
             more[i] = IF i < scanned THEN i ELSE from + i - scanned
    <3>1. /\ scanned \in Nat /\ from \in Nat /\ end \in Nat
          /\ scanned >= 1 /\ scanned <= from
      BY <1>1
    <3> QED
      BY <3>1, TwoSpans
  <2>2. plan.more = more /\ DOMAIN more = 1 .. Len(more)
    BY <1>2, <2>1, LenProperties
  <2> HIDE DEF more
  <2>3. Len(more) <= MaxPages
    BY <1>1, <1>3, <2>1, Settings
  <2>4. \A i, j \in 1 .. Len(more) : i < j => more[i] < more[j]
    BY <1>1, <2>1
  <2>5. \A i \in 1 .. Len(more) : more[i] \in 1 .. (count - 1)
    <3> SUFFICES ASSUME NEW i \in 1 .. Len(more)
                 PROVE  more[i] \in 1 .. (count - 1)
      OBVIOUS
    <3>1. CASE i < scanned
      <4>1. more[i] = i
        BY <2>1, <3>1
      <4> QED
        BY <1>1, <1>3, <3>1, <4>1
    <3>2. CASE i >= scanned
      <4>1. more[i] = from + i - scanned
        BY <1>1, <2>1, <3>2
      <4>2. from < end /\ i <= scanned - 1 + (end - from)
        BY <1>1, <2>1, <3>2
      <4> QED
        BY <1>1, <1>3, <3>2, <4>1, <4>2
    <3> QED
      BY <1>1, <2>1, <3>1, <3>2
  <2> QED
    BY <2>2, <2>3, <2>4, <2>5 DEF WithinBudget, count
<1>9. first < end => cursor >= EndOf(end, total)
  BY <1>1, <1>4 DEF Greatest
<1>10. cursor = shifted \/ (first < end /\ cursor = EndOf(end, total))
  BY <1>1, <1>4 DEF Greatest
<1> HIDE DEF new, shifted, first, scanned, from, end, cursor, count, plan
<1>11. Covers(cp, total)
  <2> SUFFICES ASSUME NEW i \in 1 .. cursor,
                      ~(new < i /\ i <= new + cp.cursor)
               PROVE  (i - 1) \div PageSize \in Pages(plan)
    BY <1>2 DEF Covers, plan, new
  <2> DEFINE page == (i - 1) \div PageSize
  <2>1. i \in Nat \ {0} /\ i <= cursor
    BY <1>2
  <2>2. page \in Nat /\ (\A k \in Int : page < k <=> i <= k * PageSize)
    BY <2>1, PageOfNth
  <2>3. page < scanned \/ (from <= page /\ page < end) => page \in Pages(plan)
    BY <1>1, <1>2, <2>2, PagesOfTwoSpans
  <2>4. CASE i <= new
    <3>1. i <= scanned * PageSize /\ scanned \in Int
      BY <1>1, <1>3, <1>7, <2>1, <2>4, Times
    <3> QED
      BY <2>2, <2>3, <3>1
  <2>5. CASE i > shifted
    <3>1. first < end /\ cursor = EndOf(end, total)
      BY <1>1, <1>2, <1>10, <2>1, <2>5
    <3>2. i <= end * PageSize /\ end \in Int
      BY <1>1, <1>4, <2>1, <3>1
    <3>3. ~(i <= first * PageSize) /\ first \in Int /\ first * PageSize \in Int
      BY <1>1, <2>1, <2>5, Times
    <3>4. page < end /\ ~(page < first)
      BY <2>2, <3>2, <3>3
    <3> HIDE DEF page
    <3>5. page \in Pages(plan)
      BY <1>1, <2>2, <2>3, <3>4
    <3> QED
      BY <3>5 DEF page
  <2> QED
    BY <1>1, <1>3, <1>6, <2>1, <2>4, <2>5
<1>12. ASSUME new = 0 \/ NewPages(cp, total) < MaxPages
       PROVE  cursor > shifted
  <2>1. first < end
    BY <1>1, <1>3, <1>12, Settings
  <2>2. (first + 1) * PageSize <= end * PageSize /\ (first + 1) * PageSize \in Int
    BY <1>1, <2>1, Times
  <2> QED
    BY <1>1, <1>2, <1>4, <1>9, <2>1, <2>2
<1>13. Progresses(cp, total)
  <2> SUFFICES ASSUME total = cp.history, ~plan.complete
               PROVE  plan.cursor \div PageSize >= cp.cursor \div PageSize + MaxPages
    BY DEF Progresses, plan
  <2>1. new = 0 /\ scanned = 1 /\ shifted = cp.cursor
    BY <1>1, <1>3, <1>6
  <2>2. cursor < total
    BY <1>2 DEF PlanFits, plan
  <2>3. first < end
    BY <1>1, <1>3, <2>1, Settings
  <2>4. end = first + MaxPages
    <3>1. end # count
      <4>1. total <= count * PageSize /\ count * PageSize \in Int
        BY <1>3, PageCounts, Times DEF count
      <4> QED
        BY <1>1, <1>2, <1>4, <1>9, <2>2, <2>3, <4>1
    <3> QED
      BY <1>1, <1>3, <2>1, <3>1, Settings
  <2>5. cursor >= end * PageSize
    BY <1>1, <1>2, <1>4, <1>9, <2>2, <2>3
  <2>6. cursor \div PageSize >= end
    <3>1. cursor \div PageSize \in Nat /\ cursor < (cursor \div PageSize + 1) * PageSize
      BY <1>2, Quotient
    <3> DEFINE k == cursor \div PageSize
    <3> HIDE DEF k
    <3>2. end * PageSize < (k + 1) * PageSize => end < k + 1
      BY <1>1, <3>1, Times DEF k
    <3>3. (k + 1) * PageSize \in Int
      BY <3>1, Times DEF k
    <3> QED
      BY <1>1, <1>2, <1>4, <2>5, <3>1, <3>2, <3>3 DEF k
  <2> QED
    BY <1>2, <2>1, <2>4, <2>6 DEF first
<1> QED
  BY <1>2, <1>6, <1>8, <1>11, <1>12, <1>13 DEF plan, new

(* Whatever a pass starts from: its plan fits the history, claims only     *)
(* what it fetched or what was claimed before, and keeps to the budget.    *)
LEMMA PlanIsSound ==
  ASSUME NEW cp, NEW total \in Nat, cp = NoCheckpoint \/ Counts(cp)
  PROVE  /\ PlanFits(cp, total) /\ Covers(cp, total)
         /\ WithinBudget(cp, total) /\ Progresses(cp, total)
<1>1. PageCount(total) \in Nat
  BY PageCounts
<1>2. CASE PageCount(total) <= 1
  BY <1>2, OnePage DEF Progresses
<1>3. CASE PageCount(total) > 1 /\ ~Usable(cp, total)
  <2>1. Progresses(cp, total)
    BY <1>3 DEF Progresses, Usable, Counts
  <2> QED
    BY <1>3, <2>1, RestartSound
<1>4. CASE PageCount(total) > 1 /\ Usable(cp, total)
  <2>1. Counts(cp)
    BY <1>4 DEF Usable
  <2>2. CASE ScanEnd(cp, total) < NewPages(cp, total)
    <3>1. NewTxs(cp, total) > MaxPages * PageSize
      BY <1>4, <2>1, <2>2, ScanOnlySound
    <3>2. MaxPages * PageSize \in Nat
      BY Settings
    <3>3. total # cp.history
      BY <2>1, <3>1, <3>2 DEF NewTxs, Counts
    <3> QED
      BY <1>4, <2>1, <2>2, <3>3, ScanOnlySound DEF Progresses
  <2>3. CASE ~(ScanEnd(cp, total) < NewPages(cp, total)) /\ cp.complete
    BY <1>4, <2>1, <2>3, ExtendSound DEF Progresses
  <2>4. CASE ~(ScanEnd(cp, total) < NewPages(cp, total)) /\ ~cp.complete
    BY <1>4, <2>1, <2>4, ResumeSound
  <2> QED
    BY <2>2, <2>3, <2>4
<1> QED
  BY <1>1, <1>2, <1>3, <1>4

(* The checkpoint of such a pass is one the next pass may begin with.      *)
LEMMA LeavesCounts ==
  ASSUME NEW cp, NEW total \in Nat, PlanFits(cp, total), NEW next,
         next.cursor = Plan(cp, total).cursor, next.history = total,
         next.complete = Plan(cp, total).complete
  PROVE  Counts(next)
<1>1. next.complete \in BOOLEAN /\ (next.complete <=> (next.cursor = next.history))
  BY Zenon DEF PlanFits
<1>2. next.cursor \in Nat /\ next.history \in Nat /\ next.cursor <= next.history
  BY DEF PlanFits
<1> QED
  BY <1>1, <1>2 DEF Counts

(***************************************************************************)
(* Every pass over a history, however it grew or shrank since the one      *)
(* before it and whatever the settings, claims only what it fetched or     *)
(* what was claimed before, keeps to its budget, and comes closer to the   *)
(* oldest page while nothing new arrives (backfillProtocol).               *)
(***************************************************************************)
THEOREM PassesAreSound == PassSpec => []PlanSound
<1> DEFINE Inv == (saved = NoCheckpoint \/ Counts(saved)) /\ length \in Nat
<1>1. PassInit => Inv
  BY PassesAssumption DEF PassInit, Checkpoints, Counts
<1>2. Inv /\ [PassNext]_passVars => Inv'
  <2> SUFFICES ASSUME Inv, PassNext PROVE Inv'
    BY DEF passVars
  <2>1. length' \in Nat
    BY PassesAssumption DEF PassNext, PassEnds, HistoryChanges
  <2>2. CASE HistoryChanges
    BY <2>1, <2>2 DEF HistoryChanges
  <2>3. CASE PassEnds
    <3>1. PlanFits(saved, length)
      BY PlanIsSound
    <3>2. /\ saved'.cursor = Plan(saved, length).cursor /\ saved'.history = length
          /\ saved'.complete = Plan(saved, length).complete
      BY <2>3 DEF PassEnds
    <3>3. Counts(saved')
      BY <3>1, <3>2, LeavesCounts
    <3> QED
      BY <2>1, <3>3
  <2> QED
    BY <2>2, <2>3 DEF PassNext
<1>3. Inv => PlanSound
  BY PlanIsSound DEF PlanSound
<1> QED
  BY <1>1, <1>2, <1>3, PTL DEF PassSpec

-----------------------------------------------------------------------------
(* Pages of transactions, and what a block keeps of the chain below it.    *)

LEMMA MinIs ==
  ASSUME NEW S \in SUBSET Nat, S # {}
  PROVE  Min(S) \in S /\ \A x \in S : Min(S) <= x
<1>1. IsWellFoundedOn(OpToRel(<, Nat), Nat)
  BY NatLessThanWellFounded
<1>2. PICK x \in S : \A y \in S : ~(<<y, x>> \in OpToRel(<, Nat))
  BY <1>1, WFMin
<1>3. \A y \in S : ~(y < x)
  BY <1>2 DEF OpToRel
<1>4. \A y \in S : x <= y
  BY <1>3
<1> QED
  BY <1>4, Zenon DEF Min

OnPage(h, p) == {h[i] : i \in {k \in 1 .. Len(h) : (k - 1) \div PageSize = p}}

LEMMA PageHolds ==
  ASSUME NEW S, NEW h \in Seq(S), NEW p \in Nat
  PROVE  /\ PageOf(h, p) \in Seq(S)
         /\ OnPage(h, p) \subseteq Range(PageOf(h, p))
<1> DEFINE m == p * PageSize + 1
           n == Least(Len(h), (p + 1) * PageSize)
           page == SubSeq(h, m, n)
<1>1. m \in Nat \ {0} /\ n \in Int /\ n <= Len(h) /\ Len(h) \in Nat
  BY LenProperties, Settings, Times DEF Least
<1>2. \A i \in m .. n : h[i] \in S
  <2> SUFFICES ASSUME NEW i \in m .. n PROVE i \in 1 .. Len(h)
    BY ElementOfSeq
  <2> HIDE DEF m, n
  <2> QED
    BY <1>1
<1> HIDE DEF m, n
<1>3. /\ page \in Seq(S)
      /\ Len(page) = IF m <= n THEN n - m + 1 ELSE 0
      /\ \A i \in 1 .. n - m + 1 : page[i] = h[m + i - 1]
  BY <1>1, <1>2, SubSeqProperties
<1>4. DOMAIN page = 1 .. Len(page)
  BY <1>3, LenProperties
<1> HIDE DEF page
<1>5. ASSUME NEW i \in 1 .. Len(h), (i - 1) \div PageSize = p
      PROVE  h[i] \in Range(page)
  <2>1. i \in Nat \ {0}
    BY <1>1
  <2>2. \A k \in Int : p < k <=> i <= k * PageSize
    BY <1>5, <2>1, PageOfNth
  <2>3. i <= (p + 1) * PageSize /\ ~(i <= p * PageSize)
    BY <2>2
  <2>4. m <= i /\ i <= n
    BY <1>1, <2>1, <2>3, Settings, Times DEF m, n, Least
  <2>5. i - m + 1 \in 1 .. n - m + 1 /\ m + (i - m + 1) - 1 = i
    BY <1>1, <2>1, <2>4
  <2>6. i - m + 1 \in DOMAIN page /\ page[i - m + 1] = h[i]
    BY <1>1, <1>3, <1>4, <2>4, <2>5
  <2> QED
    BY <2>6, Zenon DEF Range
<1>6. OnPage(h, p) \subseteq Range(page)
  BY <1>5 DEF OnPage
<1> QED
  BY <1>3, <1>6 DEF PageOf, page, m, n

-----------------------------------------------------------------------------
(* The tree of blocks.                                                     *)

LEMMA TipOfChain ==
  ASSUME NEW b \in Blocks
  PROVE  b \in OnChain(b) /\ Height(b) \in Nat
<1>1. Chain[b] \in Seq(Blocks) /\ Chain[b] # <<>> /\ Chain[b][Len(Chain[b])] = b
  BY ChainAssumption
<1>2. Len(Chain[b]) \in Nat /\ DOMAIN Chain[b] = 1 .. Len(Chain[b]) /\ Len(Chain[b]) # 0
  BY <1>1, LenProperties, EmptySeq
<1>3. Len(Chain[b]) \in DOMAIN Chain[b]
  BY <1>2
<1> QED
  BY <1>1, <1>2, <1>3 DEF OnChain, Range, Height

(* A block of a chain stands there at its height, above its own chain.     *)
LEMMA PlaceOnChain ==
  ASSUME NEW b \in Blocks, NEW a \in OnChain(b)
  PROVE  /\ a \in Blocks
         /\ Len(Chain[a]) \in 1 .. Len(Chain[b])
         /\ \A i \in 1 .. Len(Chain[a]) : Chain[a][i] = Chain[b][i]
<1>1. Chain[b] \in Seq(Blocks) /\ Len(Chain[b]) \in Nat /\ DOMAIN Chain[b] = 1 .. Len(Chain[b])
  BY ChainAssumption, LenProperties
<1>2. PICK n \in 1 .. Len(Chain[b]) : a = Chain[b][n]
  BY <1>1 DEF OnChain, Range
<1>3. a \in Blocks
  BY <1>1, <1>2, ElementOfSeq
<1>4. Chain[a] = SubSeq(Chain[b], 1, n)
  BY <1>2, ChainAssumption
<1>5. Len(Chain[a]) = n /\ \A i \in 1 .. n : Chain[a][i] = Chain[b][i]
  BY <1>1, <1>4, SubSeqProperties
<1> QED
  BY <1>2, <1>3, <1>5

LEMMA ChainsBelow ==
  ASSUME NEW b \in Blocks, NEW a \in OnChain(b)
  PROVE  /\ OnChain(a) \subseteq OnChain(b)
         /\ \A c \in OnChain(b) : Height(c) <= Height(a) => c \in OnChain(a)
<1>1. /\ a \in Blocks /\ Len(Chain[a]) \in 1 .. Len(Chain[b])
      /\ \A i \in 1 .. Len(Chain[a]) : Chain[a][i] = Chain[b][i]
  BY PlaceOnChain
<1>2. ASSUME NEW c \in Blocks
      PROVE  Len(Chain[c]) \in Nat /\ DOMAIN Chain[c] = 1 .. Len(Chain[c])
  BY ChainAssumption, LenProperties
<1>3. ASSUME NEW c \in OnChain(a)
      PROVE  c \in OnChain(b)
  <2>1. PICK i \in 1 .. Len(Chain[a]) : c = Chain[a][i]
    BY <1>1, <1>2 DEF OnChain, Range
  <2>2. i \in 1 .. Len(Chain[b]) /\ c = Chain[b][i]
    BY <1>1, <1>2, <2>1
  <2> QED
    BY <1>2, <2>2 DEF OnChain, Range
<1>4. ASSUME NEW c \in OnChain(b), Height(c) <= Height(a)
      PROVE  c \in OnChain(a)
  <2> DEFINE n == Len(Chain[c])
  <2>1. /\ c \in Blocks /\ n \in 1 .. Len(Chain[b])
        /\ \A i \in 1 .. n : Chain[c][i] = Chain[b][i]
    BY PlaceOnChain
  <2>2. Chain[c][n] = c
    BY <2>1, ChainAssumption
  <2>3. n \in 1 .. Len(Chain[a])
    BY <1>1, <1>2, <1>4, <2>1 DEF Height
  <2>4. n \in 1 .. n
    BY <2>1
  <2>5. Chain[a][n] = c
    BY <1>1, <2>1, <2>2, <2>3, <2>4
  <2> QED
    BY <1>1, <1>2, <2>3, <2>5 DEF OnChain, Range
<1> QED
  BY <1>3, <1>4

LEMMA ChainFacts ==
  ASSUME NEW b \in Blocks, NEW q \in Protocols
  PROVE  /\ History[b][q] \in Seq(Txids)
         /\ \A a \in OnChain(b) :
              /\ a \in Blocks
              /\ Height(a) <= Height(b)
              /\ History[a][q] \in Seq(Txids)
              /\ Len(History[a][q]) <= Len(History[b][q])
              /\ \A i \in 1 .. Len(History[a][q]) :
                   History[b][q][Len(History[b][q]) - Len(History[a][q]) + i]
                     = History[a][q][i]
<1>1. History[b][q] \in Seq(Txids) /\ Chain[b] \in Seq(Blocks)
  BY ChainAssumption DEF Protocols
<1>2. ASSUME NEW a \in OnChain(b)
      PROVE  a \in Blocks
  <2>1. PICK i \in DOMAIN Chain[b] : a = Chain[b][i]
    BY DEF OnChain, Range
  <2> QED
    BY <1>1, <2>1, LenProperties, ElementOfSeq
<1>3. ASSUME NEW a \in OnChain(b)
      PROVE  Height(a) <= Height(b)
  <2>1. Len(Chain[a]) \in 1 .. Len(Chain[b]) /\ Len(Chain[b]) \in Nat
    BY <1>1, PlaceOnChain, LenProperties
  <2> QED
    BY <2>1 DEF Height
<1>4. ASSUME NEW a \in OnChain(b)
      PROVE  /\ History[a][q] \in Seq(Txids)
             /\ Len(History[a][q]) <= Len(History[b][q])
             /\ \A i \in 1 .. Len(History[a][q]) :
                  History[b][q][Len(History[b][q]) - Len(History[a][q]) + i]
                    = History[a][q][i]
  BY <1>2, ChainAssumption DEF Protocols, OnChain
<1> QED
  BY <1>1, <1>2, <1>3, <1>4

-----------------------------------------------------------------------------
(***************************************************************************)
(* The inductive invariant.  Rank orders the blocks such that the tip only *)
(* moves up: once it left the block a run began with it is never there     *)
(* again, so what the run has read while `run.start = tip' was all read    *)
(* from one chain.                                                         *)
(***************************************************************************)

(* The fields of a run that the invariant is about are all there.          *)
Fields == DOMAIN Blank

(* AnchorsOnChain, Saved and CheckpointSound of any checkpoints.           *)
Kept(cps, b) == \A q \in Protocols : cps[q] # NoCheckpoint => cps[q].block \in OnChain(b)
SavedOf(reorg, cps, q) == IF reorg THEN NoCheckpoint ELSE cps[q]

Sound(cp, q, rec) ==
  /\ cp.block \in Blocks
  /\ Counts(cp)
  /\ cp.history = Len(History[cp.block][q])
  /\ \A i \in 1 .. cp.cursor : History[cp.block][q][i] \in rec

Stored(cps, rec) ==
  \A q \in Protocols : cps[q] = NoCheckpoint \/ Sound(cps[q], q, rec)

(* The plan of the pass over protocol q while the tip is b.                *)
PlanOf(reorg, cps, q, b) == Plan(SavedOf(reorg, cps, q), Len(History[b][q]))

Results == [cursor : Nat, history : Nat, complete : BOOLEAN]

(* The result of a pass: what its plan says, with the claim of its cursor. *)
ResultSound(res, q, reorg, cps, b, rec) ==
  /\ res.history = Len(History[b][q])
  /\ res.cursor = PlanOf(reorg, cps, q, b).cursor
  /\ res.complete <=> PlanOf(reorg, cps, q, b).complete
  /\ \A i \in 1 .. res.cursor : History[b][q][i] \in rec

Reached(r, rec, b, cps, n) ==
  /\ r.results \in Seq(Results)
  /\ Len(r.results) = n
  /\ \A j \in 1 .. n : ResultSound(r.results[j], Discovery[j], r.reorg, cps, b, rec)

(* The pages that are not read yet are those still to be fetched.          *)
Reading(r, rec, b, cps) ==
  LET q == Discovery[r.at]
      h == History[b][q]
  IN  /\ r.count = Len(h)
      /\ r.pages \in Seq(Nat) /\ r.pages # <<>>
      /\ \A p \in Pages(PlanOf(r.reorg, cps, q, b)) :
           p \in Range(r.pages) \/ OnPage(h, p) \subseteq rec

(* Of the page just fetched, those not recorded yet are still to be done.  *)
Remaining(r, rec, b) ==
  /\ r.todo \in Seq(Txids)
  /\ OnPage(History[b][Discovery[r.at]], Head(r.pages)) \subseteq rec \cup Range(r.todo)

(* What a run has established while the tip is the one it began with.      *)
Established(place, r, rec, b, cps) ==
  /\ place = "hash" =>
       /\ r.at \in 1 .. Len(Discovery)
       /\ cps[Discovery[r.at]] # NoCheckpoint
       /\ \A j \in 1 .. r.at - 1 :
            cps[Discovery[j]] # NoCheckpoint => cps[Discovery[j]].block \in OnChain(b)
  /\ place \in {"row", "page", "tx", "end"} =>
       r.reorg \in BOOLEAN /\ (r.reorg <=> ~Kept(cps, b))
  /\ place \in {"page", "tx"} =>
       /\ r.at \in 1 .. Len(Discovery)
       /\ Reached(r, rec, b, cps, r.at - 1)
       /\ r.done \subseteq rec
  /\ place = "page" => \/ r.count = NoCount /\ r.pages = << 0 >>
                       \/ Reading(r, rec, b, cps)
  /\ place = "tx" => Reading(r, rec, b, cps) /\ Remaining(r, rec, b) /\ r.todo # <<>>
  /\ place = "end" => Reached(r, rec, b, cps, Len(Discovery))

(* What holds of a run whatever the tip does.                              *)
Local(place, r) ==
  /\ DOMAIN r = Fields
  /\ place \in {"idle", "tip", "hash", "row", "page", "tx", "end"}
  /\ place \in {"tip", "hash", "page", "tx", "end"} => r.full
  /\ place \in {"tip", "hash", "row"} => r.results = <<>> /\ r.done = {} /\ r.count = NoCount
  /\ place = "row" /\ ~r.full => r.start = NoBlock

Begun(Rank, start, b) ==
  start = NoBlock \/ (start \in Blocks /\ (start = b \/ Rank[start] < Rank[b]))

IInv(Rank) ==
  /\ tip \in Blocks
  /\ DOMAIN status = {"state", "complete"}
  /\ Local(pc, run)
  /\ Begun(Rank, run.start, tip)
  /\ Stored(checkpoint, recorded)
  /\ run.start = tip => Established(pc, run, recorded, tip, checkpoint)

(* A pass that began with sound checkpoints and has read the pages of its  *)
(* plan may claim what its plan says.                                      *)
LEMMA PassClaims ==
  ASSUME NEW b \in Blocks, NEW q \in Protocols, NEW rec, NEW cps, NEW reorg,
         Stored(cps, rec), reorg <=> ~Kept(cps, b),
         \A p \in Pages(PlanOf(reorg, cps, q, b)) : OnPage(History[b][q], p) \subseteq rec
  PROVE  /\ PlanOf(reorg, cps, q, b).cursor \in Nat
         /\ PlanOf(reorg, cps, q, b).cursor <= Len(History[b][q])
         /\ PlanOf(reorg, cps, q, b).complete \in BOOLEAN
         /\ PlanOf(reorg, cps, q, b).complete
              <=> PlanOf(reorg, cps, q, b).cursor = Len(History[b][q])
         /\ \A i \in 1 .. PlanOf(reorg, cps, q, b).cursor : History[b][q][i] \in rec
<1> DEFINE h == History[b][q]
           total == Len(h)
           cp == SavedOf(reorg, cps, q)
           plan == PlanOf(reorg, cps, q, b)
<1>1. h \in Seq(Txids) /\ total \in Nat
  BY ChainFacts, LenProperties
<1>2. cp = NoCheckpoint \/ (Sound(cp, q, rec) /\ cp.block \in OnChain(b))
  BY DEF Stored, SavedOf, Kept
<1>3. cp = NoCheckpoint \/ Counts(cp)
  BY <1>2 DEF Sound
<1>4. plan = Plan(cp, total)
  BY DEF PlanOf
<1> HIDE DEF h, total, cp, plan
<1>5. PlanFits(cp, total) /\ Covers(cp, total)
  BY <1>1, <1>3, PlanIsSound
<1>6. /\ plan.cursor \in Nat /\ plan.cursor <= total
      /\ plan.complete \in BOOLEAN
      /\ plan.complete <=> (plan.cursor = total)
  BY <1>4, <1>5, Zenon DEF PlanFits
<1>7. ASSUME NEW i \in 1 .. plan.cursor
      PROVE  h[i] \in rec
  <2>1. i \in 1 .. total
    BY <1>1, <1>6
  <2>2. CASE (i - 1) \div PageSize \in Pages(plan)
    <3>1. OnPage(h, (i - 1) \div PageSize) \subseteq rec
      BY <2>2 DEF plan, h
    <3>2. h[i] \in OnPage(h, (i - 1) \div PageSize)
      BY <2>1 DEF OnPage, total
    <3> QED
      BY <3>1, <3>2
  <2>3. CASE /\ Usable(cp, total)
             /\ NewTxs(cp, total) < i
             /\ i <= NewTxs(cp, total) + cp.cursor
    <3>1. Sound(cp, q, rec) /\ cp.block \in OnChain(b)
      BY <1>2, <2>3 DEF Usable
    <3> DEFINE old == History[cp.block][q]
    <3>2. Len(old) = cp.history /\ cp.history \in Nat /\ cp.cursor \in Nat
          /\ cp.cursor <= cp.history
      BY <3>1 DEF Sound, Counts
    <3>3. \A k \in 1 .. Len(old) : h[total - Len(old) + k] = old[k]
      BY <3>1, ChainFacts DEF h, total
    <3>4. \A k \in 1 .. cp.cursor : old[k] \in rec
      BY <3>1 DEF Sound
    <3> HIDE DEF old
    <3> DEFINE k == i - (total - cp.history)
    <3>5. k \in 1 .. cp.cursor /\ k \in 1 .. Len(old) /\ total - Len(old) + k = i
      BY <1>1, <2>1, <2>3, <3>2 DEF NewTxs
    <3> HIDE DEF k
    <3>6. h[i] = old[k] /\ old[k] \in rec
      BY <3>3, <3>4, <3>5
    <3> QED
      BY <3>6
  <2> QED
    BY <1>4, <1>5, <2>2, <2>3 DEF Covers
<1> QED
  BY <1>6, <1>7 DEF plan, h, total

LEMMA FieldsAre ==
  Fields = {"full", "attempt", "start", "reorg", "min", "after", "more", "rows", "at",
            "pages", "count", "todo", "done", "results"}
BY DEF Fields, Blank

LEMMA Protocol ==
  /\ Len(Discovery) \in Nat
  /\ \A j \in 1 .. Len(Discovery) : Discovery[j] \in Protocols
<1>1. Discovery \in Seq(Protocols)
  BY BackfillAssumption DEF Protocols
<1> QED
  BY <1>1, LenProperties, ElementOfSeq

(* The program goes on with the run r, as far as the invariant tells.      *)
Same(r, s) ==
  /\ s.start = r.start /\ s.reorg = r.reorg /\ s.full = r.full
  /\ s.results = r.results /\ s.done = r.done /\ s.count = r.count

Scanned(r, i) ==
  /\ DOMAIN run' = Fields
  /\ Same(r, run')
  /\ \/ pc' = "end" /\ i > Len(Discovery)
     \/ pc' = "page" /\ ~(i > Len(Discovery)) /\ run'.at = i /\ run'.pages = << 0 >>

Listing(r) ==
  \/ pc' = "row" /\ DOMAIN run' = Fields /\ Same(r, run')
  \/ r.full /\ Scanned(r, 1)
  \/ ~r.full /\ pc' = "idle" /\ run' = Blank

LEMMA ScanGoes ==
  ASSUME NEW r, DOMAIN r = Fields, NEW i, NEW jobs, Scan(r, i, jobs)
  PROVE  Scanned(r, i)
<1>1. CASE i > Len(Discovery)
  BY <1>1 DEF Scan, Goto, Scanned, Same
<1>2. CASE ~(i > Len(Discovery))
  <2>1. pc' = "page" /\ run' = [r EXCEPT !.at = i, !.pages = << 0 >>]
    BY <1>2 DEF Scan, Goto
  <2>2. DOMAIN run' = Fields /\ Same(r, run') /\ run'.at = i /\ run'.pages = << 0 >>
    BY <2>1, FieldsAre DEF Same
  <2> QED
    BY <1>2, <2>1, <2>2 DEF Scanned
<1> QED
  BY <1>1, <1>2

LEMMA RowsDoneGoes ==
  ASSUME NEW r, DOMAIN r = Fields, NEW jobs, RowsDone(r, jobs)
  PROVE  Listing(r)
BY ScanGoes DEF RowsDone, Listing, Return, Goto

LEMMA AwaitRowGoes ==
  ASSUME NEW r, DOMAIN r = Fields, NEW jobs, AwaitRow(r, jobs)
  PROVE  Listing(r)
BY DEF AwaitRow, Goto, Listing, Same

LEMMA SameListing ==
  ASSUME NEW r, NEW s, Same(r, s), Listing(s)
  PROVE  Listing(r)
<1>1. ASSUME NEW x, Same(s, x) PROVE Same(r, x)
  BY <1>1 DEF Same
<1>2. s.full = r.full
  BY DEF Same
<1> QED
  BY <1>1, <1>2 DEF Listing, Scanned

LEMMA ListRowsGoes ==
  ASSUME NEW r, DOMAIN r = Fields, NEW rows, NEW jobs, ListRows(rows, r, jobs)
  PROVE  Listing(r)
<1> DEFINE page == RowsPage(rows, r.min, r.after)
           cleared == [r EXCEPT !.rows = {}, !.after = NoRow, !.more = FALSE]
           more == Cardinality(page) >= RowLimit
           next == [r EXCEPT !.rows = page, !.after = Last(page), !.more = more]
<1>1. RowsDone(cleared, jobs) \/ AwaitRow(next, jobs)
  BY DEF ListRows
<1> HIDE DEF page, more
<1>2. DOMAIN cleared = Fields /\ Same(r, cleared)
  BY FieldsAre DEF Same
<1>3. DOMAIN next = Fields /\ Same(r, next)
  BY FieldsAre DEF Same
<1> QED
  BY <1>1, <1>2, <1>3, RowsDoneGoes, AwaitRowGoes, SameListing

LEMMA NextRowGoes ==
  ASSUME DOMAIN run = Fields, NEW rows, NEW jobs, NextRow(rows, jobs)
  PROVE  Listing(run)
<1> DEFINE rest == run.rows \ {First(run.rows)}
           next == [run EXCEPT !.rows = rest]
           cleared == [run EXCEPT !.rows = {}, !.after = NoRow]
<1>1. AwaitRow(next, jobs) \/ ListRows(rows, run, jobs) \/ RowsDone(cleared, jobs)
  BY DEF NextRow
<1> HIDE DEF rest
<1>2. DOMAIN cleared = Fields /\ Same(run, cleared)
  BY FieldsAre DEF Same
<1>3. DOMAIN next = Fields /\ Same(run, next)
  BY FieldsAre DEF Same
<1> QED
  BY <1>1, <1>2, <1>3, RowsDoneGoes, AwaitRowGoes, ListRowsGoes, SameListing

(* What has to hold of the run that a step leaves.                         *)
Leaves(r, rec, b, cps) ==
  /\ Local(pc', run')
  /\ run'.start = r.start \/ run'.start = NoBlock
  /\ run'.start = b => Established(pc', run', rec, b, cps)

LEMMA BlankLeaves ==
  ASSUME NEW r, NEW rec, NEW b \in Blocks, NEW cps, pc' = "idle", run' = Blank
  PROVE  Leaves(r, rec, b, cps)
<1>1. run'.start = NoBlock /\ DOMAIN run' = Fields
  BY DEF Blank, Fields
<1>2. b # NoBlock
  BY BackfillAssumption
<1> QED
  BY <1>1, <1>2 DEF Leaves, Local

LEMMA ScanLeaves ==
  ASSUME NEW r, NEW rec, NEW b, NEW cps, NEW i \in Nat, Scanned(r, i), r.full,
         r.start = b =>
           /\ r.reorg \in BOOLEAN /\ (r.reorg <=> ~Kept(cps, b))
           /\ i \in 1 .. Len(Discovery) + 1
           /\ Reached(r, rec, b, cps, i - 1)
           /\ r.done \subseteq rec
           /\ r.count = NoCount
  PROVE  Leaves(r, rec, b, cps)
<1>1. Local(pc', run') /\ run'.start = r.start
  BY DEF Scanned, Same, Local
<1>2. ASSUME r.start = b
      PROVE  Established(pc', run', rec, b, cps)
  <2>1. /\ run'.reorg \in BOOLEAN /\ (run'.reorg <=> ~Kept(cps, b))
        /\ i \in 1 .. Len(Discovery) + 1
        /\ run'.done \subseteq rec
        /\ run'.count = NoCount
    BY <1>2 DEF Scanned, Same
  <2>2. Reached(run', rec, b, cps, i - 1)
    <3>1. run'.results = r.results /\ run'.reorg = r.reorg
      BY DEF Scanned, Same
    <3> QED
      BY <1>2, <3>1, Zenon DEF Reached
  <2>3. CASE pc' = "end" /\ i > Len(Discovery)
    <3>1. i - 1 = Len(Discovery)
      BY <2>1, <2>3, Protocol
    <3> QED
      BY <2>1, <2>2, <2>3, <3>1 DEF Established
  <2>4. CASE pc' = "page" /\ ~(i > Len(Discovery)) /\ run'.at = i /\ run'.pages = << 0 >>
    <3>1. run'.at \in 1 .. Len(Discovery)
      BY <2>1, <2>4, Protocol
    <3> QED
      BY <2>1, <2>2, <2>4, <3>1 DEF Established
  <2> QED
    BY <2>3, <2>4 DEF Scanned
<1> QED
  BY <1>1, <1>2 DEF Leaves

LEMMA ListingLeaves ==
  ASSUME NEW r, NEW rec, NEW b \in Blocks, NEW cps, Listing(r), Local("row", r),
         r.start = b => r.reorg \in BOOLEAN /\ (r.reorg <=> ~Kept(cps, b))
  PROVE  Leaves(r, rec, b, cps)
<1>1. r.results = <<>> /\ r.done = {} /\ r.count = NoCount /\ (~r.full => r.start = NoBlock)
  BY DEF Local
<1>2. CASE pc' = "row" /\ DOMAIN run' = Fields /\ Same(r, run')
  BY <1>1, <1>2 DEF Leaves, Local, Same, Established
<1>3. CASE r.full /\ Scanned(r, 1)
  <2>1. Reached(r, rec, b, cps, 1 - 1)
    <3>1. <<>> \in Seq(Results) /\ Len(<<>>) = 0
      BY EmptySeq
    <3> QED
      BY <1>1, <3>1 DEF Reached
  <2>2. 1 \in 1 .. Len(Discovery) + 1 /\ r.done \subseteq rec
    BY <1>1, Protocol
  <2> QED
    BY <1>1, <1>3, <2>1, <2>2, ScanLeaves
<1>4. CASE ~r.full /\ pc' = "idle" /\ run' = Blank
  BY <1>4, BlankLeaves
<1> QED
  BY <1>2, <1>3, <1>4 DEF Listing

LEMMA RevalidateLeaves ==
  ASSUME NEW r, NEW reorg \in BOOLEAN, NEW rec, tip \in Blocks, Local("hash", r),
         Revalidate(r, reorg),
         r.start = tip => (reorg <=> ~Kept(checkpoint, tip))
  PROVE  Leaves(r, rec, tip, checkpoint)
<1> DEFINE min == IF reorg THEN 0 ELSE RevalidationHeight
           s == [r EXCEPT !.reorg = reorg, !.at = 0, !.min = min]
<1>1. ListRows(row, s, job)
  BY DEF Revalidate
<1> HIDE DEF min
<1>2. DOMAIN s = Fields /\ s.start = r.start /\ s.reorg = reorg /\ s.full = r.full
      /\ s.results = <<>> /\ s.done = {} /\ s.count = NoCount
  BY FieldsAre DEF Local
<1> HIDE DEF s
<1>3. r.full
  BY DEF Local
<1>4. Local("row", s)
  BY <1>2, <1>3 DEF Local
<1>5. s.start = tip => s.reorg \in BOOLEAN /\ (s.reorg <=> ~Kept(checkpoint, tip))
  BY <1>2
<1>6. Leaves(s, rec, tip, checkpoint)
  BY <1>1, <1>2, <1>4, <1>5, ListRowsGoes, ListingLeaves
<1> QED
  BY <1>2, <1>6 DEF Leaves

LEMMA CheckAnchorsLeaves ==
  ASSUME NEW r, NEW i, NEW rec, tip \in Blocks, Local("hash", r), CheckAnchors(r, i),
         r.start = tip =>
           /\ i \in Nat \ {0}
           /\ \A j \in 1 .. i - 1 :
                /\ j \in 1 .. Len(Discovery)
                /\ checkpoint[Discovery[j]] # NoCheckpoint
                =>
                  checkpoint[Discovery[j]].block \in OnChain(tip)
  PROVE  Leaves(r, rec, tip, checkpoint)
<1>1. ASSUME r.start = tip
      PROVE  \A j : j \in Listed(i) <=>
               /\ j \in i .. Len(Discovery)
               /\ checkpoint[Discovery[j]] # NoCheckpoint
  <2>1. i .. Len(Discovery) \subseteq 1 .. Len(Discovery)
    BY <1>1, Protocol
  <2> QED
    BY <2>1, Protocol DEF Listed, Anchored
<1>2. CASE Listed(i) = {}
  <2>1. Revalidate(r, FALSE)
    BY <1>2 DEF CheckAnchors
  <2>2. ASSUME r.start = tip
        PROVE  Kept(checkpoint, tip)
    <3> SUFFICES ASSUME NEW q \in Protocols, checkpoint[q] # NoCheckpoint
                 PROVE  checkpoint[q].block \in OnChain(tip)
      BY DEF Kept
    <3>1. PICK j \in 1 .. Len(Discovery) : Discovery[j] = q
      <4>1. DOMAIN Discovery = 1 .. Len(Discovery)
        BY BackfillAssumption, LenProperties
      <4> QED
        BY <4>1 DEF Protocols, Range
    <3>2. j \in 1 .. i - 1
      BY <1>1, <1>2, <2>2, <3>1, Protocol
    <3> QED
      BY <2>2, <3>1, <3>2
  <2> QED
    BY <2>1, <2>2, RevalidateLeaves
<1>3. CASE Listed(i) # {}
  <2> DEFINE next == Min(Listed(i))
  <2>1. ASSUME r.start = tip
        PROVE  next \in Listed(i) /\ \A j \in Listed(i) : next <= j
    <3>1. Listed(i) \subseteq Nat
      BY <2>1, Protocol DEF Listed
    <3> QED
      BY <1>3, <3>1, MinIs
  <2>2. ASSUME r.start = tip
        PROVE  /\ next \in i .. Len(Discovery)
               /\ checkpoint[Discovery[next]] # NoCheckpoint
               /\ i \in Nat \ {0}
    BY <1>1, <2>1, <2>2
  <2>3. \/ Height(AnchorAt(next)) > Height(r.start) /\ Revalidate(r, TRUE)
        \/ Goto("hash", [r EXCEPT !.at = next], job)
    BY <1>3, Zenon DEF CheckAnchors
  <2> HIDE DEF next
  <2>4. CASE Height(AnchorAt(next)) > Height(r.start) /\ Revalidate(r, TRUE)
    <3>1. ASSUME r.start = tip PROVE ~Kept(checkpoint, tip)
      <4>1. Discovery[next] \in Protocols
        BY <2>2, <3>1, Protocol
      <4> SUFFICES ASSUME AnchorAt(next) \in OnChain(tip) PROVE FALSE
        BY <2>2, <3>1, <4>1 DEF Kept, AnchorAt
      <4>2. Height(AnchorAt(next)) <= Height(tip) /\ AnchorAt(next) \in Blocks
        BY <4>1, ChainFacts
      <4>3. \A c \in Blocks : Height(c) \in Int
        BY ChainAssumption, LenProperties DEF Height
      <4> QED
        BY <2>4, <3>1, <4>2, <4>3
    <3> QED
      BY <2>4, <3>1, RevalidateLeaves
  <2>5. CASE Goto("hash", [r EXCEPT !.at = next], job)
    <3>1. pc' = "hash" /\ DOMAIN run' = Fields /\ run'.at = next /\ Same(r, run')
      BY <2>5, FieldsAre DEF Goto, Local, Same
    <3>2. Local(pc', run') /\ run'.start = r.start
      BY <3>1 DEF Local, Same
    <3>3. ASSUME r.start = tip
          PROVE  Established(pc', run', rec, tip, checkpoint)
      <4>1. \A j \in 1 .. next - 1 :
              checkpoint[Discovery[j]] # NoCheckpoint =>
                checkpoint[Discovery[j]].block \in OnChain(tip)
        <5> SUFFICES ASSUME NEW j \in 1 .. next - 1, checkpoint[Discovery[j]] # NoCheckpoint
                     PROVE  checkpoint[Discovery[j]].block \in OnChain(tip)
          OBVIOUS
        <5>1. j \in 1 .. Len(Discovery) /\ j \notin Listed(i)
          BY <2>1, <2>2, <3>3, Protocol
        <5>2. j \in 1 .. i - 1
          BY <1>1, <2>2, <3>3, <5>1, Protocol
        <5> QED
          BY <3>3, <5>1, <5>2
      <4>2. next \in 1 .. Len(Discovery)
        BY <2>2, <3>3, Protocol
      <4> QED
        BY <2>2, <3>1, <3>3, <4>1, <4>2 DEF Established
    <3> QED
      BY <3>2, <3>3 DEF Leaves
  <2> QED
    BY <2>3, <2>4, <2>5
<1> QED
  BY <1>2, <1>3

-----------------------------------------------------------------------------
(* Within a pass, while the tip is the one the run began with.             *)

Going(r, rec, b, cps) ==
  /\ r.reorg \in BOOLEAN /\ (r.reorg <=> ~Kept(cps, b))
  /\ r.at \in 1 .. Len(Discovery)
  /\ Reached(r, rec, b, cps, r.at - 1)
  /\ r.done \subseteq rec
  /\ Reading(r, rec, b, cps)

LEMMA HeadAndTail ==
  ASSUME NEW S, NEW s \in Seq(S), s # <<>>
  PROVE  Tail(s) \in Seq(S) /\ Range(s) \subseteq {Head(s)} \cup Range(Tail(s))
<1>1. Len(s) \in Nat /\ DOMAIN s = 1 .. Len(s)
  BY LenProperties
<1>2. /\ Tail(s) \in Seq(S) /\ Len(Tail(s)) = Len(s) - 1
      /\ \A i \in 1 .. Len(Tail(s)) : Tail(s)[i] = s[i + 1]
  BY HeadTailProperties
<1>3. DOMAIN Tail(s) = 1 .. Len(Tail(s))
  BY <1>2, LenProperties
<1>4. ASSUME NEW i \in DOMAIN s, i # 1
      PROVE  s[i] \in Range(Tail(s))
  <2>1. i - 1 \in DOMAIN Tail(s) /\ Tail(s)[i - 1] = s[i]
    BY <1>1, <1>2, <1>3, <1>4
  <2> QED
    BY <2>1 DEF Range
<1> QED
  BY <1>2, <1>4 DEF Range

LEMMA OnlyPage ==
  ASSUME NEW pages \in Seq(Nat), pages # <<>>, ~(Len(pages) > 1)
  PROVE  \A p \in Range(pages) : p = Head(pages)
<1>1. Len(pages) \in Nat \ {0} /\ DOMAIN pages = 1 .. Len(pages)
  BY EmptySeq, LenProperties
<1>2. Len(pages) = 1
  BY <1>1
<1> QED
  BY <1>1, <1>2 DEF Range

LEMMA PagesLeft ==
  ASSUME NEW pages \in Seq(Nat), Len(pages) > 1
  PROVE  /\ Tail(pages) \in Seq(Nat) /\ Tail(pages) # <<>>
         /\ \A p \in Range(pages) : p = Head(pages) \/ p \in Range(Tail(pages))
<1>1. Len(pages) \in Nat /\ pages # <<>>
  BY LenProperties
<1>2. /\ Tail(pages) \in Seq(Nat) /\ Len(Tail(pages)) = Len(pages) - 1
      /\ Range(pages) \subseteq {Head(pages)} \cup Range(Tail(pages))
  BY <1>1, HeadTailProperties, HeadAndTail
<1>3. Tail(pages) # <<>>
  <2> DEFINE t == Tail(pages)
  <2>1. Len(t) \in Nat /\ Len(t) >= 1
    BY <1>1, <1>2
  <2> HIDE DEF t
  <2>2. t # <<>>
    BY <2>1, EmptySeq
  <2> QED
    BY <2>2 DEF t
<1> QED
  BY <1>2, <1>3

(* A result that is sound by itself and as the claim of a checkpoint.      *)
LEMMA ResultIsSound ==
  ASSUME NEW b \in Blocks, NEW q \in Protocols, NEW rec, NEW cps, NEW reorg,
         Stored(cps, rec), reorg <=> ~Kept(cps, b),
         \A p \in Pages(PlanOf(reorg, cps, q, b)) : OnPage(History[b][q], p) \subseteq rec,
         NEW res, res = [cursor |-> PlanOf(reorg, cps, q, b).cursor,
                         history |-> Len(History[b][q]),
                         complete |-> PlanOf(reorg, cps, q, b).complete]
  PROVE  res \in Results /\ ResultSound(res, q, reorg, cps, b, rec)
<1> DEFINE plan == PlanOf(reorg, cps, q, b)
           h == History[b][q]
<1>1. /\ plan.cursor \in Nat /\ plan.complete \in BOOLEAN
      /\ \A i \in 1 .. plan.cursor : h[i] \in rec
  BY PassClaims
<1>2. Len(h) \in Nat
  BY ChainFacts, LenProperties
<1>3. res = [cursor |-> plan.cursor, history |-> Len(h), complete |-> plan.complete]
  OBVIOUS
<1> HIDE DEF plan, h
<1>4. res \in Results
  BY <1>1, <1>2, <1>3 DEF Results
<1>5. res.cursor = plan.cursor /\ res.history = Len(h)
  BY <1>3
<1>6. res.complete <=> plan.complete
  <2> DEFINE complete == plan.complete
  <2> HIDE DEF complete
  <2>1. res.complete = complete
    BY <1>3 DEF complete
  <2>2. res.complete <=> complete
    BY <2>1, Zenon
  <2> QED
    BY <2>2, Zenon DEF complete
<1> QED
  BY <1>1, <1>4, <1>5, <1>6, Zenon DEF ResultSound, plan, h

LEMMA PageDoneLeaves ==
  ASSUME NEW r, NEW rec, NEW jobs, tip \in Blocks, Stored(checkpoint, rec),
         Local("page", r), PageDone(r, jobs),
         r.start = tip =>
           /\ Going(r, rec, tip, checkpoint)
           /\ OnPage(History[tip][Discovery[r.at]], Head(r.pages)) \subseteq rec
  PROVE  Leaves(r, rec, tip, checkpoint)
<1>0. r.full /\ DOMAIN r = Fields
  BY DEF Local
<1>1. CASE Len(r.pages) > 1
  <2>1. pc' = "page" /\ run' = [r EXCEPT !.pages = Tail(@)]
    BY <1>1 DEF PageDone, Goto
  <2>2. DOMAIN run' = Fields /\ Same(r, run') /\ run'.pages = Tail(r.pages) /\ run'.at = r.at
    BY <1>0, <2>1, FieldsAre DEF Same
  <2>3. Local(pc', run') /\ run'.start = r.start
    BY <1>0, <2>1, <2>2 DEF Local, Same
  <2>4. ASSUME r.start = tip
        PROVE  Established(pc', run', rec, tip, checkpoint)
    <3>1. Going(r, rec, tip, checkpoint)
      BY <2>4
    <3>2. /\ r.pages \in Seq(Nat) /\ r.pages # <<>>
          /\ \A p \in Pages(PlanOf(r.reorg, checkpoint, Discovery[r.at], tip)) :
               p \in Range(r.pages) \/ OnPage(History[tip][Discovery[r.at]], p) \subseteq rec
      BY <3>1 DEF Going, Reading
    <3>3. /\ Tail(r.pages) \in Seq(Nat) /\ Tail(r.pages) # <<>>
          /\ \A p \in Range(r.pages) : p = Head(r.pages) \/ p \in Range(Tail(r.pages))
      BY <1>1, <3>2, PagesLeft
    <3>6. Reading(run', rec, tip, checkpoint)
      BY <2>2, <2>4, <3>1, <3>2, <3>3 DEF Same, Going, Reading
    <3>7. Reached(run', rec, tip, checkpoint, run'.at - 1)
      BY <2>2, <3>1, Zenon DEF Same, Going, Reached
    <3>8. /\ run'.reorg \in BOOLEAN /\ (run'.reorg <=> ~Kept(checkpoint, tip))
          /\ run'.at \in 1 .. Len(Discovery)
          /\ run'.done \subseteq rec
      BY <2>2, <3>1 DEF Same, Going
    <3> QED
      BY <2>1, <3>6, <3>7, <3>8 DEF Established
  <2> QED
    BY <2>3, <2>4 DEF Leaves
<1>2. CASE ~(Len(r.pages) > 1)
  <2> DEFINE result == PassResult(r)
             results == Append(r.results, result)
             s == [r EXCEPT !.results = results, !.pages = <<>>, !.count = NoCount,
                            !.done = {}]
  <2>1. Scan(s, r.at + 1, jobs)
    BY <1>2 DEF PageDone
  <2> HIDE DEF results
  <2>2. /\ DOMAIN s = Fields /\ s.start = r.start /\ s.reorg = r.reorg /\ s.full = r.full
        /\ s.results = results /\ s.done = {} /\ s.count = NoCount
    BY <1>0, FieldsAre
  <2> HIDE DEF s
  <2>3. Scanned(s, r.at + 1)
    BY <2>1, <2>2, ScanGoes
  <2>4. ASSUME r.start = tip
        PROVE  /\ r.at \in 1 .. Len(Discovery)
               /\ s.reorg \in BOOLEAN /\ (s.reorg <=> ~Kept(checkpoint, tip))
               /\ Reached(s, rec, tip, checkpoint, r.at)
    <3> DEFINE q == Discovery[r.at]
    <3>1. Going(r, rec, tip, checkpoint)
      BY <2>4
    <3>2. r.at \in 1 .. Len(Discovery) /\ q \in Protocols
      BY <3>1, Protocol DEF Going
    <3>3. /\ r.pages \in Seq(Nat) /\ r.pages # <<>> /\ r.count = Len(History[tip][q])
          /\ \A p \in Pages(PlanOf(r.reorg, checkpoint, q, tip)) :
               p \in Range(r.pages) \/ OnPage(History[tip][q], p) \subseteq rec
      BY <3>1 DEF Going, Reading
    <3>4. \A p \in Range(r.pages) : p = Head(r.pages)
      BY <1>2, <3>3, OnlyPage
    <3>5. \A p \in Pages(PlanOf(r.reorg, checkpoint, q, tip)) :
            OnPage(History[tip][q], p) \subseteq rec
      BY <2>4, <3>3, <3>4
    <3>6. result = [cursor |-> PlanOf(r.reorg, checkpoint, q, tip).cursor,
                    history |-> Len(History[tip][q]),
                    complete |-> PlanOf(r.reorg, checkpoint, q, tip).complete]
      BY <3>3 DEF PassResult, PlanOf, Saved, SavedOf
    <3> HIDE DEF q, result
    <3>7. r.reorg <=> ~Kept(checkpoint, tip)
      BY <3>1 DEF Going
    <3>8. result \in Results /\ ResultSound(result, q, r.reorg, checkpoint, tip, rec)
      BY <3>2, <3>5, <3>6, <3>7, ResultIsSound
    <3>9. /\ r.results \in Seq(Results) /\ Len(r.results) = r.at - 1
          /\ \A j \in 1 .. r.at - 1 :
               ResultSound(r.results[j], Discovery[j], r.reorg, checkpoint, tip, rec)
      BY <3>1 DEF Going, Reached
    <3>10. /\ results \in Seq(Results) /\ Len(results) = r.at
           /\ \A j \in 1 .. r.at - 1 : results[j] = r.results[j]
           /\ results[r.at] = result
      <4>1. /\ results \in Seq(Results)
            /\ Len(results) = Len(r.results) + 1
            /\ \A j \in 1 .. Len(r.results) : results[j] = r.results[j]
            /\ results[Len(r.results) + 1] = result
        BY <3>8, <3>9, AppendProperties DEF results, result
      <4> QED
        BY <3>2, <3>9, <4>1
    <3>11. ASSUME NEW j \in 1 .. r.at
           PROVE  ResultSound(results[j], Discovery[j], r.reorg, checkpoint, tip, rec)
      <4>1. CASE j = r.at
        BY <3>8, <3>10, <4>1 DEF q
      <4>2. CASE j # r.at
        <5>1. j \in 1 .. r.at - 1
          BY <3>2, <4>2, Protocol
        <5> QED
          BY <3>9, <3>10, <5>1
      <4> QED
        BY <4>1, <4>2
    <3>12. Reached(s, rec, tip, checkpoint, r.at)
      BY <2>2, <3>10, <3>11, Zenon DEF Reached
    <3>13. s.reorg \in BOOLEAN /\ (s.reorg <=> ~Kept(checkpoint, tip))
      BY <2>2, <3>1 DEF Going
    <3> QED
      BY <3>2, <3>12, <3>13
  <2>5. Leaves(s, rec, tip, checkpoint)
    <3>1. CASE s.start = tip
      <4> DEFINE i == r.at + 1
      <4>1. i \in Nat /\ i \in 1 .. Len(Discovery) + 1 /\ i - 1 = r.at
        BY <2>2, <2>4, <3>1, Protocol
      <4>2. Scanned(s, i)
        BY <2>3
      <4> HIDE DEF i
      <4>3. s.reorg \in BOOLEAN /\ (s.reorg <=> ~Kept(checkpoint, tip)) /\ s.full
        BY <1>0, <2>2, <2>4, <3>1
      <4>4. s.done \subseteq rec /\ s.count = NoCount
        BY <2>2
      <4>5. Reached(s, rec, tip, checkpoint, i - 1)
        BY <2>2, <2>4, <3>1, <4>1
      <4> QED
        BY <4>1, <4>2, <4>3, <4>4, <4>5, ScanLeaves
    <3>2. CASE s.start # tip
      <4>1. Local(pc', run') /\ run'.start = s.start
        BY <1>0, <2>2, <2>3 DEF Scanned, Same, Local
      <4> QED
        BY <3>2, <4>1 DEF Leaves
    <3> QED
      BY <3>1, <3>2
  <2> QED
    BY <2>2, <2>5 DEF Leaves
<1> QED
  BY <1>1, <1>2

LEMMA NextTxLeaves ==
  ASSUME NEW r, NEW rec, NEW jobs, tip \in Blocks, Stored(checkpoint, rec),
         Local("page", r), NextTx(r, jobs),
         r.start = tip =>
           Going(r, rec, tip, checkpoint) /\ Remaining(r, rec, tip)
  PROVE  Leaves(r, rec, tip, checkpoint)
<1> DEFINE left == {i \in DOMAIN r.todo : r.todo[i] \notin r.done}
<1>0. r.full /\ DOMAIN r = Fields
  BY DEF Local
<1>1. CASE left = {}
  <2> DEFINE s == [r EXCEPT !.todo = <<>>]
  <2>1. PageDone(s, jobs)
    BY <1>1 DEF NextTx
  <2>2. DOMAIN s = Fields /\ Same(r, s) /\ s.pages = r.pages /\ s.at = r.at
    BY <1>0, FieldsAre DEF Same
  <2> HIDE DEF s
  <2>3. Local("page", s) /\ s.start = r.start
    BY <1>0, <2>2 DEF Local, Same
  <2>4. ASSUME s.start = tip
        PROVE  /\ Going(s, rec, tip, checkpoint)
               /\ OnPage(History[tip][Discovery[s.at]], Head(s.pages)) \subseteq rec
    <3>1. Going(r, rec, tip, checkpoint) /\ Remaining(r, rec, tip)
      BY <2>3, <2>4
    <3>2. Range(r.todo) \subseteq rec
      BY <1>1, <3>1 DEF Range, Going
    <3>3. OnPage(History[tip][Discovery[s.at]], Head(s.pages)) \subseteq rec
      BY <2>2, <3>1, <3>2 DEF Remaining
    <3>4. Reached(s, rec, tip, checkpoint, s.at - 1)
      BY <2>2, <3>1, Zenon DEF Same, Going, Reached
    <3>5. Reading(s, rec, tip, checkpoint)
      BY <2>2, <3>1 DEF Same, Going, Reading
    <3>6. /\ s.reorg \in BOOLEAN /\ (s.reorg <=> ~Kept(checkpoint, tip))
          /\ s.at \in 1 .. Len(Discovery) /\ s.done \subseteq rec
      BY <2>2, <3>1 DEF Same, Going
    <3> QED
      BY <3>3, <3>4, <3>5, <3>6 DEF Going
  <2>5. Leaves(s, rec, tip, checkpoint)
    BY <2>1, <2>3, <2>4, PageDoneLeaves
  <2> QED
    BY <2>3, <2>5 DEF Leaves
<1>2. CASE left # {}
  <2> DEFINE rest == SubSeq(r.todo, Min(left), Len(r.todo))
  <2>1. pc' = "tx" /\ run' = [r EXCEPT !.todo = rest]
    BY <1>2 DEF NextTx, Goto
  <2> HIDE DEF rest
  <2>2. DOMAIN run' = Fields /\ Same(r, run') /\ run'.pages = r.pages /\ run'.at = r.at
        /\ run'.todo = rest
    BY <1>0, <2>1, FieldsAre DEF Same
  <2>3. Local(pc', run') /\ run'.start = r.start
    BY <1>0, <2>1, <2>2 DEF Local, Same
  <2>4. ASSUME r.start = tip
        PROVE  Established(pc', run', rec, tip, checkpoint)
    <3>1. Going(r, rec, tip, checkpoint) /\ Remaining(r, rec, tip)
      BY <2>4
    <3>2. /\ r.todo \in Seq(Txids)
          /\ OnPage(History[tip][Discovery[r.at]], Head(r.pages)) \subseteq rec \cup Range(r.todo)
          /\ DOMAIN r.todo = 1 .. Len(r.todo) /\ Len(r.todo) \in Nat
      BY <3>1, LenProperties DEF Remaining
    <3>3. Min(left) \in left /\ \A i \in left : Min(left) <= i
      <4>1. left \subseteq Nat
        BY <3>2
      <4> QED
        BY <1>2, <4>1, MinIs
    <3> DEFINE m == Min(left)
               n == Len(r.todo)
    <3>4. m \in 1 .. n /\ \A i \in 1 .. n : i < m => r.todo[i] \in r.done
      <4>1. m \in 1 .. n
        BY <3>2, <3>3
      <4>2. ASSUME NEW i \in 1 .. n, i < m, r.todo[i] \notin r.done PROVE FALSE
        <5>1. i \in left
          BY <3>2, <4>2
        <5>2. m <= i
          BY <3>3, <5>1
        <5> HIDE DEF m, n
        <5> QED
          BY <3>2, <4>1, <4>2, <5>2 DEF n
      <4> QED
        BY <4>1, <4>2
    <3>5. n \in Nat /\ \A i \in m .. n : r.todo[i] \in Txids
      <4>1. \A i \in m .. n : i \in 1 .. Len(r.todo)
        BY <3>2, <3>4
      <4> QED
        BY <3>2, <4>1, ElementOfSeq
    <3>6. rest = SubSeq(r.todo, m, n)
      BY DEF rest
    <3> HIDE DEF m, n, left
    <3>7. /\ rest \in Seq(Txids) /\ Len(rest) = n - m + 1
          /\ \A i \in 1 .. n - m + 1 : rest[i] = r.todo[m + i - 1]
      BY <3>4, <3>5, <3>6, SubSeqProperties
    <3>8. rest # <<>> /\ DOMAIN rest = 1 .. n - m + 1
      BY <3>4, <3>5, <3>7, EmptySeq, LenProperties
    <3>9. Range(r.todo) \subseteq rec \cup Range(rest)
      <4> SUFFICES ASSUME NEW i \in 1 .. n, ~(i < m)
                   PROVE  r.todo[i] \in Range(rest)
        BY <3>1, <3>2, <3>4 DEF Range, Going, n
      <4>1. i - m + 1 \in DOMAIN rest /\ m + (i - m + 1) - 1 = i
        BY <3>4, <3>5, <3>8
      <4>2. rest[i - m + 1] = r.todo[i]
        BY <3>7, <3>8, <4>1
      <4> QED
        BY <4>1, <4>2 DEF Range
    <3>10. Remaining(run', rec, tip) /\ run'.todo # <<>>
      BY <2>2, <3>2, <3>7, <3>8, <3>9 DEF Remaining
    <3>11. Reached(run', rec, tip, checkpoint, run'.at - 1)
      BY <2>2, <3>1, Zenon DEF Same, Going, Reached
    <3>12. Reading(run', rec, tip, checkpoint)
      BY <2>2, <3>1 DEF Same, Going, Reading
    <3>13. /\ run'.reorg \in BOOLEAN /\ (run'.reorg <=> ~Kept(checkpoint, tip))
           /\ run'.at \in 1 .. Len(Discovery) /\ run'.done \subseteq rec
      BY <2>2, <3>1 DEF Same, Going
    <3> QED
      BY <2>1, <3>10, <3>11, <3>12, <3>13 DEF Established
  <2> QED
    BY <2>3, <2>4 DEF Leaves
<1> QED
  BY <1>1, <1>2

-----------------------------------------------------------------------------
(* The steps.                                                              *)

(* The tip never returns to a block it left.                               *)
Upwards(Rank) ==
  /\ Rank \in [Blocks -> Nat]
  /\ \A m \in Moves : Rank[m[1]] < Rank[m[2]]

LEMMA StoredGrows ==
  ASSUME NEW cps, NEW rec, NEW later, rec \subseteq later, Stored(cps, rec)
  PROVE  Stored(cps, later)
BY DEF Stored, Sound

LEMMA EstablishedGrows ==
  ASSUME NEW place, NEW r, NEW rec, NEW b, NEW cps, NEW later, rec \subseteq later,
         Established(place, r, rec, b, cps)
  PROVE  Established(place, r, later, b, cps)
<1>1. ASSUME NEW n, Reached(r, rec, b, cps, n)
      PROVE  Reached(r, later, b, cps, n)
  BY <1>1 DEF Reached, ResultSound
<1>2. Reading(r, rec, b, cps) => Reading(r, later, b, cps)
  BY DEF Reading
<1>3. Remaining(r, rec, b) => Remaining(r, later, b)
  BY DEF Remaining
<1> QED
  BY <1>1, <1>2, <1>3 DEF Established

(* A step that leaves the tip and the checkpoints alone.                   *)
LEMMA StepKeeps ==
  ASSUME NEW Rank, IInv(Rank), NEW r, Begun(Rank, r.start, tip),
         Leaves(r, recorded', tip, checkpoint),
         UNCHANGED <<tip, checkpoint>>, recorded \subseteq recorded',
         DOMAIN status' = {"state", "complete"}
  PROVE  IInv(Rank)'
<1>1. Local(pc, run)'
  BY DEF Leaves
<1>2. Begun(Rank, run'.start, tip')
  BY DEF Leaves, Begun
<1>3. Stored(checkpoint', recorded')
  BY StoredGrows DEF IInv
<1>4. run'.start = tip' => Established(pc', run', recorded', tip', checkpoint')
  BY DEF Leaves
<1> QED
  BY <1>1, <1>2, <1>3, <1>4 DEF IInv

LEMMA ThrowKeeps ==
  ASSUME NEW Rank, IInv(Rank), NEW jobs, Throw(jobs), UNCHANGED <<tip, checkpoint>>,
         recorded \subseteq recorded'
  PROVE  IInv(Rank)'
<1>1. pc' = "idle" /\ run' = Blank
  BY DEF Throw, Return, Goto
<1>2. DOMAIN status' = {"state", "complete"}
  BY DEF Throw, IInv
<1>3. Leaves(run, recorded', tip, checkpoint)
  BY <1>1, BlankLeaves DEF IInv
<1> QED
  BY <1>2, <1>3, StepKeeps DEF IInv

(* The run, where it waits and what it waits for are as before.            *)
LEMMA StillKeeps ==
  ASSUME NEW Rank, IInv(Rank), UNCHANGED <<tip, checkpoint, pc, run, status>>,
         recorded \subseteq recorded'
  PROVE  IInv(Rank)'
<1>1. Leaves(run, recorded', tip, checkpoint)
  BY EstablishedGrows DEF IInv, Leaves
<1> QED
  BY <1>1, StepKeeps DEF IInv

LEMMA TipMoveKeeps ==
  ASSUME NEW Rank, Upwards(Rank), IInv(Rank), NEW b \in Blocks, TipMove(b)
  PROVE  IInv(Rank)'
<1>1. /\ tip' = b /\ <<tip, b>> \in Moves /\ Rank[tip] < Rank[b]
      /\ UNCHANGED <<recorded, checkpoint, pc, run, status>>
  BY DEF TipMove, Upwards
<1>2. Begun(Rank, run.start, b) /\ run.start # b
  <2>1. \A c \in Blocks : Rank[c] \in Nat
    BY DEF Upwards
  <2>2. NoBlock # b
    BY BackfillAssumption
  <2> QED
    BY <1>1, <2>1, <2>2 DEF IInv, Begun
<1> QED
  BY <1>1, <1>2 DEF IInv

LEMMA BeginFullKeeps ==
  ASSUME NEW Rank, IInv(Rank), NEW n, pc' = "tip",
         run' = [Blank EXCEPT !.full = TRUE, !.attempt = n],
         UNCHANGED <<tip, checkpoint, recorded>>, DOMAIN status' = {"state", "complete"}
  PROVE  IInv(Rank)'
<1>1. /\ DOMAIN run' = Fields /\ run'.full /\ run'.results = <<>> /\ run'.done = {}
      /\ run'.count = NoCount /\ run'.start = NoBlock
  BY DEF Blank, Fields
<1>2. Local(pc', run')
  BY <1>1 DEF Local
<1>3. NoBlock # tip
  BY BackfillAssumption DEF IInv
<1>4. Leaves(run, recorded', tip, checkpoint)
  BY <1>1, <1>2, <1>3 DEF Leaves
<1> QED
  BY <1>4, StepKeeps DEF IInv

LEMMA BeginReorgKeeps ==
  ASSUME NEW Rank, IInv(Rank), NEW h, BeginReorg(h)
  PROVE  IInv(Rank)'
<1> DEFINE r == [Blank EXCEPT !.min = h]
<1>1. /\ ListRows(row, r, job)
      /\ UNCHANGED <<tip, recorded, checkpoint, status>>
  BY DEF BeginReorg
<1>2. /\ DOMAIN r = Fields /\ ~r.full /\ r.results = <<>> /\ r.done = {}
      /\ r.count = NoCount /\ r.start = NoBlock
  BY DEF Blank, Fields
<1> HIDE DEF r
<1>3. Local("row", r) /\ r.start # tip
  BY <1>2, BackfillAssumption DEF Local, IInv
<1>4. Leaves(r, recorded', tip, checkpoint)
  BY <1>1, <1>2, <1>3, ListRowsGoes, ListingLeaves DEF IInv
<1>5. Begun(Rank, r.start, tip)
  BY <1>2 DEF Begun
<1> QED
  BY <1>1, <1>4, <1>5, StepKeeps DEF IInv

LEMMA ReadStartTipKeeps ==
  ASSUME NEW Rank, IInv(Rank), ReadStartTip
  PROVE  IInv(Rank)'
<1> DEFINE r == [run EXCEPT !.start = tip]
<1>1. /\ pc = "tip" /\ CheckAnchors(r, 1)
      /\ UNCHANGED <<tip, recorded, checkpoint, status>>
  BY DEF ReadStartTip
<1>2. /\ DOMAIN r = Fields /\ r.full = run.full /\ r.results = run.results
      /\ r.done = run.done /\ r.count = run.count /\ r.start = tip
  BY FieldsAre DEF IInv, Local
<1> HIDE DEF r
<1>3. Local("hash", r)
  BY <1>1, <1>2 DEF Local, IInv
<1>4. Leaves(r, recorded', tip, checkpoint)
  BY <1>1, <1>3, CheckAnchorsLeaves DEF IInv
<1>5. Begun(Rank, r.start, tip)
  BY <1>2 DEF Begun, IInv
<1> QED
  BY <1>1, <1>4, <1>5, StepKeeps DEF IInv

LEMMA ReadHashKeeps ==
  ASSUME NEW Rank, IInv(Rank), ReadHash
  PROVE  IInv(Rank)'
<1> DEFINE anchor == AnchorAt(run.at)
<1>1. /\ pc = "hash" /\ UNCHANGED <<tip, recorded, checkpoint>>
      /\ \/ Throw(job)
         \/ /\ UNCHANGED status
            /\ \/ anchor \in OnChain(tip) /\ CheckAnchors(run, run.at + 1)
               \/ anchor \notin OnChain(tip) /\ Revalidate(run, TRUE)
  BY DEF ReadHash
<1>2. Local("hash", run) /\ tip \in Blocks /\ Begun(Rank, run.start, tip)
  BY <1>1 DEF IInv
<1>3. ASSUME run.start = tip
      PROVE  /\ run.at \in 1 .. Len(Discovery)
             /\ checkpoint[Discovery[run.at]] # NoCheckpoint
             /\ \A j \in 1 .. run.at - 1 :
                  checkpoint[Discovery[j]] # NoCheckpoint =>
                    checkpoint[Discovery[j]].block \in OnChain(tip)
  BY <1>1, <1>3 DEF IInv, Established
<1>4. CASE Throw(job)
  BY <1>1, <1>4, ThrowKeeps
<1>5. CASE UNCHANGED status /\ anchor \in OnChain(tip) /\ CheckAnchors(run, run.at + 1)
  <2> DEFINE i == run.at + 1
  <2>1. CheckAnchors(run, i)
    BY <1>5
  <2>2. ASSUME run.start = tip
        PROVE  /\ i \in Nat \ {0}
               /\ \A j \in 1 .. i - 1 :
                    /\ j \in 1 .. Len(Discovery)
                    /\ checkpoint[Discovery[j]] # NoCheckpoint
                    =>
                      checkpoint[Discovery[j]].block \in OnChain(tip)
    <3>1. i \in Nat \ {0} /\ \A j \in 1 .. i - 1 : j = run.at \/ j \in 1 .. run.at - 1
      BY <1>3, <2>2, Protocol
    <3> QED
      BY <1>3, <1>5, <2>2, <3>1 DEF AnchorAt
  <2> HIDE DEF i
  <2>3. Leaves(run, recorded', tip, checkpoint)
    BY <1>2, <2>1, <2>2, CheckAnchorsLeaves
  <2> QED
    BY <1>1, <1>2, <1>5, <2>3, StepKeeps DEF IInv
<1>6. CASE UNCHANGED status /\ anchor \notin OnChain(tip) /\ Revalidate(run, TRUE)
  <2>1. ASSUME run.start = tip
        PROVE  ~Kept(checkpoint, tip)
    BY <1>3, <1>6, <2>1, Protocol DEF Kept, AnchorAt
  <2>2. Leaves(run, recorded', tip, checkpoint)
    BY <1>2, <1>6, <2>1, RevalidateLeaves
  <2> QED
    BY <1>1, <1>2, <1>6, <2>2, StepKeeps DEF IInv
<1> QED
  BY <1>1, <1>4, <1>5, <1>6

LEMMA ZeroFirst ==
  ASSUME NEW more \in Seq(Nat), NEW pages, pages = << 0 >> \o more
  PROVE  /\ pages \in Seq(Nat) /\ Len(pages) = 1 + Len(more)
         /\ pages[1] = 0
         /\ \A i \in 1 .. Len(more) : pages[i + 1] = more[i]
<1> DEFINE zero == << 0 >>
<1>1. zero \in Seq(Nat) /\ Len(zero) = 1 /\ zero[1] = 0
  OBVIOUS
<1>2. Len(more) \in Nat /\ pages = zero \o more
  BY LenProperties
<1> HIDE DEF zero
<1>3. /\ pages \in Seq(Nat) /\ Len(pages) = Len(zero) + Len(more)
      /\ \A i \in 1 .. Len(zero) + Len(more) :
           pages[i] = IF i <= Len(zero) THEN zero[i] ELSE more[i - Len(zero)]
  BY <1>1, <1>2, ConcatProperties
<1>4. pages[1] = 0
  BY <1>1, <1>2, <1>3
<1>5. ASSUME NEW i \in 1 .. Len(more) PROVE pages[i + 1] = more[i]
  <2>1. i + 1 \in 1 .. Len(zero) + Len(more) /\ ~(i + 1 <= Len(zero)) /\ i + 1 - Len(zero) = i
    BY <1>1, <1>2
  <2> QED
    BY <1>3, <2>1
<1> QED
  BY <1>1, <1>3, <1>4, <1>5

(* The first page tells how long the history is, and so which follow.      *)
LEMMA FirstPage ==
  ASSUME NEW b \in Blocks, NEW r, NEW rec, NEW cps, Stored(cps, rec),
         r.reorg <=> ~Kept(cps, b), r.at \in 1 .. Len(Discovery),
         NEW q, q = Discovery[r.at],
         NEW pages, pages = << 0 >> \o PlanOf(r.reorg, cps, q, b).more
  PROVE  /\ pages \in Seq(Nat) /\ pages # <<>> /\ Head(pages) = 0
         /\ \A p \in Pages(PlanOf(r.reorg, cps, q, b)) : p \in Range(pages)
<1> DEFINE cp == SavedOf(r.reorg, cps, q)
           total == Len(History[b][q])
           more == PlanOf(r.reorg, cps, q, b).more
<1>1. q \in Protocols /\ total \in Nat
  BY Protocol, ChainFacts, LenProperties
<1>2. cp = NoCheckpoint \/ Counts(cp)
  BY <1>1 DEF Stored, SavedOf, Sound
<1> HIDE DEF cp, total
<1>3. Plan(cp, total).more \in Seq(Nat)
  BY <1>1, <1>2, PlanIsSound DEF PlanFits
<1>4. more \in Seq(Nat)
  BY <1>3 DEF PlanOf, cp, total
<1>5. pages = << 0 >> \o more
  OBVIOUS
<1>6. Pages(PlanOf(r.reorg, cps, q, b)) = {0} \cup {more[i] : i \in DOMAIN more}
  BY DEF Pages
<1> HIDE DEF more
<1>8. /\ pages \in Seq(Nat) /\ Len(pages) = 1 + Len(more)
      /\ pages[1] = 0
      /\ \A i \in 1 .. Len(more) : pages[i + 1] = more[i]
  BY <1>4, <1>5, ZeroFirst
<1>9. /\ DOMAIN pages = 1 .. Len(pages) /\ DOMAIN more = 1 .. Len(more)
      /\ Len(more) \in Nat
  BY <1>4, <1>8, LenProperties
<1>10. pages # <<>> /\ Head(pages) = 0
  BY <1>8, <1>9, EmptySeq
<1>11. 0 \in Range(pages)
  BY <1>8, <1>9 DEF Range
<1>12. ASSUME NEW i \in DOMAIN more PROVE more[i] \in Range(pages)
  <2>1. i + 1 \in DOMAIN pages /\ pages[i + 1] = more[i]
    BY <1>8, <1>9
  <2> QED
    BY <2>1 DEF Range
<1> QED
  BY <1>6, <1>8, <1>10, <1>11, <1>12

LEMMA ReadPageKeeps ==
  ASSUME NEW Rank, IInv(Rank), ReadPage
  PROVE  IInv(Rank)'
<1> DEFINE q == Discovery[run.at]
           h == History[tip][q]
           todo == PageOf(h, Head(run.pages))
           pages == << 0 >> \o Plan(Saved(run), Len(h)).more
           first == [run EXCEPT !.count = Len(h), !.todo = todo, !.pages = pages]
           later == [run EXCEPT !.todo = todo]
<1>1. /\ pc = "page" /\ UNCHANGED <<tip, recorded, checkpoint>>
      /\ \/ run.count = NoCount /\ NextTx(first, job) /\ UNCHANGED status
         \/ run.count = Len(h) /\ NextTx(later, job) /\ UNCHANGED status
         \/ Throw(job)
  BY DEF ReadPage
<1> HIDE DEF todo, pages
<1>2. DOMAIN first = Fields /\ first.start = run.start /\ first.reorg = run.reorg
      /\ first.full = run.full /\ first.results = run.results /\ first.done = run.done
      /\ first.at = run.at /\ first.count = Len(h) /\ first.todo = todo
      /\ first.pages = pages
  BY FieldsAre DEF IInv, Local
<1>3. DOMAIN later = Fields /\ Same(run, later) /\ later.at = run.at
      /\ later.todo = todo /\ later.pages = run.pages
  BY FieldsAre DEF IInv, Local, Same
<1> HIDE DEF first, later
<1>4. Local("page", run) /\ tip \in Blocks /\ Begun(Rank, run.start, tip)
      /\ Stored(checkpoint, recorded) /\ DOMAIN status = {"state", "complete"}
  BY <1>1 DEF IInv
<1>5. ASSUME run.start = tip
      PROVE  /\ run.reorg \in BOOLEAN /\ (run.reorg <=> ~Kept(checkpoint, tip))
             /\ run.at \in 1 .. Len(Discovery) /\ q \in Protocols
             /\ Reached(run, recorded, tip, checkpoint, run.at - 1)
             /\ run.done \subseteq recorded
             /\ \/ run.count = NoCount /\ run.pages = << 0 >>
                \/ Reading(run, recorded, tip, checkpoint)
             /\ h \in Seq(Txids) /\ Len(h) \in Nat
  <2>1. Established("page", run, recorded, tip, checkpoint)
    BY <1>1, <1>5 DEF IInv
  <2>2. run.at \in 1 .. Len(Discovery)
    BY <2>1 DEF Established
  <2>3. q \in Protocols
    BY <2>2, Protocol
  <2>4. h \in Seq(Txids) /\ Len(h) \in Nat
    BY <1>4, <2>3, ChainFacts, LenProperties
  <2> QED
    BY <2>1, <2>3, <2>4 DEF Established
<1>6. CASE run.count = NoCount /\ NextTx(first, job) /\ UNCHANGED status
  <2>1. Local("page", first)
    BY <1>2, <1>4 DEF Local
  <2>2. ASSUME first.start = tip
        PROVE  Going(first, recorded, tip, checkpoint) /\ Remaining(first, recorded, tip)
    <3>1. run.start = tip
      BY <1>2, <2>2
    <3>2. run.pages = << 0 >>
      BY <1>5, <1>6, <3>1 DEF Reading, NoCount
    <3>3. pages = << 0 >> \o PlanOf(run.reorg, checkpoint, q, tip).more
      BY DEF pages, PlanOf, Saved, SavedOf
    <3>4. /\ pages \in Seq(Nat) /\ pages # <<>> /\ Head(pages) = 0
          /\ \A p \in Pages(PlanOf(run.reorg, checkpoint, q, tip)) : p \in Range(pages)
      BY <1>4, <1>5, <3>1, <3>3, FirstPage
    <3>5. todo \in Seq(Txids) /\ OnPage(h, 0) \subseteq Range(todo)
      <4>1. todo = PageOf(h, 0)
        BY <3>2 DEF todo
      <4> QED
        BY <1>5, <3>1, <4>1, PageHolds
    <3>6. Reading(first, recorded, tip, checkpoint)
      BY <1>2, <3>4 DEF Reading
    <3>7. Reached(first, recorded, tip, checkpoint, first.at - 1)
      BY <1>2, <1>5, <3>1, Zenon DEF Reached
    <3>8. Remaining(first, recorded, tip)
      BY <1>2, <3>4, <3>5 DEF Remaining
    <3>9. /\ first.reorg \in BOOLEAN /\ (first.reorg <=> ~Kept(checkpoint, tip))
          /\ first.at \in 1 .. Len(Discovery) /\ first.done \subseteq recorded
      BY <1>2, <1>5, <3>1
    <3> QED
      BY <3>6, <3>7, <3>8, <3>9 DEF Going
  <2>3. Leaves(first, recorded, tip, checkpoint)
    BY <1>4, <1>6, <2>1, <2>2, NextTxLeaves
  <2>4. Begun(Rank, first.start, tip)
    BY <1>2, <1>4
  <2> QED
    BY <1>1, <1>4, <1>6, <2>3, <2>4, StepKeeps
<1>7. CASE run.count = Len(h) /\ NextTx(later, job) /\ UNCHANGED status
  <2>1. Local("page", later) /\ later.start = run.start
    BY <1>3, <1>4 DEF Local, Same
  <2>2. ASSUME later.start = tip
        PROVE  Going(later, recorded, tip, checkpoint) /\ Remaining(later, recorded, tip)
    <3>1. run.start = tip
      BY <2>1, <2>2
    <3>2. Reading(run, recorded, tip, checkpoint)
      BY <1>5, <1>7, <3>1 DEF NoCount
    <3>3. Head(run.pages) \in Nat
      BY <3>2, HeadTailProperties DEF Reading
    <3>4. todo \in Seq(Txids) /\ OnPage(h, Head(run.pages)) \subseteq Range(todo)
      BY <1>5, <3>1, <3>3, PageHolds DEF todo
    <3>5. Reading(later, recorded, tip, checkpoint)
      BY <1>3, <3>2 DEF Same, Reading
    <3>6. Reached(later, recorded, tip, checkpoint, later.at - 1)
      BY <1>3, <1>5, <3>1, Zenon DEF Same, Reached
    <3>7. Remaining(later, recorded, tip)
      BY <1>3, <3>4 DEF Remaining
    <3>8. /\ later.reorg \in BOOLEAN /\ (later.reorg <=> ~Kept(checkpoint, tip))
          /\ later.at \in 1 .. Len(Discovery) /\ later.done \subseteq recorded
      BY <1>3, <1>5, <3>1 DEF Same
    <3> QED
      BY <3>5, <3>6, <3>7, <3>8 DEF Going
  <2>3. Leaves(later, recorded, tip, checkpoint)
    BY <1>4, <1>7, <2>1, <2>2, NextTxLeaves
  <2> QED
    BY <1>1, <1>4, <1>7, <2>1, <2>3, StepKeeps
<1>8. CASE Throw(job)
  BY <1>1, <1>8, ThrowKeeps
<1> QED
  BY <1>1, <1>6, <1>7, <1>8

LEMMA PersistKeeps ==
  ASSUME NEW Rank, IInv(Rank), NEW t \in Txids, Persist(t)
  PROVE  IInv(Rank)'
<1> DEFINE jobs == [job EXCEPT ![t] = NoJob]
           r == [run EXCEPT !.todo = Tail(@), !.done = @ \cup {t}]
<1>1. /\ UNCHANGED <<tip, checkpoint>> /\ recorded \subseteq recorded'
      /\ Durable(t, job[t]) => recorded' = recorded \cup {t}
  BY DEF Persist
<1>2. \/ UNCHANGED <<pc, run, status>>
      \/ AwaitsRow(t) /\ NextRow(row', jobs) /\ UNCHANGED status
      \/ AwaitsTx(t) /\ Durable(t, job[t]) /\ NextTx(r, jobs) /\ UNCHANGED status
      \/ Throw(jobs)
  BY DEF Persist
<1> HIDE DEF jobs
<1>3. /\ tip \in Blocks /\ Local(pc, run) /\ Begun(Rank, run.start, tip)
      /\ DOMAIN status = {"state", "complete"} /\ DOMAIN run = Fields
      /\ Stored(checkpoint, recorded')
  BY <1>1, StoredGrows DEF IInv, Local
<1>4. run.start = tip => Established(pc, run, recorded', tip, checkpoint)
  BY <1>1, EstablishedGrows DEF IInv
<1>5. CASE UNCHANGED <<pc, run, status>>
  BY <1>1, <1>5, StillKeeps
<1>6. CASE AwaitsRow(t) /\ NextRow(row', jobs) /\ UNCHANGED status
  <2>1. pc = "row" /\ Local("row", run)
    BY <1>3, <1>6 DEF AwaitsRow
  <2>2. run.start = tip => run.reorg \in BOOLEAN /\ (run.reorg <=> ~Kept(checkpoint, tip))
    BY <1>4, <2>1 DEF Established
  <2>3. Listing(run)
    BY <1>3, <1>6, NextRowGoes
  <2>4. Leaves(run, recorded', tip, checkpoint)
    BY <1>3, <2>1, <2>2, <2>3, ListingLeaves
  <2> QED
    BY <1>1, <1>3, <1>6, <2>4, StepKeeps
<1>7. CASE AwaitsTx(t) /\ Durable(t, job[t]) /\ NextTx(r, jobs) /\ UNCHANGED status
  <2>1. pc = "tx" /\ Head(run.todo) = t /\ recorded' = recorded \cup {t}
    BY <1>1, <1>7 DEF AwaitsTx
  <2>2. /\ DOMAIN r = Fields /\ r.start = run.start /\ r.reorg = run.reorg
        /\ r.full = run.full /\ r.results = run.results /\ r.count = run.count
        /\ r.at = run.at /\ r.pages = run.pages
        /\ r.todo = Tail(run.todo) /\ r.done = run.done \cup {t}
    BY <1>3, FieldsAre
  <2> HIDE DEF r
  <2>3. Local("page", r)
    BY <1>3, <2>1, <2>2 DEF Local
  <2>4. ASSUME r.start = tip
        PROVE  Going(r, recorded', tip, checkpoint) /\ Remaining(r, recorded', tip)
    <3>1. Established("tx", run, recorded', tip, checkpoint)
      BY <1>4, <2>1, <2>2, <2>4
    <3>2. /\ run.reorg \in BOOLEAN /\ (run.reorg <=> ~Kept(checkpoint, tip))
          /\ run.at \in 1 .. Len(Discovery) /\ run.done \subseteq recorded'
          /\ Reached(run, recorded', tip, checkpoint, run.at - 1)
          /\ Reading(run, recorded', tip, checkpoint)
          /\ Remaining(run, recorded', tip) /\ run.todo # <<>>
      BY <3>1 DEF Established
    <3>3. /\ run.todo \in Seq(Txids)
          /\ OnPage(History[tip][Discovery[run.at]], Head(run.pages))
               \subseteq recorded' \cup Range(run.todo)
      BY <3>2 DEF Remaining
    <3>4. Tail(run.todo) \in Seq(Txids) /\ Range(run.todo) \subseteq {t} \cup Range(Tail(run.todo))
      BY <2>1, <3>2, <3>3, HeadAndTail
    <3>5. Remaining(r, recorded', tip)
      BY <2>1, <2>2, <3>3, <3>4 DEF Remaining
    <3>6. Reading(r, recorded', tip, checkpoint)
      BY <2>2, <3>2 DEF Reading
    <3>7. Reached(r, recorded', tip, checkpoint, r.at - 1)
      BY <2>2, <3>2, Zenon DEF Reached
    <3>8. /\ r.reorg \in BOOLEAN /\ (r.reorg <=> ~Kept(checkpoint, tip))
          /\ r.at \in 1 .. Len(Discovery) /\ r.done \subseteq recorded'
      BY <2>1, <2>2, <3>2
    <3> QED
      BY <3>5, <3>6, <3>7, <3>8 DEF Going
  <2>5. Leaves(r, recorded', tip, checkpoint)
    BY <1>3, <1>7, <2>3, <2>4, NextTxLeaves
  <2>6. Begun(Rank, r.start, tip)
    BY <1>3, <2>2
  <2> QED
    BY <1>1, <1>3, <1>7, <2>5, <2>6, StepKeeps
<1>8. CASE Throw(jobs)
  BY <1>1, <1>8, ThrowKeeps
<1> QED
  BY <1>2, <1>5, <1>6, <1>7, <1>8

-----------------------------------------------------------------------------
(* What a commit writes, whole or cut short by a crash.                    *)

(* The result of protocol q is one that a sound plan allows.               *)
LEMMA ResultFits ==
  ASSUME NEW b \in Blocks, NEW q \in Protocols, NEW rec, NEW cps, NEW reorg,
         Stored(cps, rec), NEW res \in Results, ResultSound(res, q, reorg, cps, b, rec)
  PROVE  /\ res.cursor \in Nat /\ res.history \in Nat /\ res.complete \in BOOLEAN
         /\ res.cursor <= res.history
         /\ res.complete <=> (res.cursor = res.history)
<1> DEFINE cp == SavedOf(reorg, cps, q)
           total == Len(History[b][q])
           plan == Plan(cp, total)
<1>1. total \in Nat
  BY ChainFacts, LenProperties
<1>2. cp = NoCheckpoint \/ Counts(cp)
  BY DEF Stored, SavedOf, Sound
<1>3. res.cursor \in Nat /\ res.history \in Nat /\ res.complete \in BOOLEAN
  BY DEF Results
<1>4. res.history = total /\ res.cursor = plan.cursor
  BY DEF ResultSound, PlanOf
<1>5. res.complete <=> plan.complete
  BY Zenon DEF ResultSound, PlanOf
<1> HIDE DEF cp, total, plan
<1>6. PlanFits(cp, total)
  BY <1>1, <1>2, PlanIsSound
<1>7. plan.cursor <= total /\ (plan.complete <=> (plan.cursor = total))
  BY <1>6, Zenon DEF PlanFits, plan
<1>8. res.complete <=> (res.cursor = res.history)
  BY <1>4, <1>5, <1>7, Zenon
<1> QED
  BY <1>3, <1>4, <1>7, <1>8

LEMMA Committed ==
  ASSUME NEW Rank, IInv(Rank), pc = "end", run.start = tip,
         NEW n, n \in 0 .. Len(Discovery), NEW q \in Protocols
  PROVE  \/ UpTo(n)[q] = checkpoint[q] /\ \A i \in 1 .. n : Discovery[i] # q
         \/ \E res \in Results :
              /\ UpTo(n)[q] = Anchor(res, tip)
              /\ ResultSound(res, q, run.reorg, checkpoint, tip, recorded)
<1>1. Reached(run, recorded, tip, checkpoint, Len(Discovery))
  BY DEF IInv, Established
<1>2. CASE \E i \in 1 .. n : Discovery[i] = q
  <2> DEFINE i == CHOOSE i \in 1 .. n : Discovery[i] = q
             res == run.results[i]
  <2>1. i \in 1 .. n /\ Discovery[i] = q
    BY <1>2, Zenon
  <2>2. UpTo(n)[q] = Anchor(res, tip)
    BY <1>2 DEF UpTo
  <2> HIDE DEF i
  <2>3. i \in 1 .. Len(Discovery)
    BY <2>1, Protocol
  <2>4. res \in Results /\ ResultSound(res, q, run.reorg, checkpoint, tip, recorded)
    BY <1>1, <2>1, <2>3, ElementOfSeq DEF Reached
  <2> QED
    BY <2>2, <2>4
<1>3. CASE ~(\E i \in 1 .. n : Discovery[i] = q)
  BY <1>3 DEF UpTo
<1> QED
  BY <1>2, <1>3

LEMMA UpToStored ==
  ASSUME NEW Rank, IInv(Rank), pc = "end", run.start = tip,
         NEW n, n \in 0 .. Len(Discovery)
  PROVE  Stored(UpTo(n), recorded)
<1> SUFFICES ASSUME NEW q \in Protocols
             PROVE  UpTo(n)[q] = NoCheckpoint \/ Sound(UpTo(n)[q], q, recorded)
  BY DEF Stored
<1>1. CASE UpTo(n)[q] = checkpoint[q]
  BY <1>1 DEF IInv, Stored
<1>2. CASE \E res \in Results :
             /\ UpTo(n)[q] = Anchor(res, tip)
             /\ ResultSound(res, q, run.reorg, checkpoint, tip, recorded)
  <2>1. PICK res \in Results :
          /\ UpTo(n)[q] = Anchor(res, tip)
          /\ ResultSound(res, q, run.reorg, checkpoint, tip, recorded)
    BY <1>2
  <2> DEFINE cp == UpTo(n)[q]
  <2>2. tip \in Blocks /\ Stored(checkpoint, recorded)
    BY DEF IInv
  <2>3. /\ res.cursor \in Nat /\ res.history \in Nat /\ res.complete \in BOOLEAN
        /\ res.cursor <= res.history
        /\ res.complete <=> (res.cursor = res.history)
    BY <2>1, <2>2, ResultFits
  <2>4. /\ cp.cursor = res.cursor /\ cp.history = res.history
        /\ cp.complete = res.complete /\ cp.block = tip
    BY <2>1 DEF Anchor
  <2> HIDE DEF cp
  <2>5. cp.complete \in BOOLEAN /\ (cp.complete <=> (cp.cursor = cp.history))
    BY <2>3, <2>4, Zenon
  <2>6. Counts(cp)
    BY <2>3, <2>4, <2>5 DEF Counts
  <2>7. /\ res.history = Len(History[tip][q])
        /\ \A i \in 1 .. res.cursor : History[tip][q][i] \in recorded
    BY <2>1 DEF ResultSound
  <2>8. Sound(cp, q, recorded)
    BY <2>2, <2>4, <2>6, <2>7 DEF Sound
  <2> QED
    BY <2>8 DEF cp
<1> QED
  BY <1>1, <1>2, Committed

(* A step after which no run is under way.                                 *)
LEMMA EndKeeps ==
  ASSUME NEW Rank, IInv(Rank), pc' = "idle", run' = Blank, UNCHANGED <<tip, recorded>>,
         Stored(checkpoint', recorded), DOMAIN status' = {"state", "complete"}
  PROVE  IInv(Rank)'
<1>1. DOMAIN run' = Fields /\ run'.start = NoBlock /\ NoBlock # tip
  BY BackfillAssumption DEF Blank, Fields, IInv
<1>2. Local(pc', run') /\ Begun(Rank, run'.start, tip')
  BY <1>1 DEF Local, Begun
<1> QED
  BY <1>1, <1>2 DEF IInv

LEMMA ReadEndTipKeeps ==
  ASSUME NEW Rank, IInv(Rank), ReadEndTip
  PROVE  IInv(Rank)'
<1>1. pc = "end" /\ UNCHANGED <<tip, recorded>>
  BY DEF ReadEndTip
<1>2. CASE /\ run.start = tip /\ checkpoint' = UpTo(Len(Discovery)) /\ Return(job)
           /\ DOMAIN status' = {"state", "complete"}
  <2>1. Len(Discovery) \in 0 .. Len(Discovery)
    BY Protocol
  <2>2. Stored(checkpoint', recorded)
    BY <1>1, <1>2, <2>1, UpToStored
  <2> QED
    BY <1>1, <1>2, <2>2, EndKeeps DEF Return, Goto
<1>3. CASE /\ Goto("tip", [Blank EXCEPT !.full = TRUE, !.attempt = run.attempt + 1], job)
           /\ UNCHANGED <<checkpoint, status>>
  BY <1>1, <1>3, BeginFullKeeps DEF Goto, IInv
<1>4. CASE UNCHANGED checkpoint /\ Throw(job)
  BY <1>1, <1>4, ThrowKeeps
<1> QED
  BY <1>1, <1>2, <1>3, <1>4 DEF ReadEndTip, StableTip

LEMMA CrashKeeps ==
  ASSUME NEW Rank, IInv(Rank), Crash
  PROVE  IInv(Rank)'
<1>1. /\ UNCHANGED <<tip, recorded>> /\ pc' = "idle" /\ run' = Blank
      /\ DOMAIN status' = {"state", "complete"}
  BY DEF Crash, Return, Goto
<1>2. Stored(checkpoint', recorded)
  <2>1. CASE UNCHANGED checkpoint
    BY <2>1 DEF IInv
  <2>2. CASE pc = "end" /\ run.start = tip
               /\ \E n \in 1 .. Len(Discovery) - 1 : checkpoint' = UpTo(n)
    <3>1. PICK n \in 1 .. Len(Discovery) - 1 : checkpoint' = UpTo(n)
      BY <2>2
    <3>2. n \in 0 .. Len(Discovery)
      BY Protocol
    <3> QED
      BY <2>2, <3>1, <3>2, UpToStored
  <2> QED
    BY <2>1, <2>2 DEF Crash, StableTip
<1> QED
  BY <1>1, <1>2, EndKeeps

LEMMA IInvInit == ASSUME NEW Rank, Init PROVE IInv(Rank)
<1>1. tip \in Blocks /\ NoBlock # tip
  BY BackfillAssumption DEF Init
<1>2. DOMAIN run = Fields /\ run.start = NoBlock
  BY DEF Init, Blank, Fields
<1>3. Stored(checkpoint, recorded)
  BY DEF Init, Stored
<1>4. DOMAIN status = {"state", "complete"} /\ pc = "idle"
  BY DEF Init
<1> QED
  BY <1>1, <1>2, <1>3, <1>4 DEF IInv, Local, Begun

LEMMA IInvNext ==
  ASSUME NEW Rank, Upwards(Rank), IInv(Rank), [Next]_vars
  PROVE  IInv(Rank)'
<1>1. ASSUME NEW b \in Blocks, TipMove(b) PROVE IInv(Rank)'
  BY <1>1, TipMoveKeeps
<1>2. CASE Heal
  BY <1>2, StillKeeps DEF Heal
<1>3. ASSUME NEW t \in LiveTxids, NEW withTip \in BOOLEAN, LiveSubmit(t, withTip)
      PROVE  IInv(Rank)'
  BY <1>3, StillKeeps DEF LiveSubmit
<1>4. ASSUME NEW t \in Txids, Fetch(t) PROVE IInv(Rank)'
  BY <1>4, StillKeeps DEF Fetch
<1>5. ASSUME NEW t \in Txids, Persist(t) PROVE IInv(Rank)'
  BY <1>5, PersistKeeps
<1>6. ASSUME NEW t \in Txids, JobFails(t) PROVE IInv(Rank)'
  <2>1. /\ UNCHANGED <<tip, recorded, checkpoint>>
        /\ Throw([job EXCEPT ![t] = NoJob]) \/ UNCHANGED <<pc, run, status>>
    BY <1>6 DEF JobFails
  <2> QED
    BY <2>1, ThrowKeeps, StillKeeps
<1>7. CASE BeginFull
  <2>1. DOMAIN status' = {"state", "complete"}
    BY <1>7 DEF BeginFull, IInv
  <2> QED
    BY <1>7, <2>1, BeginFullKeeps DEF BeginFull, Goto
<1>8. ASSUME NEW h \in reorgs, BeginReorg(h) PROVE IInv(Rank)'
  BY <1>8, BeginReorgKeeps
<1>9. CASE Cycle
  BY <1>9, ReadStartTipKeeps, ReadHashKeeps, ReadPageKeeps, ReadEndTipKeeps DEF Cycle
<1>10. CASE Fail
  BY <1>10, ThrowKeeps DEF Fail
<1>11. CASE Crash
  BY <1>11, CrashKeeps
<1>12. CASE UNCHANGED vars
  BY <1>12, StillKeeps DEF vars
<1> QED
  BY <1>1, <1>2, <1>3, <1>4, <1>5, <1>6, <1>7, <1>8, <1>9, <1>10, <1>11, <1>12 DEF Next

-----------------------------------------------------------------------------
(* What the checkpoints promise.                                           *)

(***************************************************************************)
(* For every chain whose tip never returns to a block it left, whatever    *)
(* fails, crashes, is retried or arrives meanwhile: a checkpoint claims no *)
(* more than what is in the store (commitCheckpoint after backfillProtocol *)
(* and the second read of the tip).                                        *)
(***************************************************************************)
THEOREM NothingSkipped ==
  ASSUME NEW Rank, Upwards(Rank)
  PROVE  Spec => []CheckpointSound
<1>1. Init => IInv(Rank)
  BY IInvInit
<1>2. IInv(Rank) /\ [Next]_vars => IInv(Rank)'
  BY IInvNext
<1>3. IInv(Rank) => CheckpointSound
  <2> SUFFICES ASSUME IInv(Rank), NEW q \in Protocols, checkpoint[q] # NoCheckpoint
               PROVE  /\ checkpoint[q].history = Len(History[checkpoint[q].block][q])
                      /\ checkpoint[q].cursor <= checkpoint[q].history
                      /\ checkpoint[q].complete => checkpoint[q].cursor = checkpoint[q].history
                      /\ \A i \in 1 .. checkpoint[q].cursor :
                           History[checkpoint[q].block][q][i] \in recorded
    BY DEF CheckpointSound, Anchored
  <2>1. Sound(checkpoint[q], q, recorded)
    BY DEF IInv, Stored
  <2> QED
    BY <2>1 DEF Sound, Counts
<1> QED
  BY <1>1, <1>2, <1>3, PTL DEF Spec

(* Only a commit, or a crash during one, changes the checkpoints.          *)
LEMMA CheckpointChanges ==
  ASSUME Next
  PROVE  \/ checkpoint' = checkpoint
         \/ /\ pc = "end" /\ run.start = tip
            /\ \E n \in 0 .. Len(Discovery) : checkpoint' = UpTo(n)
<1>1. CASE ReadEndTip
  <2>1. Len(Discovery) \in 0 .. Len(Discovery)
    BY Protocol
  <2> QED
    BY <1>1, <2>1 DEF ReadEndTip, StableTip
<1>2. CASE Crash
  <2>1. \A n \in 1 .. Len(Discovery) - 1 : n \in 0 .. Len(Discovery)
    BY Protocol
  <2> QED
    BY <1>2, <2>1 DEF Crash, StableTip
<1>3. CASE ReadStartTip \/ ReadHash \/ ReadPage
  BY <1>3 DEF ReadStartTip, ReadHash, ReadPage
<1>4. CASE ~Cycle /\ ~Crash
  BY <1>4 DEF Next, TipMove, Heal, LiveSubmit, Fetch, Persist, JobFails, BeginFull,
              BeginReorg, Fail
<1> QED
  BY <1>1, <1>2, <1>3, <1>4 DEF Cycle

(* While the anchors are on the chain a commit continues each checkpoint.  *)
LEMMA Continues ==
  ASSUME NEW Rank, IInv(Rank), pc = "end", run.start = tip, AnchorsOnChain,
         NEW n, n \in 0 .. Len(Discovery), NEW q \in Protocols,
         checkpoint[q] # NoCheckpoint, \E i \in 1 .. n : Discovery[i] = q
  PROVE  /\ Usable(checkpoint[q], Len(History[tip][q]))
         /\ Counts(checkpoint[q]) /\ Len(History[tip][q]) \in Nat
         /\ UpTo(n)[q].cursor = Plan(checkpoint[q], Len(History[tip][q])).cursor
         /\ UpTo(n)[q].complete <=> Plan(checkpoint[q], Len(History[tip][q])).complete
         /\ UpTo(n)[q].history = Len(History[tip][q])
<1> DEFINE total == Len(History[tip][q])
           cp == checkpoint[q]
<1>1. run.reorg = FALSE
  <2>1. Kept(checkpoint, tip)
    BY DEF AnchorsOnChain, Anchored, Kept
  <2>2. run.reorg \in BOOLEAN /\ (run.reorg <=> ~Kept(checkpoint, tip))
    BY DEF IInv, Established
  <2> QED
    BY <2>1, <2>2, Zenon
<1>2. PICK res \in Results :
        /\ UpTo(n)[q] = Anchor(res, tip)
        /\ ResultSound(res, q, run.reorg, checkpoint, tip, recorded)
  BY Committed
<1>3. PlanOf(run.reorg, checkpoint, q, tip) = Plan(cp, total)
  BY <1>1 DEF PlanOf, SavedOf
<1>4. /\ res.history = total /\ res.cursor = Plan(cp, total).cursor
      /\ res.complete <=> Plan(cp, total).complete
  BY <1>2, <1>3, Zenon DEF ResultSound
<1>5. /\ UpTo(n)[q].cursor = res.cursor /\ UpTo(n)[q].history = res.history
      /\ UpTo(n)[q].complete = res.complete
  BY <1>2 DEF Anchor
<1>6. Sound(cp, q, recorded) /\ cp.block \in OnChain(tip) /\ tip \in Blocks
  BY DEF IInv, Stored, AnchorsOnChain, Anchored
<1>7. total >= cp.history /\ total \in Nat
  <2>1. cp.history = Len(History[cp.block][q])
    BY <1>6 DEF Sound
  <2>2. Len(History[cp.block][q]) <= total /\ total \in Nat
    BY <1>6, ChainFacts, LenProperties
  <2>3. cp.history \in Nat
    BY <1>6 DEF Sound, Counts
  <2> HIDE DEF total, cp
  <2> QED
    BY <2>1, <2>2, <2>3
<1>8. Usable(cp, total) /\ Counts(cp)
  BY <1>6, <1>7 DEF Usable, Sound
<1>9. UpTo(n)[q].complete <=> Plan(cp, total).complete
  BY <1>4, <1>5, Zenon
<1> QED
  BY <1>4, <1>5, <1>7, <1>8, <1>9

LEMMA Advances ==
  ASSUME NEW cp, NEW total \in Nat, Usable(cp, total), Counts(cp)
  PROVE  /\ cp.complete => \/ Plan(cp, total).complete
                           \/ NewTxs(cp, total) > MaxPages * PageSize
         /\ /\ ~cp.complete
            /\ NewTxs(cp, total) = 0 \/ NewPages(cp, total) < MaxPages
            => Plan(cp, total).cursor > NewTxs(cp, total) + cp.cursor
<1>1. /\ PageCount(total) \in Nat /\ NewTxs(cp, total) \in Nat
      /\ NewTxs(cp, total) + cp.history = total
      /\ NewPages(cp, total) \in Nat
      /\ ScanEnd(cp, total) < NewPages(cp, total) <=> MaxPages < NewPages(cp, total)
  BY PageCounts, ScanEndIs
<1>2. CASE PageCount(total) <= 1
  <2>1. Plan(cp, total).cursor = total /\ Plan(cp, total).complete
    BY <1>2, OnePage
  <2>2. ~cp.complete => cp.cursor < cp.history
    BY DEF Counts
  <2>3. cp.cursor \in Nat /\ cp.history \in Nat
    BY DEF Counts
  <2> QED
    BY <1>1, <2>1, <2>2, <2>3
<1>3. CASE PageCount(total) > 1 /\ ScanEnd(cp, total) < NewPages(cp, total)
  <2>1. NewTxs(cp, total) > MaxPages * PageSize
    BY <1>3, ScanOnlySound
  <2>2. NewTxs(cp, total) # 0 /\ ~(NewPages(cp, total) < MaxPages)
    <3>1. MaxPages * PageSize \in Nat
      BY Settings
    <3> QED
      BY <1>1, <1>3, <2>1, <3>1, Settings
  <2> QED
    BY <2>1, <2>2
<1>4. CASE /\ PageCount(total) > 1 /\ ~(ScanEnd(cp, total) < NewPages(cp, total))
           /\ cp.complete
  BY <1>4, ExtendSound
<1>5. CASE /\ PageCount(total) > 1 /\ ~(ScanEnd(cp, total) < NewPages(cp, total))
           /\ ~cp.complete
  BY <1>5, ResumeSound
<1> QED
  BY <1>1, <1>2, <1>3, <1>4, <1>5

(***************************************************************************)
(* On the same chains, a complete history becomes incomplete only by a     *)
(* reorganization of an anchor, or when more arrived than one run may      *)
(* fetch (the plan of backfillProtocol, as it is committed).               *)
(***************************************************************************)
THEOREM CompleteStaysComplete ==
  ASSUME NEW Rank, Upwards(Rank)
  PROVE  Spec => CompletionKept
<1>1. Init => IInv(Rank)
  BY IInvInit
<1>2. IInv(Rank) /\ [Next]_vars => IInv(Rank)'
  BY IInvNext
<1> DEFINE Step == \A q \in Anchored :
                     checkpoint[q].complete /\ ~checkpoint'[q].complete =>
                       \/ ~AnchorsOnChain
                       \/ Len(History[tip][q]) - checkpoint[q].history > MaxPages * PageSize
<1>3. IInv(Rank) /\ [Next]_vars => [Step]_vars
  <2> SUFFICES ASSUME IInv(Rank), Next, NEW q \in Protocols, checkpoint[q] # NoCheckpoint,
                      checkpoint[q].complete, ~checkpoint'[q].complete, AnchorsOnChain
               PROVE  Len(History[tip][q]) - checkpoint[q].history > MaxPages * PageSize
    BY DEF Anchored
  <2>1. /\ pc = "end" /\ run.start = tip
        /\ \E n \in 0 .. Len(Discovery) : checkpoint' = UpTo(n)
    BY CheckpointChanges
  <2>2. PICK n \in 0 .. Len(Discovery) : checkpoint' = UpTo(n)
    BY <2>1
  <2>3. \E i \in 1 .. n : Discovery[i] = q
    BY <2>2 DEF UpTo
  <2> DEFINE total == Len(History[tip][q])
  <2>4. /\ Usable(checkpoint[q], total) /\ Counts(checkpoint[q]) /\ total \in Nat
        /\ UpTo(n)[q].complete <=> Plan(checkpoint[q], total).complete
    BY <2>1, <2>3, Continues
  <2>5. ~Plan(checkpoint[q], total).complete
    BY <2>2, <2>4, Zenon
  <2>6. NewTxs(checkpoint[q], total) > MaxPages * PageSize
    BY <2>4, <2>5, Advances
  <2> QED
    BY <2>6 DEF NewTxs
<1> QED
  BY <1>1, <1>2, <1>3, PTL DEF Spec, CompletionKept

(***************************************************************************)
(* On the same chains and while the anchors are on it, an incomplete       *)
(* checkpoint comes closer to the oldest transaction with every successful *)
(* cycle that finds room for an older page beside the new ones.            *)
(***************************************************************************)
THEOREM OldestComesCloser ==
  ASSUME NEW Rank, Upwards(Rank)
  PROVE  Spec => OlderPagesContinue
<1>1. Init => IInv(Rank)
  BY IInvInit
<1>2. IInv(Rank) /\ [Next]_vars => IInv(Rank)'
  BY IInvNext
<1> DEFINE Step ==
      Commits /\ AnchorsOnChain =>
        \A q \in Anchored :
          /\ ~checkpoint[q].complete
          /\ Arrived(q) = 0 \/ PageCount(Arrived(q)) < MaxPages
          => Older(checkpoint'[q]) < Older(checkpoint[q])
<1>3. IInv(Rank) /\ [Next]_vars => [Step]_vars
  <2> SUFFICES ASSUME IInv(Rank), Next, Commits, AnchorsOnChain,
                      NEW q \in Protocols, checkpoint[q] # NoCheckpoint,
                      ~checkpoint[q].complete,
                      Arrived(q) = 0 \/ PageCount(Arrived(q)) < MaxPages
               PROVE  Older(checkpoint'[q]) < Older(checkpoint[q])
    BY DEF Anchored
  <2>1. ReadEndTip /\ pc = "end" /\ run.start = tip /\ checkpoint' = UpTo(Len(Discovery))
    <3>1. DOMAIN status = {"state", "complete"} /\ status.state = "running"
          /\ status'.state = "succeeded"
      BY DEF IInv, Commits
    <3>2. \A jobs : ~Throw(jobs)
      BY <3>1 DEF Throw
    <3>3. status' # status /\ status'.state # "running" /\ status'.state # "idle"
      BY <3>1
    <3>4. ASSUME NEW t \in Txids PROVE ~Fetch(t) /\ ~Persist(t) /\ ~JobFails(t)
      BY <3>2, <3>3 DEF Fetch, Persist, JobFails
    <3>5. ~BeginFull /\ ~Crash /\ ~Fail
      <4>1. ~BeginFull
        BY <3>1, <3>3 DEF BeginFull
      <4>2. ~Crash
        BY <3>3 DEF Crash
      <4>3. ~Fail
        BY <3>2 DEF Fail
      <4> QED
        BY <4>1, <4>2, <4>3
    <3>6. ~ReadStartTip /\ ~ReadHash /\ ~ReadPage
      BY <3>2, <3>3 DEF ReadStartTip, ReadHash, ReadPage
    <3>7. /\ \A b \in Blocks : ~TipMove(b)
          /\ ~Heal
          /\ \A t \in LiveTxids, withTip \in BOOLEAN : ~LiveSubmit(t, withTip)
          /\ \A h \in reorgs : ~BeginReorg(h)
      BY <3>3 DEF TipMove, Heal, LiveSubmit, BeginReorg
    <3>8. ReadEndTip
      BY <3>4, <3>5, <3>6, <3>7, Zenon DEF Next, Cycle
    <3> QED
      BY <3>1, <3>2, <3>3, <3>8 DEF ReadEndTip, StableTip
  <2>2. Len(Discovery) \in 0 .. Len(Discovery)
        /\ \E i \in 1 .. Len(Discovery) : Discovery[i] = q
    <3>1. DOMAIN Discovery = 1 .. Len(Discovery)
      BY BackfillAssumption, LenProperties
    <3> QED
      BY <3>1, Protocol DEF Protocols, Range
  <2> DEFINE total == Len(History[tip][q])
             cp == checkpoint[q]
  <2>3. /\ Usable(cp, total) /\ Counts(cp) /\ total \in Nat
        /\ checkpoint'[q].cursor = Plan(cp, total).cursor
        /\ checkpoint'[q].history = total
    BY <2>1, <2>2, Continues
  <2>4. NewTxs(cp, total) = 0 \/ NewPages(cp, total) < MaxPages
    BY DEF Arrived, NewTxs, NewPages
  <2>5. Plan(cp, total).cursor > NewTxs(cp, total) + cp.cursor
    BY <2>3, <2>4, Advances
  <2>6. NewTxs(cp, total) + cp.history = total /\ NewTxs(cp, total) \in Nat
    BY <2>3, ScanEndIs
  <2>7. cp.cursor \in Nat /\ cp.history \in Nat /\ Plan(cp, total).cursor \in Nat
    BY <2>3, PlanIsSound DEF Counts, PlanFits
  <2> HIDE DEF total
  <2> QED
    BY <2>3, <2>5, <2>6, <2>7 DEF Older
<1> QED
  BY <1>1, <1>2, <1>3, PTL DEF Spec, OlderPagesContinue
-----------------------------------------------------------------------------
(* The listing of confirmed rows, page after page.                         *)

RowRecords == [txid : Nat, height : Int]

(* Those before a record, whose number decides whether it is in the page.  *)
Earlier(listed, r) == {s \in listed : Before(s, r)}
PageFrom(listed) == {r \in listed : Cardinality(Earlier(listed, r)) < RowLimit}

LEMMA BeforeOrders ==
  /\ \A r, s, u \in RowRecords : Before(r, s) /\ Before(s, u) => Before(r, u)
  /\ \A r \in RowRecords : ~Before(r, r)
  /\ \A r, s \in RowRecords : r = s \/ Before(r, s) \/ Before(s, r)
<1>1. ASSUME NEW r \in RowRecords
      PROVE  /\ r.txid \in Int /\ r.height \in Int
             /\ \A s \in RowRecords : s.txid = r.txid /\ s.height = r.height => s = r
  BY DEF RowRecords
<1>2. ASSUME NEW r \in RowRecords, NEW s \in RowRecords, NEW u \in RowRecords,
             Before(r, s), Before(s, u)
      PROVE  Before(r, u)
  BY <1>1, <1>2 DEF Before
<1>3. ASSUME NEW r \in RowRecords
      PROVE  ~Before(r, r)
  BY <1>1 DEF Before
<1>4. ASSUME NEW r \in RowRecords, NEW s \in RowRecords, r # s
      PROVE  Before(r, s) \/ Before(s, r)
  BY <1>1, <1>4 DEF Before
<1> QED
  BY <1>2, <1>3, <1>4

(* What is before a record has fewer records before it.                    *)
LEMMA FewerEarlier ==
  ASSUME NEW listed \in SUBSET RowRecords, IsFiniteSet(listed)
  PROVE  /\ \A r \in listed : IsFiniteSet(Earlier(listed, r))
         /\ \A r \in listed : Cardinality(Earlier(listed, r)) \in Nat
         /\ \A r, s \in listed : Before(s, r) =>
              Cardinality(Earlier(listed, s)) < Cardinality(Earlier(listed, r))
<1>1. ASSUME NEW r \in listed
      PROVE  IsFiniteSet(Earlier(listed, r)) /\ Cardinality(Earlier(listed, r)) \in Nat
  <2>1. Earlier(listed, r) \in SUBSET listed
    BY DEF Earlier
  <2> QED
    BY <2>1, FS_Subset, FS_CardinalityType
<1>2. ASSUME NEW r \in listed, NEW s \in listed, Before(s, r)
      PROVE  Cardinality(Earlier(listed, s)) < Cardinality(Earlier(listed, r))
  <2> DEFINE less == Earlier(listed, s)
             more == Earlier(listed, r)
  <2>1. less \cup {s} \subseteq more
    BY <1>2, BeforeOrders DEF Earlier
  <2>2. s \notin less
    BY BeforeOrders DEF Earlier
  <2>3. IsFiniteSet(less) /\ IsFiniteSet(more)
        /\ Cardinality(less) \in Nat /\ Cardinality(more) \in Nat
    BY <1>1
  <2> HIDE DEF less, more
  <2>4. Cardinality(less \cup {s}) = Cardinality(less) + 1
    BY <2>2, <2>3, FS_AddElement
  <2>5. Cardinality(less \cup {s}) <= Cardinality(more)
    BY <2>1, <2>3, FS_Subset
  <2>6. Cardinality(less) < Cardinality(more)
    BY <2>3, <2>4, <2>5
  <2> QED
    BY <2>6 DEF less, more
<1> QED
  BY <1>1, <1>2

(* A non-empty page has a last row.                                        *)
LEMMA LastIs ==
  ASSUME NEW listed \in SUBSET RowRecords, IsFiniteSet(listed), PageFrom(listed) # {}
  PROVE  Last(PageFrom(listed)) \in PageFrom(listed)
<1> DEFINE page == PageFrom(listed)
           count(r) == Cardinality(Earlier(listed, r))
           left == {RowLimit - count(r) : r \in page}
<1>1. /\ \A r \in listed : count(r) \in Nat
      /\ \A r, s \in listed : Before(s, r) => count(s) < count(r)
  BY FewerEarlier
<1>2. page \subseteq listed /\ \A r \in page : count(r) < RowLimit
  BY DEF PageFrom
<1>3. RowLimit \in Nat
  BY BackfillAssumption
<1> HIDE DEF page, count
<1>4. left \in SUBSET Nat /\ left # {}
  BY <1>1, <1>2, <1>3 DEF page
<1>5. Min(left) \in left /\ \A n \in left : Min(left) <= n
  BY <1>4, MinIs
<1>6. PICK r \in page : Min(left) = RowLimit - count(r)
  BY <1>5
<1>7. ASSUME NEW s \in page \ {r}
      PROVE  Before(s, r)
  <2>1. r \in listed /\ s \in listed /\ r # s
    BY <1>2
  <2>2. RowLimit - count(r) <= RowLimit - count(s)
    BY <1>5, <1>6
  <2>3. ~(count(r) < count(s))
    BY <1>1, <1>3, <2>1, <2>2
  <2>4. ~Before(r, s)
    BY <1>1, <2>1, <2>3
  <2> QED
    BY <2>1, <2>4, BeforeOrders
<1>8. Last(page) \in page
  BY <1>7, Zenon DEF Last
<1> QED
  BY <1>8 DEF page

(* What is listed and not in the page comes after it, and the page is full.*)
LEMMA NextPages ==
  ASSUME NEW listed \in SUBSET RowRecords, IsFiniteSet(listed),
         NEW x \in listed, x \notin PageFrom(listed)
  PROVE  /\ PageFrom(listed) # {}
         /\ Cardinality(PageFrom(listed)) >= RowLimit
         /\ Before(Last(PageFrom(listed)), x)
<1> DEFINE page == PageFrom(listed)
           count(r) == Cardinality(Earlier(listed, r))
           others == {count(r) : r \in listed \ page}
<1>1. /\ \A r \in listed : count(r) \in Nat
      /\ \A r, s \in listed : Before(s, r) => count(s) < count(r)
      /\ \A r \in listed : IsFiniteSet(Earlier(listed, r))
  BY FewerEarlier
<1>2. page \subseteq listed /\ \A r \in listed : r \in page <=> count(r) < RowLimit
  BY DEF PageFrom
<1>3. RowLimit \in Nat \ {0}
  BY BackfillAssumption
<1>4. IsFiniteSet(page) /\ Cardinality(page) \in Nat
  BY <1>2, FS_Subset, FS_CardinalityType
<1>5. x \notin page
  OBVIOUS
<1>6. ASSUME NEW r \in listed
      PROVE  Earlier(listed, r) = {s \in listed : Before(s, r)}
             /\ count(r) = Cardinality(Earlier(listed, r))
  BY DEF Earlier
<1> HIDE DEF page, count
<1>7. others \in SUBSET Nat /\ others # {}
  BY <1>1, <1>5
<1>8. Min(others) \in others /\ \A n \in others : Min(others) <= n
  BY <1>7, MinIs
<1>9. PICK r \in listed \ page : Min(others) = count(r)
  BY <1>8
<1>10. Earlier(listed, r) \subseteq page
  <2> SUFFICES ASSUME NEW s \in listed, Before(s, r), s \notin page
               PROVE  FALSE
    BY <1>6
  <2>1. count(s) < count(r) /\ count(r) \in Nat /\ count(s) \in Nat
    BY <1>1
  <2>2. count(r) <= count(s)
    BY <1>8, <1>9
  <2> QED
    BY <2>1, <2>2
<1>11. count(r) <= Cardinality(page)
  BY <1>4, <1>6, <1>10, FS_Subset
<1>12. count(r) \in Nat /\ ~(count(r) < RowLimit)
  BY <1>1, <1>2
<1>13. Cardinality(page) >= RowLimit
  BY <1>3, <1>4, <1>11, <1>12
<1>14. page # {}
  BY <1>3, <1>13, FS_EmptySet
<1>15. Last(page) \in page
  BY <1>14, LastIs DEF page
<1>16. Before(Last(page), x)
  <2> DEFINE last == Last(page)
  <2>1. last \in listed /\ count(last) < RowLimit /\ ~(count(x) < RowLimit)
        /\ count(last) \in Nat /\ count(x) \in Nat
    BY <1>1, <1>2, <1>5, <1>15
  <2>2. ~(count(x) < count(last))
    BY <1>3, <2>1
  <2>3. ~Before(x, last) /\ last # x
    BY <1>1, <1>5, <1>15, <2>1, <2>2
  <2> HIDE DEF last
  <2>4. last \in RowRecords /\ x \in RowRecords
    BY <2>1
  <2>5. Before(last, x)
    BY <2>3, <2>4, BeforeOrders
  <2> QED
    BY <2>5 DEF last
<1> QED
  BY <1>13, <1>14, <1>16 DEF page

(* Every row that is listed now, or would be later, has its record.        *)
Rows == [Txids -> Blocks \cup {"absent", "mempool", "inactive"}]
RecordOf(rows, t) == [txid |-> t, height |-> Height(rows[t])]

LEMMA RowsAreFinite ==
  ASSUME NEW rows \in Rows
  PROVE  /\ ConfirmedRows(rows) \in SUBSET RowRecords
         /\ IsFiniteSet(ConfirmedRows(rows))
         /\ \A t \in Txids : rows[t] \in Blocks => RecordOf(rows, t) \in ConfirmedRows(rows)
<1> DEFINE S == {u \in Txids : rows[u] \in Blocks}
           T == ConfirmedRows(rows)
           f == [t \in S |-> RecordOf(rows, t)]
<1>1. T = {RecordOf(rows, t) : t \in S}
  BY DEF ConfirmedRows, RecordOf
<1>2. ASSUME NEW t \in S
      PROVE  RecordOf(rows, t) \in RowRecords
  <2>1. t \in Nat /\ Height(rows[t]) \in Int
    BY BackfillAssumption, TipOfChain
  <2> QED
    BY <2>1 DEF RecordOf, RowRecords
<1>3. IsFiniteSet(S)
  <2>1. IsFiniteSet(Txids) /\ S \in SUBSET Txids
    BY BackfillAssumption
  <2> QED
    BY <2>1, FS_Subset
<1> HIDE DEF T
<1>4. f \in Surjection(S, T)
  BY <1>1 DEF Surjection
<1>5. IsFiniteSet(T)
  BY <1>3, <1>4, FS_Surjection
<1> QED
  BY <1>1, <1>2, <1>5 DEF T

-----------------------------------------------------------------------------
(***************************************************************************)
(* Which rows a pass may leave in a block that left the chain.  Those of   *)
(* live transactions are left out (Quiet): a job of theirs may write what  *)
(* it saw before the chain changed at any time.                            *)
(***************************************************************************)
Quiet == Txids \ LiveTxids

(* The tip never returns to a branch it left: what a move adds to the      *)
(* chain comes after the block it leaves.                                  *)
NeverReturns(Rank) ==
  /\ Upwards(Rank)
  /\ \A m \in Moves : \A a \in OnChain(m[2]) \ OnChain(m[1]) : Rank[m[1]] < Rank[a]

(* Every protocol has an anchor at or above the block c.                   *)
BelowAnchors(c, cps) ==
  \A q \in Protocols : cps[q] # NoCheckpoint /\ Height(c) <= Height(cps[q].block)

(* While the anchors stand, what is not above them stands too.             *)
Settled(c, cps, b) == Kept(cps, b) /\ BelowAnchors(c, cps) => c \in OnChain(b)

SeenBlock(jobs, t) == jobs[t] # NoJob /\ jobs[t].seen \in Blocks

Firm(rows, jobs, cps, b) ==
  \A t \in Quiet :
    /\ rows[t] \in Blocks => Settled(rows[t], cps, b)
    /\ SeenBlock(jobs, t) => Settled(jobs[t].seen, cps, b)

(* No anchor is of a block the tip is still to come to.                    *)
Aged(Rank, cps, b) ==
  \A q \in Protocols : cps[q] # NoCheckpoint => Rank[cps[q].block] <= Rank[b]

(* Quiet transactions have only the job that the reconciliation waits for. *)
Pending(place, r, t) ==
  \/ place = "row" /\ First(r.rows).txid = t
  \/ place = "tx" /\ Head(r.todo) = t

Asked(place, r, jobs) == \A t \in Quiet : jobs[t] # NoJob => Pending(place, r, t)

(* What is stale is still to be listed; once all is listed nothing is.     *)
Due(r, record) == record \in r.rows \/ (r.more /\ Before(r.after, record))

Stale(rows, t, b) == rows[t] \in Blocks /\ rows[t] \notin OnChain(b)

Clean(place, r, rows, b) ==
  place \in {"row", "page", "tx", "end"} =>
    \A t \in Quiet :
      Stale(rows, t, b) =>
        place = "row" /\ Height(rows[t]) >= r.min /\ Due(r, RecordOf(rows, t))

Fresh(jobs, b) == \A t \in Quiet : SeenBlock(jobs, t) => jobs[t].seen \in OnChain(b)

RowInv(Rank) ==
  /\ row \in Rows
  /\ job \in [Txids -> Jobs]
  /\ Aged(Rank, checkpoint, tip)
  /\ Asked(pc, run, job)
  /\ Firm(row, job, checkpoint, tip)
  /\ pc \in {"tip", "hash"} => run.after = NoRow
  /\ run.start = tip => Clean(pc, run, row, tip) /\ Fresh(job, tip)

-----------------------------------------------------------------------------
(* The program goes on, and asks for one job at most.                      *)

Idle(jobs) == \A t \in Quiet : jobs[t] = NoJob

Asks(jobs) ==
  \/ job' = jobs
  \/ \E t : \E withTip \in BOOLEAN : job' = Submit(jobs, t, withTip) /\ Pending(pc', run', t)

LEMMA JobsAsked ==
  ASSUME NEW jobs \in [Txids -> Jobs], Idle(jobs), Asks(jobs)
  PROVE  /\ job' \in [Txids -> Jobs]
         /\ Asked(pc', run', job')
         /\ \A t \in Quiet : ~SeenBlock(job', t)
<1>1. CASE job' = jobs
  BY <1>1 DEF Idle, Asked, SeenBlock
<1>2. CASE \E t : \E withTip \in BOOLEAN : job' = Submit(jobs, t, withTip) /\ Pending(pc', run', t)
  <2>1. PICK t, withTip :
          withTip \in BOOLEAN /\ job' = Submit(jobs, t, withTip) /\ Pending(pc', run', t)
    BY <1>2
  <2> DEFINE new == [tip |-> withTip, seen |-> "unread"]
  <2>2. job' = jobs \/ job' = [jobs EXCEPT ![t] = new]
    BY <2>1 DEF Submit
  <2>3. new \in Jobs /\ new.seen \notin Blocks
    BY <2>1, BackfillAssumption DEF Jobs
  <2> HIDE DEF new
  <2>4. CASE job' = [jobs EXCEPT ![t] = new]
    <3>1. job' \in [Txids -> Jobs]
      BY <2>3, <2>4
    <3>2. \A u \in Quiet : job'[u] = IF u = t THEN new ELSE NoJob
      BY <2>4 DEF Idle, Quiet
    <3> QED
      BY <2>1, <2>3, <3>1, <3>2 DEF Asked, SeenBlock
  <2> QED
    BY <1>1, <2>2, <2>4
<1> QED
  BY <1>1, <1>2 DEF Asks

LEMMA ScanAsks ==
  ASSUME NEW r, NEW i, NEW jobs, Scan(r, i, jobs)
  PROVE  Asks(jobs) /\ pc' \in {"page", "end"}
BY DEF Scan, Goto, Asks

LEMMA RowsDoneAsks ==
  ASSUME NEW r, NEW jobs, RowsDone(r, jobs)
  PROVE  Asks(jobs) /\ pc' \in {"idle", "page", "end"}
BY ScanAsks DEF RowsDone, Return, Goto, Asks

LEMMA AwaitRowAsks ==
  ASSUME NEW r, NEW jobs, AwaitRow(r, jobs)
  PROVE  Asks(jobs) /\ pc' = "row" /\ run' = r
BY DEF AwaitRow, Goto, Asks, Pending

LEMMA ListRowsAsks ==
  ASSUME NEW rows, NEW r, NEW jobs, ListRows(rows, r, jobs)
  PROVE  Asks(jobs) /\ pc' \in {"idle", "row", "page", "end"}
BY RowsDoneAsks, AwaitRowAsks DEF ListRows

LEMMA NextRowAsks ==
  ASSUME NEW rows, NEW jobs, NextRow(rows, jobs)
  PROVE  Asks(jobs) /\ pc' \in {"idle", "row", "page", "end"}
BY RowsDoneAsks, AwaitRowAsks, ListRowsAsks DEF NextRow

LEMMA PageDoneAsks ==
  ASSUME NEW r, DOMAIN r = Fields, NEW jobs, PageDone(r, jobs)
  PROVE  Asks(jobs) /\ pc' \in {"page", "end"} /\ run'.start = r.start
<1>1. CASE Len(r.pages) > 1
  BY <1>1, FieldsAre DEF PageDone, Goto, Asks
<1>2. CASE ~(Len(r.pages) > 1)
  <2> DEFINE results == Append(r.results, PassResult(r))
             s == [r EXCEPT !.results = results, !.pages = <<>>, !.count = NoCount,
                            !.done = {}]
             i == r.at + 1
  <2>1. Scan(s, i, jobs)
    BY <1>2 DEF PageDone
  <2> HIDE DEF results, i
  <2>2. DOMAIN s = Fields /\ s.start = r.start
    BY FieldsAre
  <2> HIDE DEF s
  <2> QED
    BY <2>1, <2>2, ScanAsks, ScanGoes DEF Scanned, Same
<1> QED
  BY <1>1, <1>2

LEMMA NextTxAsks ==
  ASSUME NEW r, DOMAIN r = Fields, NEW jobs, NextTx(r, jobs)
  PROVE  Asks(jobs) /\ pc' \in {"page", "tx", "end"} /\ run'.start = r.start
<1> DEFINE left == {i \in DOMAIN r.todo : r.todo[i] \notin r.done}
           rest == SubSeq(r.todo, Min(left), Len(r.todo))
           s == [r EXCEPT !.todo = <<>>]
           u == [r EXCEPT !.todo = rest]
<1>1. PageDone(s, jobs) \/ Goto("tx", u, Submit(jobs, Head(rest), FALSE))
  BY DEF NextTx
<1> HIDE DEF left, rest
<1>2. /\ DOMAIN s = Fields /\ s.start = r.start
      /\ DOMAIN u = Fields /\ u.start = r.start /\ u.todo = rest
  BY FieldsAre
<1> HIDE DEF s, u
<1>3. CASE PageDone(s, jobs)
  BY <1>2, <1>3, PageDoneAsks
<1>4. CASE Goto("tx", u, Submit(jobs, Head(rest), FALSE))
  BY <1>2, <1>4 DEF Goto, Asks, Pending
<1> QED
  BY <1>1, <1>3, <1>4

LEMMA ListingStarts ==
  ASSUME NEW r, Listing(r)
  PROVE  pc' = "idle" \/ (run'.start = r.start /\ run'.reorg = r.reorg)
BY DEF Listing, Scanned, Same

-----------------------------------------------------------------------------
(* What is stale stays due until the listing comes to it.                  *)

LEMMA CleanWhenNoneStale ==
  ASSUME NEW rows, NEW b, \A t \in Quiet : ~Stale(rows, t, b), NEW place, NEW r
  PROVE  Clean(place, r, rows, b)
BY DEF Clean

LEMMA ListRowsClean ==
  ASSUME NEW rows \in Rows, NEW r, DOMAIN r = Fields, NEW jobs, NEW b,
         ListRows(rows, r, jobs),
         \A t \in Quiet : Stale(rows, t, b) =>
           Height(rows[t]) >= r.min /\ Before(r.after, RecordOf(rows, t))
  PROVE  Clean(pc', run', rows, b)
<1> DEFINE listed == {x \in ConfirmedRows(rows) : x.height >= r.min /\ Before(r.after, x)}
           page == PageFrom(listed)
           more == Cardinality(page) >= RowLimit
           last == Last(page)
           next == [r EXCEPT !.rows = page, !.after = last, !.more = more]
           cleared == [r EXCEPT !.rows = {}, !.after = NoRow, !.more = FALSE]
<1>1. listed \in SUBSET RowRecords /\ IsFiniteSet(listed)
  <2>1. ConfirmedRows(rows) \in SUBSET RowRecords /\ IsFiniteSet(ConfirmedRows(rows))
    BY RowsAreFinite
  <2>2. listed \in SUBSET ConfirmedRows(rows)
    OBVIOUS
  <2> HIDE DEF listed
  <2> QED
    BY <2>1, <2>2, FS_Subset
<1>2. page = RowsPage(rows, r.min, r.after)
  BY DEF RowsPage, PageFrom, Earlier
<1>3. ASSUME NEW t \in Quiet, Stale(rows, t, b)
      PROVE  RecordOf(rows, t) \in listed
  <2>1. RecordOf(rows, t) \in ConfirmedRows(rows)
    BY <1>3, RowsAreFinite DEF Quiet, Stale
  <2>2. RecordOf(rows, t).height = Height(rows[t])
    BY DEF RecordOf
  <2> QED
    BY <1>3, <2>1, <2>2
<1>4. \/ page = {} /\ RowsDone(cleared, jobs)
      \/ page # {} /\ AwaitRow(next, jobs)
  BY <1>2, Zenon DEF ListRows
<1> HIDE DEF listed
<1>5. CASE page = {}
  <2>1. \A t \in Quiet : ~Stale(rows, t, b)
    BY <1>1, <1>3, <1>5, NextPages
  <2> QED
    BY <2>1, CleanWhenNoneStale
<1>6. CASE page # {}
  <2>1. AwaitRow(next, jobs)
    BY <1>4, <1>6
  <2>2. ASSUME NEW t \in Quiet, Stale(rows, t, b)
        PROVE  RecordOf(rows, t) \in page \/ (more /\ Before(last, RecordOf(rows, t)))
    BY <1>1, <1>3, <2>2, NextPages
  <2> HIDE DEF page, more, last
  <2>3. next.min = r.min /\ next.rows = page /\ next.after = last
    BY FieldsAre
  <2>4. next.more <=> more
    BY FieldsAre
  <2> HIDE DEF next
  <2>5. pc' = "row" /\ run' = next
    BY <2>1, AwaitRowAsks
  <2> QED
    BY <2>2, <2>3, <2>4, <2>5 DEF Clean, Due
<1> QED
  BY <1>5, <1>6

LEMMA NextRowClean ==
  ASSUME NEW rows \in Rows, DOMAIN run = Fields, NEW jobs, NEW b, NEW t,
         NextRow(rows, jobs), First(run.rows).txid = t, Clean("row", run, row, b),
         \A u \in Quiet : Stale(rows, u, b) => u # t /\ rows[u] = row[u]
  PROVE  Clean(pc', run', rows, b)
<1> DEFINE rest == run.rows \ {First(run.rows)}
           next == [run EXCEPT !.rows = rest]
           cleared == [run EXCEPT !.rows = {}, !.after = NoRow]
<1>1. ASSUME NEW u \in Quiet, Stale(rows, u, b)
      PROVE  /\ Height(rows[u]) >= run.min
             /\ \/ RecordOf(rows, u) \in rest
                \/ run.more /\ Before(run.after, RecordOf(rows, u))
  <2>1. u # t /\ rows[u] = row[u]
    BY <1>1
  <2>2. Stale(row, u, b) /\ RecordOf(rows, u) = RecordOf(row, u)
    BY <1>1, <2>1 DEF Stale, RecordOf
  <2>3. Height(rows[u]) >= run.min /\ Due(run, RecordOf(rows, u))
    BY <2>1, <2>2 DEF Clean
  <2>4. RecordOf(rows, u) # First(run.rows)
    BY <2>1 DEF RecordOf
  <2> QED
    BY <2>3, <2>4 DEF Due
<1>2. \/ AwaitRow(next, jobs)
      \/ rest = {} /\ ListRows(rows, run, jobs)
      \/ rest = {} /\ ~run.more
  BY DEF NextRow
<1> HIDE DEF rest
<1>3. CASE AwaitRow(next, jobs)
  <2>1. next.min = run.min /\ next.rows = rest /\ next.after = run.after
        /\ next.more = run.more
    BY FieldsAre
  <2> HIDE DEF next
  <2>2. pc' = "row" /\ run' = next
    BY <1>3, AwaitRowAsks
  <2> QED
    BY <1>1, <2>1, <2>2 DEF Clean, Due
<1>4. CASE rest = {} /\ ListRows(rows, run, jobs)
  BY <1>1, <1>4, ListRowsClean
<1>5. CASE rest = {} /\ ~run.more
  BY <1>1, <1>5, CleanWhenNoneStale
<1> QED
  BY <1>2, <1>3, <1>4, <1>5

(* Where the revalidation begins: above the lowest anchor, if all stand.   *)
LEMMA RevalidationCovers ==
  ASSUME Stored(checkpoint, recorded), Kept(checkpoint, tip), NEW c \in Blocks,
         Settled(c, checkpoint, tip), c \notin OnChain(tip)
  PROVE  Height(c) >= RevalidationHeight
<1> DEFINE heights == {Height(checkpoint[q].block) : q \in Anchored}
<1>1. Height(c) \in Nat
  BY TipOfChain
<1>2. PICK q \in Protocols : checkpoint[q] = NoCheckpoint
                             \/ ~(Height(c) <= Height(checkpoint[q].block))
  BY DEF Settled, BelowAnchors
<1>3. CASE Anchored # Protocols
  BY <1>1, <1>3 DEF RevalidationHeight
<1>4. CASE Anchored = Protocols
  <2>1. q \in Anchored /\ ~(Height(c) <= Height(checkpoint[q].block))
    BY <1>2, <1>4 DEF Anchored
  <2>2. heights \in SUBSET Nat /\ heights # {} /\ Height(checkpoint[q].block) \in heights
    BY <2>1, TipOfChain DEF Stored, Sound, Anchored
  <2>3. LowestAnchor = Min(heights)
    BY DEF LowestAnchor
  <2> HIDE DEF heights
  <2>4. LowestAnchor \in Nat /\ LowestAnchor <= Height(checkpoint[q].block)
        /\ Height(checkpoint[q].block) \in Nat
    BY <2>2, <2>3, MinIs
  <2> QED
    BY <1>1, <1>4, <2>1, <2>4 DEF RevalidationHeight
<1> QED
  BY <1>3, <1>4

LEMMA RevalidateClean ==
  ASSUME row \in Rows, Firm(row, job, checkpoint, tip), Stored(checkpoint, recorded),
         NEW r, DOMAIN r = Fields, r.after = NoRow, NEW reorg \in BOOLEAN,
         Revalidate(r, reorg),
         pc' \in {"row", "page", "tx", "end"} => (run'.reorg <=> ~Kept(checkpoint, tip))
  PROVE  Clean(pc', run', row, tip)
<1> DEFINE min == IF reorg THEN 0 ELSE RevalidationHeight
           s == [r EXCEPT !.reorg = reorg, !.at = 0, !.min = min]
<1>1. ListRows(row, s, job)
  BY DEF Revalidate
<1>2. min = IF reorg THEN 0 ELSE RevalidationHeight
  OBVIOUS
<1> HIDE DEF min
<1>3. DOMAIN s = Fields /\ s.reorg = reorg /\ s.min = min /\ s.after = NoRow
  BY FieldsAre
<1> HIDE DEF s
<1>4. CASE pc' = "idle"
  BY <1>4 DEF Clean
<1>5. CASE pc' # "idle"
  <2>1. reorg <=> ~Kept(checkpoint, tip)
    BY <1>1, <1>3, <1>5, ListRowsAsks, ListRowsGoes, ListingStarts
  <2>2. ASSUME NEW t \in Quiet, Stale(row, t, tip)
        PROVE  Height(row[t]) >= s.min /\ Before(s.after, RecordOf(row, t))
    <3>1. row[t] \in Blocks /\ row[t] \notin OnChain(tip) /\ Height(row[t]) \in Nat
          /\ Settled(row[t], checkpoint, tip)
      BY <2>2, TipOfChain DEF Stale, Firm
    <3>2. Height(row[t]) >= min
      BY <1>2, <2>1, <3>1, RevalidationCovers
    <3>3. Before(NoRow, RecordOf(row, t))
      BY <3>1 DEF Before, NoRow, RecordOf
    <3> QED
      BY <1>3, <3>2, <3>3
  <2> QED
    BY <1>1, <1>3, <2>2, ListRowsClean
<1> QED
  BY <1>4, <1>5

LEMMA CheckAnchorsClean ==
  ASSUME row \in Rows, Firm(row, job, checkpoint, tip), Stored(checkpoint, recorded),
         NEW r, DOMAIN r = Fields, r.after = NoRow, NEW i, CheckAnchors(r, i),
         pc' \in {"row", "page", "tx", "end"} => (run'.reorg <=> ~Kept(checkpoint, tip))
  PROVE  Clean(pc', run', row, tip)
<1> DEFINE next == Min(Listed(i))
<1>1. \/ Revalidate(r, FALSE)
      \/ Revalidate(r, TRUE)
      \/ Goto("hash", [r EXCEPT !.at = next], job)
  BY Zenon DEF CheckAnchors
<1>2. CASE Goto("hash", [r EXCEPT !.at = next], job)
  BY <1>2 DEF Goto, Clean
<1> QED
  BY <1>1, <1>2, RevalidateClean

LEMMA CheckAnchorsAsks ==
  ASSUME NEW r, DOMAIN r = Fields, r.after = NoRow, NEW i, CheckAnchors(r, i)
  PROVE  Asks(job) /\ (pc' \in {"tip", "hash"} => run'.after = NoRow)
<1> DEFINE next == Min(Listed(i))
<1>1. \/ \E reorg \in BOOLEAN : Revalidate(r, reorg)
      \/ Goto("hash", [r EXCEPT !.at = next], job)
  BY Zenon DEF CheckAnchors
<1> HIDE DEF next
<1>2. CASE Goto("hash", [r EXCEPT !.at = next], job)
  BY <1>2, FieldsAre DEF Goto, Asks
<1>3. CASE \E reorg \in BOOLEAN : Revalidate(r, reorg)
  BY <1>3, ListRowsAsks DEF Revalidate
<1> QED
  BY <1>1, <1>2, <1>3

-----------------------------------------------------------------------------
(* The steps.                                                              *)

(* A step of the reconciliation, from the jobs it finds.                   *)
LEMMA RowStep ==
  ASSUME NEW Rank, RowInv(Rank), UNCHANGED <<tip, checkpoint>>, row' \in Rows,
         NEW jobs \in [Txids -> Jobs], Idle(jobs), Asks(jobs),
         \A t \in Quiet : row'[t] \in Blocks => Settled(row'[t], checkpoint, tip),
         pc' \in {"tip", "hash"} => run'.after = NoRow,
         run'.start = tip => Clean(pc', run', row', tip)
  PROVE  RowInv(Rank)'
<1>1. job' \in [Txids -> Jobs] /\ Asked(pc', run', job') /\ \A t \in Quiet : ~SeenBlock(job', t)
  BY JobsAsked
<1>2. Firm(row', job', checkpoint', tip') /\ Fresh(job', tip')
  BY <1>1 DEF Firm, Fresh
<1>3. Aged(Rank, checkpoint', tip')
  BY DEF RowInv
<1> QED
  BY <1>1, <1>2, <1>3 DEF RowInv

(* A step that leaves the rows alone too.                                  *)
LEMMA RowsStay ==
  ASSUME NEW Rank, RowInv(Rank), UNCHANGED <<tip, checkpoint, row>>,
         pc \notin {"row", "tx"}, Asks(job),
         pc' \in {"tip", "hash"} => run'.after = NoRow,
         run'.start = tip => Clean(pc', run', row, tip)
  PROVE  RowInv(Rank)'
<1>1. Idle(job)
  BY DEF RowInv, Asked, Pending, Idle
<1>2. \A t \in Quiet : row'[t] \in Blocks => Settled(row'[t], checkpoint, tip)
  BY DEF RowInv, Firm
<1> QED
  BY <1>1, <1>2, RowStep DEF RowInv

(* Steps that leave the run and the quiet transactions alone.              *)
LEMMA QuietStays ==
  ASSUME NEW Rank, RowInv(Rank), UNCHANGED <<tip, checkpoint, pc, run>>,
         row' \in Rows, job' \in [Txids -> Jobs],
         \A t \in Quiet : row'[t] = row[t] /\ job'[t] = job[t]
  PROVE  RowInv(Rank)'
<1>1. Asked(pc, run, job')
  BY DEF RowInv, Asked
<1>2. Firm(row', job', checkpoint, tip)
  BY DEF RowInv, Firm, SeenBlock
<1>3. run.start = tip => Clean(pc, run, row', tip)
  BY DEF RowInv, Clean, Stale, RecordOf
<1>4. run.start = tip => Fresh(job', tip)
  BY DEF RowInv, Fresh, SeenBlock
<1> QED
  BY <1>1, <1>2, <1>3, <1>4 DEF RowInv

LEMMA SettledMoves ==
  ASSUME NEW Rank, NeverReturns(Rank), Stored(checkpoint, recorded), tip \in Blocks,
         Aged(Rank, checkpoint, tip), NEW b \in Blocks, <<tip, b>> \in Moves,
         NEW c \in Blocks, Settled(c, checkpoint, tip)
  PROVE  Settled(c, checkpoint, b)
<1> SUFFICES ASSUME Kept(checkpoint, b), BelowAnchors(c, checkpoint)
             PROVE  c \in OnChain(b)
  BY DEF Settled
<1>1. /\ \A a \in Blocks : Rank[a] \in Nat
      /\ \A a \in OnChain(b) \ OnChain(tip) : Rank[tip] < Rank[a]
  BY DEF NeverReturns, Upwards
<1>2. ASSUME NEW q \in Protocols
      PROVE  /\ checkpoint[q].block \in OnChain(tip)
             /\ checkpoint[q].block \in OnChain(b)
             /\ Height(c) <= Height(checkpoint[q].block)
  <2>1. /\ checkpoint[q] # NoCheckpoint /\ checkpoint[q].block \in OnChain(b)
        /\ checkpoint[q].block \in Blocks
        /\ Height(c) <= Height(checkpoint[q].block)
    BY DEF Kept, BelowAnchors, Stored, Sound
  <2>2. Rank[checkpoint[q].block] <= Rank[tip]
    BY <2>1 DEF Aged
  <2> QED
    BY <1>1, <2>1, <2>2
<1>3. c \in OnChain(tip)
  BY <1>2 DEF Settled, Kept
<1>4. PICK q \in Protocols : TRUE
  <2>1. Len(Discovery) \in Nat /\ Len(Discovery) # 0
    BY BackfillAssumption, Protocol, EmptySeq, LenProperties
  <2>2. 1 \in 1 .. Len(Discovery)
    BY <2>1
  <2> QED
    BY <2>2, Protocol
<1>5. c \in OnChain(checkpoint[q].block)
  BY <1>2, <1>3, ChainsBelow
<1> QED
  BY <1>2, <1>5, ChainsBelow

LEMMA TipMoveRows ==
  ASSUME NEW Rank, NeverReturns(Rank), IInv(Rank), RowInv(Rank), NEW b \in Blocks, TipMove(b)
  PROVE  RowInv(Rank)'
<1>1. /\ tip' = b /\ <<tip, b>> \in Moves
      /\ UNCHANGED <<row, recorded, checkpoint, job, pc, run>>
  BY DEF TipMove
<1>2. /\ Rank[tip] < Rank[b] /\ \A a \in Blocks : Rank[a] \in Nat
      /\ tip \in Blocks /\ Stored(checkpoint, recorded)
  BY <1>1 DEF NeverReturns, Upwards, IInv
<1>3. run.start # b
  BY <1>2, BackfillAssumption DEF IInv, Begun
<1>4. Aged(Rank, checkpoint, b)
  <2> SUFFICES ASSUME NEW q \in Protocols, checkpoint[q] # NoCheckpoint
               PROVE  Rank[checkpoint[q].block] <= Rank[b]
    BY DEF Aged
  <2>1. checkpoint[q].block \in Blocks /\ Rank[checkpoint[q].block] <= Rank[tip]
    BY <1>2 DEF RowInv, Aged, Stored, Sound
  <2> QED
    BY <1>2, <2>1
<1>5. Firm(row, job, checkpoint, b)
  <2>1. \A c \in Blocks : Settled(c, checkpoint, tip) => Settled(c, checkpoint, b)
    BY <1>1, <1>2, SettledMoves DEF RowInv
  <2> QED
    BY <2>1 DEF RowInv, Firm, SeenBlock
<1> QED
  BY <1>1, <1>3, <1>4, <1>5 DEF RowInv

LEMMA SubmitRows ==
  ASSUME NEW Rank, RowInv(Rank), NEW t \in LiveTxids, NEW withTip \in BOOLEAN,
         LiveSubmit(t, withTip)
  PROVE  RowInv(Rank)'
<1> DEFINE new == [tip |-> withTip, seen |-> "unread"]
<1>1. job' = [job EXCEPT ![t] = new] /\ UNCHANGED <<tip, row, checkpoint, pc, run>>
  BY DEF LiveSubmit, Submit
<1>2. new \in Jobs
  BY DEF Jobs
<1> HIDE DEF new
<1>3. job' \in [Txids -> Jobs] /\ \A u \in Quiet : job'[u] = job[u]
  BY <1>1, <1>2 DEF RowInv, Quiet
<1> QED
  BY <1>1, <1>3, QuietStays DEF RowInv

LEMMA FetchRows ==
  ASSUME NEW Rank, IInv(Rank), RowInv(Rank), NEW t \in Txids, Fetch(t)
  PROVE  RowInv(Rank)'
<1>1. PICK v \in Views(tip, t) : job' = [job EXCEPT ![t].seen = v]
  BY DEF Fetch
<1>2. job[t] # NoJob /\ UNCHANGED <<tip, row, checkpoint, pc, run>>
  BY DEF Fetch
<1>3. /\ v \in Blocks \cup {"mempool", "missing"}
      /\ v \in Blocks => v \in OnChain(tip)
  BY PlaceOnChain, BackfillAssumption DEF Views, IInv
<1>4. job[t] \in [tip : BOOLEAN, seen : Blocks \cup {"unread", "mempool", "missing"}]
  BY <1>2 DEF RowInv, Jobs
<1> DEFINE new == [job[t] EXCEPT !.seen = v]
<1>5. new \in Jobs /\ new.seen = v
  BY <1>3, <1>4 DEF Jobs
<1>6. job' = [job EXCEPT ![t] = new]
  BY <1>1
<1> HIDE DEF new
<1>7. /\ job' \in [Txids -> Jobs] /\ job'[t] = new
      /\ \A u \in Quiet \ {t} : job'[u] = job[u]
  BY <1>5, <1>6 DEF RowInv, Quiet
<1>8. Asked(pc, run, job')
  BY <1>2, <1>7 DEF RowInv, Asked
<1>9. ASSUME NEW u \in Quiet, SeenBlock(job', u)
      PROVE  (u = t /\ job'[u].seen \in OnChain(tip))
             \/ (job'[u] = job[u] /\ SeenBlock(job, u))
  BY <1>3, <1>5, <1>7, <1>9 DEF SeenBlock
<1>10. Firm(row, job', checkpoint, tip)
  BY <1>9 DEF RowInv, Firm, Settled
<1>11. run.start = tip => Fresh(job', tip)
  BY <1>9 DEF RowInv, Fresh
<1> QED
  BY <1>2, <1>7, <1>8, <1>10, <1>11 DEF RowInv

(* The run is given up, or ends.                                           *)
LEMMA ReturnRows ==
  ASSUME NEW Rank, RowInv(Rank), UNCHANGED <<tip, checkpoint>>, row' \in Rows,
         NEW jobs \in [Txids -> Jobs], Idle(jobs), Return(jobs),
         \A t \in Quiet : row'[t] \in Blocks => Settled(row'[t], checkpoint, tip)
  PROVE  RowInv(Rank)'
<1>1. pc' = "idle" /\ Asks(jobs)
  BY DEF Return, Goto, Asks
<1>2. Clean(pc', run', row', tip)
  BY <1>1 DEF Clean
<1> QED
  BY <1>1, <1>2, RowStep

(* What a job writes of its transaction is where it was seen.              *)
LEMMA WrittenRows ==
  ASSUME NEW Rank, RowInv(Rank), NEW t \in Txids, job[t] # NoJob, job[t].seen # "unread",
         \/ row' = Written(t, job[t].seen)
         \/ row' = [row EXCEPT ![t] = "inactive"]
  PROVE  /\ row' \in Rows
         /\ \A u \in Txids \ {t} : row'[u] = row[u]
         /\ row'[t] \in Blocks =>
              row'[t] = row[t] \/ (row'[t] = job[t].seen /\ job[t].seen \in Blocks)
         /\ job[t].seen # "missing" /\ row' = Written(t, job[t].seen) =>
              row'[t] = job[t].seen
<1>1. job[t].seen \in Blocks \cup {"mempool", "missing"}
  BY DEF RowInv, Jobs
<1>2. row \in Rows /\ "inactive" \notin Blocks /\ "mempool" \notin Blocks
  BY BackfillAssumption DEF RowInv
<1>3. CASE row' = [row EXCEPT ![t] = "inactive"]
  <2>1. row' \in Rows /\ row'[t] = "inactive" /\ \A u \in Txids \ {t} : row'[u] = row[u]
    BY <1>2, <1>3 DEF Rows
  <2>2. row' = Written(t, job[t].seen) /\ job[t].seen # "missing" => row'[t] = job[t].seen
    BY <1>2 DEF Written, Rows
  <2> QED
    BY <1>2, <2>1, <2>2
<1>4. CASE row' = Written(t, job[t].seen) /\ job[t].seen = "missing"
  BY <1>2, <1>4 DEF Written
<1>5. CASE row' = Written(t, job[t].seen) /\ job[t].seen # "missing"
  <2>1. row' = [row EXCEPT ![t] = job[t].seen]
    BY <1>5 DEF Written
  <2>2. job[t].seen \in Blocks \cup {"absent", "mempool", "inactive"}
    BY <1>1, <1>5
  <2>3. row' \in Rows /\ row'[t] = job[t].seen /\ \A u \in Txids \ {t} : row'[u] = row[u]
    BY <1>2, <2>1, <2>2 DEF Rows
  <2> QED
    BY <2>3
<1> QED
  BY <1>3, <1>4, <1>5

(* The job that the reconciliation waited for was the only quiet one.      *)
LEMMA LastJob ==
  ASSUME NEW Rank, RowInv(Rank), NEW t \in Txids, Pending(pc, run, t),
         NEW jobs, jobs = [job EXCEPT ![t] = NoJob]
  PROVE  jobs \in [Txids -> Jobs] /\ Idle(jobs)
<1>1. jobs \in [Txids -> Jobs] /\ jobs[t] = NoJob /\ \A u \in Txids \ {t} : jobs[u] = job[u]
  BY DEF RowInv, Jobs
<1>2. ASSUME NEW u \in Quiet, u # t
      PROVE  job[u] = NoJob
  BY <1>2 DEF RowInv, Asked, Pending
<1> QED
  BY <1>1, <1>2 DEF Idle, Quiet

LEMMA PersistRows ==
  ASSUME NEW Rank, IInv(Rank), RowInv(Rank), NEW t \in Txids, Persist(t)
  PROVE  RowInv(Rank)'
<1> DEFINE jobs == [job EXCEPT ![t] = NoJob]
           r == [run EXCEPT !.todo = Tail(@), !.done = @ \cup {t}]
<1>1. UNCHANGED <<tip, checkpoint>> /\ job[t] # NoJob /\ job[t].seen # "unread"
  BY DEF Persist
<1>2. row' = Written(t, job[t].seen) \/ row' = [row EXCEPT ![t] = "inactive"]
  BY DEF Persist
<1>3. \/ /\ ~Pending(pc, run, t)
         /\ job' = jobs /\ UNCHANGED <<pc, run>>
      \/ /\ AwaitsRow(t) /\ NextRow(row', jobs)
         /\ \/ row' = [row EXCEPT ![t] = "inactive"]
            \/ row' = Written(t, job[t].seen) /\ Durable(t, job[t])
      \/ /\ AwaitsTx(t) /\ NextTx(r, jobs)
         /\ row' = Written(t, job[t].seen) /\ Durable(t, job[t])
      \/ /\ Pending(pc, run, t)
         /\ Throw(jobs)
  BY DEF Persist, Pending, AwaitsRow, AwaitsTx
<1>4. jobs = [job EXCEPT ![t] = NoJob]
  OBVIOUS
<1> HIDE DEF jobs
<1>5. /\ row' \in Rows
      /\ \A u \in Txids \ {t} : row'[u] = row[u]
      /\ row'[t] \in Blocks =>
           row'[t] = row[t] \/ (row'[t] = job[t].seen /\ job[t].seen \in Blocks)
      /\ job[t].seen # "missing" /\ row' = Written(t, job[t].seen) => row'[t] = job[t].seen
  BY <1>1, <1>2, WrittenRows
<1>6. \A u \in Quiet : row'[u] \in Blocks => Settled(row'[u], checkpoint, tip)
  BY <1>1, <1>5 DEF RowInv, Firm, Quiet, SeenBlock
<1>7. DOMAIN run = Fields
  BY DEF IInv, Local
<1>8. CASE ~Pending(pc, run, t) /\ job' = jobs /\ UNCHANGED <<pc, run>>
  <2>1. t \notin Quiet
    BY <1>1, <1>8 DEF RowInv, Asked
  <2>2. job' \in [Txids -> Jobs] /\ \A u \in Quiet : job'[u] = job[u]
    BY <1>4, <1>8, <2>1 DEF RowInv, Jobs, Quiet
  <2>3. \A u \in Quiet : row'[u] = row[u]
    BY <1>5, <2>1 DEF Quiet
  <2> QED
    BY <1>1, <1>5, <1>8, <2>2, <2>3, QuietStays
<1>9. ASSUME \/ row' = [row EXCEPT ![t] = "inactive"]
             \/ row' = Written(t, job[t].seen) /\ Durable(t, job[t]),
             run.start = tip
      PROVE  \A u \in Quiet : Stale(row', u, tip) => u # t /\ row'[u] = row[u]
  <2> SUFFICES ASSUME t \in Quiet PROVE ~Stale(row', t, tip)
    BY <1>5 DEF Quiet
  <2>1. CASE row' = [row EXCEPT ![t] = "inactive"]
    BY <2>1, BackfillAssumption DEF RowInv, Rows, Stale
  <2>2. CASE row' = Written(t, job[t].seen) /\ Durable(t, job[t])
    <3>1. row'[t] = job[t].seen
      BY <1>5, <2>2, BackfillAssumption DEF Durable
    <3>2. job[t].seen \in Blocks => job[t].seen \in OnChain(tip)
      BY <1>1, <1>9 DEF RowInv, Fresh, SeenBlock
    <3> QED
      BY <3>1, <3>2 DEF Stale
  <2> QED
    BY <1>9, <2>1, <2>2
<1>10. CASE /\ AwaitsRow(t) /\ NextRow(row', jobs)
            /\ \/ row' = [row EXCEPT ![t] = "inactive"]
               \/ row' = Written(t, job[t].seen) /\ Durable(t, job[t])
  <2>1. pc = "row" /\ First(run.rows).txid = t /\ Pending(pc, run, t)
    BY <1>10 DEF AwaitsRow, Pending
  <2>2. jobs \in [Txids -> Jobs] /\ Idle(jobs)
    BY <1>4, <2>1, LastJob
  <2>3. Asks(jobs) /\ pc' \in {"idle", "row", "page", "end"}
    BY <1>10, NextRowAsks
  <2>4. ASSUME run'.start = tip
        PROVE  Clean(pc', run', row', tip)
    <3>1. CASE pc' = "idle"
      BY <3>1 DEF Clean
    <3>2. CASE pc' # "idle"
      <4>1. run.start = tip
        BY <1>7, <1>10, <2>4, <3>2, NextRowGoes, ListingStarts
      <4>2. Clean("row", run, row, tip)
        BY <2>1, <4>1 DEF RowInv
      <4>3. \A u \in Quiet : Stale(row', u, tip) => u # t /\ row'[u] = row[u]
        BY <1>9, <1>10, <4>1
      <4> QED
        BY <1>5, <1>7, <1>10, <2>1, <4>2, <4>3, NextRowClean
    <3> QED
      BY <3>1, <3>2
  <2> QED
    BY <1>1, <1>5, <1>6, <2>2, <2>3, <2>4, RowStep
<1>11. CASE /\ AwaitsTx(t) /\ NextTx(r, jobs)
            /\ row' = Written(t, job[t].seen) /\ Durable(t, job[t])
  <2>1. pc = "tx" /\ Pending(pc, run, t)
    BY <1>11 DEF AwaitsTx, Pending
  <2>2. jobs \in [Txids -> Jobs] /\ Idle(jobs)
    BY <1>4, <2>1, LastJob
  <2>3. DOMAIN r = Fields /\ r.start = run.start
    BY <1>7, FieldsAre
  <2> HIDE DEF r
  <2>4. Asks(jobs) /\ pc' \in {"page", "tx", "end"} /\ run'.start = run.start
    BY <1>11, <2>3, NextTxAsks
  <2>5. ASSUME run'.start = tip
        PROVE  Clean(pc', run', row', tip)
    <3>1. run.start = tip
      BY <2>4, <2>5
    <3>2. \A u \in Quiet : ~Stale(row, u, tip)
      BY <2>1, <3>1 DEF RowInv, Clean
    <3>3. \A u \in Quiet : Stale(row', u, tip) => row'[u] = row[u]
      BY <1>9, <1>11, <3>1
    <3>4. \A u \in Quiet : ~Stale(row', u, tip)
      BY <3>2, <3>3 DEF Stale
    <3> QED
      BY <3>4, CleanWhenNoneStale
  <2> QED
    BY <1>1, <1>5, <1>6, <2>2, <2>4, <2>5, RowStep
<1>12. CASE Pending(pc, run, t) /\ Throw(jobs)
  <2>1. jobs \in [Txids -> Jobs] /\ Idle(jobs)
    BY <1>4, <1>12, LastJob
  <2> QED
    BY <1>1, <1>5, <1>6, <1>12, <2>1, ReturnRows DEF Throw
<1> QED
  BY <1>3, <1>8, <1>10, <1>11, <1>12

LEMMA JobFailsRows ==
  ASSUME NEW Rank, RowInv(Rank), NEW t \in Txids, JobFails(t)
  PROVE  RowInv(Rank)'
<1> DEFINE jobs == [job EXCEPT ![t] = NoJob]
<1>1. /\ UNCHANGED <<tip, row, checkpoint>> /\ job[t] # NoJob
      /\ \/ Pending(pc, run, t) /\ Throw(jobs)
         \/ ~Pending(pc, run, t) /\ job' = jobs /\ UNCHANGED <<pc, run>>
  BY DEF JobFails, Pending, AwaitsRow, AwaitsTx
<1>2. jobs = [job EXCEPT ![t] = NoJob]
  OBVIOUS
<1> HIDE DEF jobs
<1>3. CASE Pending(pc, run, t) /\ Throw(jobs)
  <2>1. jobs \in [Txids -> Jobs] /\ Idle(jobs)
    BY <1>2, <1>3, LastJob
  <2>2. \A u \in Quiet : row'[u] \in Blocks => Settled(row'[u], checkpoint, tip)
    BY <1>1 DEF RowInv, Firm
  <2> QED
    BY <1>1, <1>3, <2>1, <2>2, ReturnRows DEF Throw, RowInv
<1>4. CASE ~Pending(pc, run, t) /\ job' = jobs /\ UNCHANGED <<pc, run>>
  <2>1. t \notin Quiet
    BY <1>1, <1>4 DEF RowInv, Asked
  <2>2. job' \in [Txids -> Jobs] /\ \A u \in Quiet : job'[u] = job[u]
    BY <1>2, <1>4, <2>1 DEF RowInv, Jobs, Quiet
  <2> QED
    BY <1>1, <1>4, <2>2, QuietStays DEF RowInv
<1> QED
  BY <1>1, <1>3, <1>4

LEMMA ThrowRows ==
  ASSUME NEW Rank, RowInv(Rank), UNCHANGED <<tip, checkpoint, row>>,
         pc \notin {"row", "tx"}, Throw(job)
  PROVE  RowInv(Rank)'
<1>1. pc' = "idle" /\ Asks(job)
  BY DEF Throw, Return, Goto, Asks
<1> QED
  BY <1>1, RowsStay DEF Clean

LEMMA BeginFullRows ==
  ASSUME NEW Rank, RowInv(Rank), UNCHANGED <<tip, checkpoint, row>>,
         pc \notin {"row", "tx"}, NEW n,
         Goto("tip", [Blank EXCEPT !.full = TRUE, !.attempt = n], job)
  PROVE  RowInv(Rank)'
<1>1. pc' = "tip" /\ run'.after = NoRow /\ Asks(job)
  BY DEF Goto, Asks, Blank
<1> QED
  BY <1>1, RowsStay DEF Clean

LEMMA BeginReorgRows ==
  ASSUME NEW Rank, IInv(Rank), RowInv(Rank), NEW h, BeginReorg(h)
  PROVE  RowInv(Rank)'
<1> DEFINE r == [Blank EXCEPT !.min = h]
<1>1. /\ pc = "idle" /\ ListRows(row, r, job)
      /\ UNCHANGED <<tip, checkpoint, row>>
  BY DEF BeginReorg
<1>2. DOMAIN r = Fields /\ r.start = NoBlock
  BY DEF Blank, Fields
<1> HIDE DEF r
<1>3. Asks(job) /\ pc' \in {"idle", "row", "page", "end"}
  BY <1>1, ListRowsAsks
<1>4. ASSUME run'.start = tip
      PROVE  pc' = "idle"
  BY <1>1, <1>2, <1>4, ListRowsGoes, ListingStarts, BackfillAssumption DEF IInv
<1> QED
  BY <1>1, <1>3, <1>4, RowsStay DEF Clean

(* The steps that compare the checkpoints with the chain.                  *)
LEMMA AnchorsRows ==
  ASSUME NEW Rank, IInv(Rank), IInv(Rank)', RowInv(Rank),
         UNCHANGED <<tip, checkpoint, row>>, pc \in {"tip", "hash"},
         NEW r, DOMAIN r = Fields, r.after = NoRow,
         (\E i : CheckAnchors(r, i)) \/ Revalidate(r, TRUE)
  PROVE  RowInv(Rank)'
<1>1. Asks(job) /\ (pc' \in {"tip", "hash"} => run'.after = NoRow)
  BY CheckAnchorsAsks, ListRowsAsks DEF Revalidate
<1>2. ASSUME run'.start = tip
      PROVE  Clean(pc', run', row, tip)
  <2>1. pc' \in {"row", "page", "tx", "end"} => (run'.reorg <=> ~Kept(checkpoint, tip))
    BY <1>2 DEF IInv, Established
  <2>2. row \in Rows /\ Firm(row, job, checkpoint, tip) /\ Stored(checkpoint, recorded)
    BY DEF IInv, RowInv
  <2> QED
    BY <2>1, <2>2, CheckAnchorsClean, RevalidateClean
<1> QED
  BY <1>1, <1>2, RowsStay

LEMMA ReadStartTipRows ==
  ASSUME NEW Rank, IInv(Rank), IInv(Rank)', RowInv(Rank), ReadStartTip
  PROVE  RowInv(Rank)'
<1> DEFINE r == [run EXCEPT !.start = tip]
<1>1. pc = "tip" /\ CheckAnchors(r, 1) /\ UNCHANGED <<tip, checkpoint, row>>
  BY DEF ReadStartTip
<1>2. DOMAIN r = Fields /\ r.after = NoRow
  BY <1>1, FieldsAre DEF IInv, Local, RowInv
<1> HIDE DEF r
<1> QED
  BY <1>1, <1>2, AnchorsRows

LEMMA ReadHashRows ==
  ASSUME NEW Rank, IInv(Rank), IInv(Rank)', RowInv(Rank), ReadHash
  PROVE  RowInv(Rank)'
<1> DEFINE i == run.at + 1
<1>1. /\ pc = "hash" /\ UNCHANGED <<tip, checkpoint, row>>
      /\ Throw(job) \/ CheckAnchors(run, i) \/ Revalidate(run, TRUE)
  BY DEF ReadHash
<1> HIDE DEF i
<1>2. DOMAIN run = Fields /\ run.after = NoRow
  BY <1>1 DEF IInv, Local, RowInv
<1> QED
  BY <1>1, <1>2, ThrowRows, AnchorsRows

LEMMA ReadPageRows ==
  ASSUME NEW Rank, IInv(Rank), RowInv(Rank), ReadPage
  PROVE  RowInv(Rank)'
<1> DEFINE h == History[tip][Discovery[run.at]]
           todo == PageOf(h, Head(run.pages))
           pages == << 0 >> \o Plan(Saved(run), Len(h)).more
           count == Len(h)
           first == [run EXCEPT !.count = count, !.todo = todo, !.pages = pages]
           other == [run EXCEPT !.todo = todo]
<1>1. /\ pc = "page" /\ UNCHANGED <<tip, checkpoint, row>>
      /\ NextTx(first, job) \/ NextTx(other, job) \/ Throw(job)
  BY DEF ReadPage
<1> HIDE DEF todo, pages, count
<1>2. /\ DOMAIN first = Fields /\ first.start = run.start
      /\ DOMAIN other = Fields /\ other.start = run.start
  BY FieldsAre DEF IInv, Local
<1> HIDE DEF first, other
<1>3. CASE Throw(job)
  BY <1>1, <1>3, ThrowRows
<1>4. CASE NextTx(first, job) \/ NextTx(other, job)
  <2>1. Asks(job) /\ pc' \in {"page", "tx", "end"} /\ run'.start = run.start
    BY <1>2, <1>4, NextTxAsks
  <2>2. run.start = tip => \A t \in Quiet : ~Stale(row, t, tip)
    BY <1>1 DEF RowInv, Clean
  <2> QED
    BY <1>1, <2>1, <2>2, CleanWhenNoneStale, RowsStay
<1> QED
  BY <1>1, <1>3, <1>4

(* A commit, whole or cut short: no stale row is left, and no job.         *)
LEMMA CommitRows ==
  ASSUME NEW Rank, Upwards(Rank), IInv(Rank), RowInv(Rank), pc = "end", run.start = tip,
         UNCHANGED <<tip, row>>, NEW n \in 0 .. Len(Discovery), checkpoint' = UpTo(n),
         pc' = "idle", job' \in [Txids -> Jobs], Idle(job')
  PROVE  RowInv(Rank)'
<1>1. \A t \in Quiet : ~Stale(row, t, tip)
  BY DEF RowInv, Clean
<1>2. Firm(row, job', checkpoint', tip)
  BY <1>1 DEF Firm, Stale, Settled, SeenBlock, Idle
<1>3. Aged(Rank, checkpoint', tip)
  <2> SUFFICES ASSUME NEW q \in Protocols, checkpoint'[q] # NoCheckpoint
               PROVE  Rank[checkpoint'[q].block] <= Rank[tip]
    BY DEF Aged
  <2>1. UpTo(n)[q] = checkpoint[q] \/ \E res : UpTo(n)[q] = Anchor(res, tip)
    BY Committed, Zenon
  <2>2. checkpoint'[q] = checkpoint[q] \/ checkpoint'[q].block = tip
    <3>1. \A res : Anchor(res, tip).block = tip
      BY DEF Anchor
    <3>2. checkpoint'[q] = UpTo(n)[q]
      OBVIOUS
    <3> QED
      BY <2>1, <3>1, <3>2, Zenon
  <2>3. Rank[tip] \in Int
    BY DEF IInv, Upwards
  <2> QED
    BY <2>2, <2>3 DEF RowInv, Aged
<1>4. Asked(pc', run', job') /\ Fresh(job', tip)
  BY DEF Asked, Fresh, SeenBlock, Idle
<1>5. Clean(pc', run', row, tip)
  BY DEF Clean
<1> QED
  BY <1>2, <1>3, <1>4, <1>5 DEF RowInv

LEMMA ReadEndTipRows ==
  ASSUME NEW Rank, Upwards(Rank), IInv(Rank), RowInv(Rank), ReadEndTip
  PROVE  RowInv(Rank)'
<1> DEFINE n == run.attempt + 1
<1>1. pc = "end" /\ UNCHANGED <<tip, row>>
  BY DEF ReadEndTip
<1>2. \/ run.start = tip /\ checkpoint' = UpTo(Len(Discovery)) /\ Return(job)
      \/ UNCHANGED checkpoint /\ Goto("tip", [Blank EXCEPT !.full = TRUE, !.attempt = n], job)
      \/ UNCHANGED checkpoint /\ Throw(job)
  BY DEF ReadEndTip, StableTip
<1> HIDE DEF n
<1>3. CASE run.start = tip /\ checkpoint' = UpTo(Len(Discovery)) /\ Return(job)
  <2>1. Len(Discovery) \in 0 .. Len(Discovery)
    BY Protocol
  <2>2. job' \in [Txids -> Jobs] /\ Idle(job') /\ pc' = "idle"
    BY <1>1, <1>3 DEF Return, Goto, RowInv, Asked, Pending, Idle
  <2> QED
    BY <1>1, <1>3, <2>1, <2>2, CommitRows
<1> QED
  BY <1>1, <1>2, <1>3, BeginFullRows, ThrowRows

LEMMA CrashRows ==
  ASSUME NEW Rank, Upwards(Rank), IInv(Rank), RowInv(Rank), Crash
  PROVE  RowInv(Rank)'
<1> DEFINE none == [t \in Txids |-> NoJob]
<1>1. UNCHANGED <<tip, row>> /\ Return(none)
  BY DEF Crash
<1>2. none \in [Txids -> Jobs] /\ Idle(none)
  BY DEF Jobs, Idle, Quiet
<1> HIDE DEF none
<1>3. CASE UNCHANGED checkpoint
  <2>1. \A t \in Quiet : row'[t] \in Blocks => Settled(row'[t], checkpoint, tip)
    BY <1>1 DEF RowInv, Firm
  <2> QED
    BY <1>1, <1>2, <1>3, <2>1, ReturnRows DEF RowInv
<1>4. CASE pc = "end" /\ run.start = tip
             /\ \E n \in 1 .. Len(Discovery) - 1 : checkpoint' = UpTo(n)
  <2>1. PICK n \in 1 .. Len(Discovery) - 1 : checkpoint' = UpTo(n)
    BY <1>4
  <2>2. n \in 0 .. Len(Discovery)
    BY Protocol
  <2>3. job' = none /\ pc' = "idle"
    BY <1>1 DEF Return, Goto
  <2> QED
    BY <1>1, <1>2, <1>4, <2>1, <2>2, <2>3, CommitRows
<1> QED
  BY <1>3, <1>4 DEF Crash, StableTip

LEMMA RowInvInit == ASSUME NEW Rank, Init PROVE RowInv(Rank)
<1>1. row \in Rows /\ job \in [Txids -> Jobs]
  BY DEF Init, Rows, Jobs
<1>2. Asked(pc, run, job) /\ Fresh(job, tip) /\ \A t \in Quiet : ~SeenBlock(job, t)
  BY DEF Init, Asked, Fresh, SeenBlock, Quiet
<1>3. Firm(row, job, checkpoint, tip)
  BY <1>2, BackfillAssumption DEF Init, Firm, Quiet
<1>4. Aged(Rank, checkpoint, tip)
  BY DEF Init, Aged
<1>5. pc = "idle"
  BY DEF Init
<1> QED
  BY <1>1, <1>2, <1>3, <1>4, <1>5 DEF RowInv, Clean

LEMMA RowInvNext ==
  ASSUME NEW Rank, NeverReturns(Rank), IInv(Rank), IInv(Rank)', RowInv(Rank), [Next]_vars
  PROVE  RowInv(Rank)'
<1>1. Upwards(Rank)
  BY DEF NeverReturns
<1>2. ASSUME NEW b \in Blocks, TipMove(b) PROVE RowInv(Rank)'
  BY <1>2, TipMoveRows
<1>3. CASE Heal \/ UNCHANGED vars
  BY <1>3, QuietStays DEF Heal, vars, RowInv
<1>4. ASSUME NEW t \in LiveTxids, NEW withTip \in BOOLEAN, LiveSubmit(t, withTip)
      PROVE  RowInv(Rank)'
  BY <1>4, SubmitRows
<1>5. ASSUME NEW t \in Txids, Fetch(t) \/ Persist(t) \/ JobFails(t) PROVE RowInv(Rank)'
  BY <1>5, FetchRows, PersistRows, JobFailsRows
<1>6. CASE BeginFull
  BY <1>6, BeginFullRows DEF BeginFull
<1>7. ASSUME NEW h \in reorgs, BeginReorg(h) PROVE RowInv(Rank)'
  BY <1>7, BeginReorgRows
<1>8. CASE Cycle
  BY <1>1, <1>8, ReadStartTipRows, ReadHashRows, ReadPageRows, ReadEndTipRows DEF Cycle
<1>9. CASE Fail
  BY <1>9, ThrowRows DEF Fail
<1>10. CASE Crash
  BY <1>1, <1>10, CrashRows
<1> QED
  BY <1>2, <1>3, <1>4, <1>5, <1>6, <1>7, <1>8, <1>9, <1>10 DEF Next

(***************************************************************************)
(* For every tree of blocks and every tip that never returns to a branch   *)
(* it left, whatever the daemon is told of, whatever fails, crashes or is  *)
(* retried, and however many rows a page lists: when a cycle commits, whole*)
(* or cut short, no row but those of live transactions is left in a block  *)
(* that is not on the chain (reconcileKnownConfirmed before the scan, from *)
(* above the lowest anchor or from the first row).                         *)
(***************************************************************************)
THEOREM CommitsLeaveNoStaleRow ==
  ASSUME NEW Rank, NeverReturns(Rank)
  PROVE  Spec => NoStaleRowAtCommit
<1> DEFINE Inv == IInv(Rank) /\ RowInv(Rank)
           NoneLeft == \A t \in Txids \ LiveTxids : row'[t] \in Blocks => row'[t] \in OnChain(tip)
<1>1. Init => Inv
  BY IInvInit, RowInvInit
<1>2. Inv /\ [Next]_vars => Inv'
  BY IInvNext, RowInvNext DEF NeverReturns
<1>3. Inv /\ [Next]_vars => [checkpoint' # checkpoint => NoneLeft]_vars
  <2> SUFFICES ASSUME Inv, Next, checkpoint' # checkpoint
               PROVE  NoneLeft
    BY Zenon DEF vars
  <2>1. pc = "end" /\ run.start = tip
    BY CheckpointChanges
  <2>2. row' = row
    <3>1. CASE ReadEndTip \/ Crash
      BY <3>1 DEF ReadEndTip, Crash
    <3>2. CASE ReadStartTip \/ ReadHash \/ ReadPage
      BY <3>2 DEF ReadStartTip, ReadHash, ReadPage
    <3>3. CASE ~Cycle /\ ~Crash
      BY <3>3 DEF Next, TipMove, Heal, LiveSubmit, Fetch, Persist, JobFails, BeginFull,
                  BeginReorg, Fail
    <3> QED
      BY <3>1, <3>2, <3>3 DEF Cycle
  <2>3. \A t \in Quiet : ~Stale(row, t, tip)
    BY <2>1 DEF RowInv, Clean
  <2> QED
    BY <2>2, <2>3 DEF Stale, Quiet
<1>4. Spec => [][checkpoint' # checkpoint => NoneLeft]_vars
  <2> HIDE DEF Inv, NoneLeft
  <2> QED
    BY <1>1, <1>2, <1>3, PTL DEF Spec
<1> QED
  BY <1>4 DEF NoStaleRowAtCommit

-----------------------------------------------------------------------------
(***************************************************************************)
(* The type invariant.  The program goes on with the attempt it is in, or  *)
(* the run is over: only a cycle whose tip has moved tries again.          *)
(***************************************************************************)
OneAttempt(r) == run'.attempt \in {0, r.attempt}

LEMMA ScanAttempt ==
  ASSUME NEW r, DOMAIN r = Fields, NEW i, NEW jobs, Scan(r, i, jobs)
  PROVE  OneAttempt(r)
<1>1. CASE i > Len(Discovery)
  BY <1>1 DEF Scan, Goto, OneAttempt
<1>2. CASE ~(i > Len(Discovery))
  BY <1>2, FieldsAre DEF Scan, Goto, OneAttempt
<1> QED
  BY <1>1, <1>2

LEMMA ListingAttempt ==
  ASSUME NEW r, DOMAIN r = Fields, NEW jobs, RowsDone(r, jobs) \/ AwaitRow(r, jobs)
  PROVE  OneAttempt(r)
<1>1. Blank.attempt = 0
  BY DEF Blank
<1>2. Scan(r, 1, jobs) \/ run' = Blank \/ run' = r
  BY DEF RowsDone, AwaitRow, Return, Goto
<1> QED
  BY <1>1, <1>2, ScanAttempt DEF OneAttempt

LEMMA ListRowsAttempt ==
  ASSUME NEW r, DOMAIN r = Fields, NEW rows, NEW jobs, ListRows(rows, r, jobs)
  PROVE  OneAttempt(r)
<1> DEFINE page == RowsPage(rows, r.min, r.after)
           cleared == [r EXCEPT !.rows = {}, !.after = NoRow, !.more = FALSE]
           more == Cardinality(page) >= RowLimit
           next == [r EXCEPT !.rows = page, !.after = Last(page), !.more = more]
<1>1. RowsDone(cleared, jobs) \/ AwaitRow(next, jobs)
  BY DEF ListRows
<1> HIDE DEF page, more
<1>2. /\ DOMAIN cleared = Fields /\ cleared.attempt = r.attempt
      /\ DOMAIN next = Fields /\ next.attempt = r.attempt
  BY FieldsAre
<1> HIDE DEF cleared, next
<1> QED
  BY <1>1, <1>2, ListingAttempt DEF OneAttempt

LEMMA NextRowAttempt ==
  ASSUME DOMAIN run = Fields, NEW rows, NEW jobs, NextRow(rows, jobs)
  PROVE  OneAttempt(run)
<1> DEFINE rest == run.rows \ {First(run.rows)}
           next == [run EXCEPT !.rows = rest]
           cleared == [run EXCEPT !.rows = {}, !.after = NoRow]
<1>1. AwaitRow(next, jobs) \/ ListRows(rows, run, jobs) \/ RowsDone(cleared, jobs)
  BY DEF NextRow
<1> HIDE DEF rest
<1>2. /\ DOMAIN cleared = Fields /\ cleared.attempt = run.attempt
      /\ DOMAIN next = Fields /\ next.attempt = run.attempt
  BY FieldsAre
<1> HIDE DEF cleared, next
<1> QED
  BY <1>1, <1>2, ListingAttempt, ListRowsAttempt DEF OneAttempt

LEMMA NextTxAttempt ==
  ASSUME NEW r, DOMAIN r = Fields, NEW jobs, NextTx(r, jobs)
  PROVE  OneAttempt(r)
<1> DEFINE left == {i \in DOMAIN r.todo : r.todo[i] \notin r.done}
           rest == SubSeq(r.todo, Min(left), Len(r.todo))
           s == [r EXCEPT !.todo = <<>>]
           u == [r EXCEPT !.todo = rest]
           pages == Tail(s.pages)
           results == Append(s.results, PassResult(s))
           i == s.at + 1
           v == [s EXCEPT !.pages = pages]
           w == [s EXCEPT !.results = results, !.pages = <<>>, !.count = NoCount, !.done = {}]
<1>1. \/ Goto("tx", u, Submit(jobs, Head(rest), FALSE))
      \/ Goto("page", v, jobs)
      \/ Scan(w, i, jobs)
  BY DEF NextTx, PageDone
<1> HIDE DEF left, rest, pages, results, i
<1>2. /\ DOMAIN s = Fields /\ s.attempt = r.attempt /\ u.attempt = r.attempt
  BY FieldsAre
<1> HIDE DEF s, u
<1>3. v.attempt = r.attempt /\ DOMAIN w = Fields /\ w.attempt = r.attempt
  BY <1>2, FieldsAre
<1> HIDE DEF v, w
<1> QED
  BY <1>1, <1>2, <1>3, ScanAttempt DEF Goto, OneAttempt

LEMMA RevalidateGoesOn ==
  ASSUME NEW r, DOMAIN r = Fields, NEW reorg, Revalidate(r, reorg)
  PROVE  Asks(job) /\ OneAttempt(r)
<1> DEFINE min == IF reorg THEN 0 ELSE RevalidationHeight
           s == [r EXCEPT !.reorg = reorg, !.at = 0, !.min = min]
<1>1. ListRows(row, s, job)
  BY DEF Revalidate
<1> HIDE DEF min
<1>2. DOMAIN s = Fields /\ s.attempt = r.attempt
  BY FieldsAre
<1> HIDE DEF s
<1> QED
  BY <1>1, <1>2, ListRowsAsks, ListRowsAttempt DEF OneAttempt

LEMMA CheckAnchorsGoesOn ==
  ASSUME NEW r, DOMAIN r = Fields, NEW i, CheckAnchors(r, i)
  PROVE  Asks(job) /\ OneAttempt(r)
<1> DEFINE next == Min(Listed(i))
<1>1. \/ Revalidate(r, FALSE)
      \/ Revalidate(r, TRUE)
      \/ Goto("hash", [r EXCEPT !.at = next], job)
  BY Zenon DEF CheckAnchors
<1> HIDE DEF next
<1>2. CASE Goto("hash", [r EXCEPT !.at = next], job)
  BY <1>2, FieldsAre DEF Goto, Asks, OneAttempt
<1> QED
  BY <1>1, <1>2, RevalidateGoesOn

LEMMA JobsTyped ==
  ASSUME NEW jobs \in [Txids -> Jobs], Asks(jobs)
  PROVE  job' \in [Txids -> Jobs]
<1>1. CASE job' = jobs
  BY <1>1
<1>2. CASE \E t : \E withTip \in BOOLEAN : job' = Submit(jobs, t, withTip) /\ Pending(pc', run', t)
  <2>1. PICK t, withTip : withTip \in BOOLEAN /\ job' = Submit(jobs, t, withTip)
    BY <1>2
  <2> DEFINE new == [tip |-> withTip, seen |-> "unread"]
  <2>2. job' = jobs \/ job' = [jobs EXCEPT ![t] = new]
    BY <2>1 DEF Submit
  <2>3. new \in Jobs
    BY <2>1 DEF Jobs
  <2> HIDE DEF new
  <2> QED
    BY <2>2, <2>3
<1> QED
  BY <1>1, <1>2 DEF Asks

Attempts == 0 .. MaxStableTipAttempts

(* What a job that ends leaves, and those who waited for it.               *)
LEMMA PersistTypes ==
  ASSUME NEW Rank, IInv(Rank), TypeOK, NEW t \in Txids, Persist(t)
  PROVE  /\ row' \in Rows /\ recorded' \subseteq Txids
         /\ job' \in [Txids -> Jobs] /\ run'.attempt \in Attempts
<1> DEFINE jobs == [job EXCEPT ![t] = NoJob]
           r == [run EXCEPT !.todo = Tail(@), !.done = @ \cup {t}]
<1>1. job[t] # NoJob /\ job[t].seen # "unread"
  BY DEF Persist
<1>2. jobs \in [Txids -> Jobs]
  BY DEF TypeOK, Jobs
<1>3. job[t].seen \in Blocks \cup {"mempool", "missing"}
  BY <1>1 DEF TypeOK, Jobs
<1>4. row' \in Rows
  <2>1. row' = row \/ row' = [row EXCEPT ![t] = "inactive"]
        \/ (job[t].seen # "missing" /\ row' = [row EXCEPT ![t] = job[t].seen])
    BY DEF Persist, Written
  <2> QED
    BY <1>3, <2>1 DEF TypeOK, Rows
<1>5. recorded' \subseteq Txids
  BY DEF Persist, TypeOK
<1>6. \/ job' = jobs /\ UNCHANGED run
      \/ NextRow(row', jobs)
      \/ NextTx(r, jobs)
      \/ Throw(jobs)
  BY DEF Persist
<1> HIDE DEF jobs
<1>7. DOMAIN run = Fields /\ DOMAIN r = Fields /\ r.attempt = run.attempt
  BY FieldsAre DEF IInv, Local
<1> HIDE DEF r
<1>8. run.attempt \in Attempts /\ 0 \in Attempts
  BY BackfillAssumption DEF TypeOK, Attempts
<1>9. CASE job' = jobs /\ UNCHANGED run
  BY <1>2, <1>4, <1>5, <1>8, <1>9
<1>10. CASE Throw(jobs)
  BY <1>2, <1>4, <1>5, <1>8, <1>10 DEF Throw, Return, Goto, Blank
<1>11. CASE NextRow(row', jobs) \/ NextTx(r, jobs)
  <2>1. Asks(jobs)
    BY <1>7, <1>11, NextRowAsks, NextTxAsks
  <2>2. run'.attempt \in {0, run.attempt}
    BY <1>7, <1>11, NextRowAttempt, NextTxAttempt DEF OneAttempt
  <2> QED
    BY <1>2, <1>4, <1>5, <1>8, <2>1, <2>2, JobsTyped
<1> QED
  BY <1>6, <1>9, <1>10, <1>11

(* The other steps that the program goes on with.                          *)
LEMMA CycleTypes ==
  ASSUME NEW Rank, IInv(Rank), TypeOK, Cycle \/ Fail \/ BeginFull \/ (\E h \in reorgs : BeginReorg(h))
  PROVE  job' \in [Txids -> Jobs] /\ run'.attempt \in Attempts
<1>1. DOMAIN run = Fields
  BY DEF IInv, Local
<1>2. run.attempt \in Attempts /\ 0 \in Attempts /\ 1 \in Attempts
  BY BackfillAssumption DEF TypeOK, Attempts
<1>3. job \in [Txids -> Jobs]
  BY DEF TypeOK
<1>4. ASSUME Throw(job)
      PROVE  job' \in [Txids -> Jobs] /\ run'.attempt \in Attempts
  BY <1>2, <1>3, <1>4 DEF Throw, Return, Goto, Blank
<1>5. ASSUME NEW r, r.attempt \in Attempts, Asks(job), OneAttempt(r)
      PROVE  job' \in [Txids -> Jobs] /\ run'.attempt \in Attempts
  BY <1>2, <1>3, <1>5, JobsTyped DEF OneAttempt
<1>6. CASE ReadStartTip
  <2> DEFINE r == [run EXCEPT !.start = tip]
  <2>1. CheckAnchors(r, 1)
    BY <1>6 DEF ReadStartTip
  <2>2. DOMAIN r = Fields /\ r.attempt = run.attempt
    BY <1>1, FieldsAre
  <2> HIDE DEF r
  <2> QED
    BY <1>2, <1>5, <2>1, <2>2, CheckAnchorsGoesOn
<1>7. CASE ReadHash
  <2> DEFINE i == run.at + 1
  <2>1. Throw(job) \/ CheckAnchors(run, i) \/ Revalidate(run, TRUE)
    BY <1>7 DEF ReadHash
  <2> HIDE DEF i
  <2> QED
    BY <1>1, <1>2, <1>4, <1>5, <2>1, CheckAnchorsGoesOn, RevalidateGoesOn
<1>8. CASE ReadPage
  <2> DEFINE h == History[tip][Discovery[run.at]]
             todo == PageOf(h, Head(run.pages))
             pages == << 0 >> \o Plan(Saved(run), Len(h)).more
             count == Len(h)
             first == [run EXCEPT !.count = count, !.todo = todo, !.pages = pages]
             other == [run EXCEPT !.todo = todo]
  <2>1. NextTx(first, job) \/ NextTx(other, job) \/ Throw(job)
    BY <1>8 DEF ReadPage
  <2> HIDE DEF todo, pages, count
  <2>2. /\ DOMAIN first = Fields /\ first.attempt = run.attempt
        /\ DOMAIN other = Fields /\ other.attempt = run.attempt
    BY <1>1, FieldsAre
  <2> HIDE DEF first, other
  <2> QED
    BY <1>2, <1>4, <1>5, <2>1, <2>2, NextTxAsks, NextTxAttempt
<1>9. CASE ReadEndTip
  <2> DEFINE n == run.attempt + 1
             again == [Blank EXCEPT !.full = TRUE, !.attempt = n]
  <2>1. \/ Return(job)
        \/ MayRetry(run.attempt) /\ Goto("tip", again, job)
        \/ Throw(job)
    BY <1>9 DEF ReadEndTip
  <2>2. MayRetry(run.attempt) => n \in Attempts
    BY <1>2, BackfillAssumption DEF MayRetry, Attempts
  <2> HIDE DEF n
  <2>3. again.attempt = n /\ Blank.attempt = 0
    BY DEF Blank
  <2> HIDE DEF again
  <2> QED
    BY <1>2, <1>3, <1>4, <2>1, <2>2, <2>3 DEF Return, Goto
<1>10. CASE Fail
  BY <1>4, <1>10 DEF Fail
<1>11. CASE BeginFull
  BY <1>2, <1>3, <1>11 DEF BeginFull, Goto, Blank
<1>12. ASSUME NEW h \in reorgs, BeginReorg(h)
       PROVE  job' \in [Txids -> Jobs] /\ run'.attempt \in Attempts
  <2> DEFINE r == [Blank EXCEPT !.min = h]
  <2>1. ListRows(row, r, job)
    BY <1>12 DEF BeginReorg
  <2>2. DOMAIN r = Fields /\ r.attempt = 0
    BY DEF Blank, Fields
  <2> HIDE DEF r
  <2> QED
    BY <1>2, <1>5, <2>1, <2>2, ListRowsAsks, ListRowsAttempt
<1> QED
  BY <1>6, <1>7, <1>8, <1>9, <1>10, <1>11, <1>12 DEF Cycle

LEMMA JobTypes ==
  ASSUME NEW Rank, IInv(Rank), TypeOK, Next
  PROVE  /\ row' \in Rows /\ recorded' \subseteq Txids
         /\ job' \in [Txids -> Jobs] /\ run'.attempt \in Attempts
<1>1. /\ row \in Rows /\ recorded \subseteq Txids /\ job \in [Txids -> Jobs]
      /\ run.attempt \in Attempts /\ 0 \in Attempts
  BY BackfillAssumption DEF TypeOK, Rows, Attempts
<1>2. ASSUME NEW t \in Txids, Persist(t)
      PROVE  /\ row' \in Rows /\ recorded' \subseteq Txids
             /\ job' \in [Txids -> Jobs] /\ run'.attempt \in Attempts
  BY <1>2, PersistTypes
<1>3. CASE (\E b \in Blocks : TipMove(b)) \/ Heal
  BY <1>1, <1>3 DEF TipMove, Heal
<1>4. ASSUME NEW t \in LiveTxids, NEW withTip \in BOOLEAN, LiveSubmit(t, withTip)
      PROVE  job' \in [Txids -> Jobs] /\ UNCHANGED <<row, recorded, run>>
  <2> DEFINE new == [tip |-> withTip, seen |-> "unread"]
  <2>1. job' = [job EXCEPT ![t] = new] /\ UNCHANGED <<row, recorded, run>>
    BY <1>4 DEF LiveSubmit, Submit
  <2>2. new \in Jobs
    BY DEF Jobs
  <2> HIDE DEF new
  <2> QED
    BY <1>1, <2>1, <2>2
<1>5. ASSUME NEW t \in Txids, Fetch(t)
      PROVE  job' \in [Txids -> Jobs] /\ UNCHANGED <<row, recorded, run>>
  <2>1. PICK v \in Views(tip, t) : job' = [job EXCEPT ![t].seen = v]
    BY <1>5 DEF Fetch
  <2>2. v \in Blocks \cup {"mempool", "missing"}
    BY PlaceOnChain DEF Views, IInv
  <2> DEFINE new == [job[t] EXCEPT !.seen = v]
  <2>3. job[t] # NoJob /\ UNCHANGED <<row, recorded, run>>
    BY <1>5 DEF Fetch
  <2>4. new \in Jobs
    BY <1>1, <2>2, <2>3 DEF Jobs
  <2>5. job' = [job EXCEPT ![t] = new]
    BY <2>1
  <2> HIDE DEF new
  <2> QED
    BY <1>1, <2>3, <2>4, <2>5
<1>6. ASSUME NEW t \in Txids, JobFails(t)
      PROVE  /\ job' \in [Txids -> Jobs] /\ run'.attempt \in Attempts
             /\ UNCHANGED <<row, recorded>>
  <2> DEFINE jobs == [job EXCEPT ![t] = NoJob]
  <2>1. /\ Throw(jobs) \/ (job' = jobs /\ UNCHANGED run)
        /\ UNCHANGED <<row, recorded>>
    BY <1>6 DEF JobFails
  <2>2. jobs \in [Txids -> Jobs]
    BY <1>1 DEF Jobs
  <2> HIDE DEF jobs
  <2> QED
    BY <1>1, <2>1, <2>2 DEF Throw, Return, Goto, Blank
<1>7. CASE Cycle \/ Fail \/ BeginFull \/ \E h \in reorgs : BeginReorg(h)
  <2>1. UNCHANGED <<row, recorded>>
    BY <1>7 DEF Cycle, ReadStartTip, ReadHash, ReadPage, ReadEndTip, Fail, BeginFull, BeginReorg
  <2> QED
    BY <1>1, <1>7, <2>1, CycleTypes
<1>8. CASE Crash
  <2>1. job' = [t \in Txids |-> NoJob] /\ run' = Blank /\ UNCHANGED <<row, recorded>>
    BY <1>8 DEF Crash, Return, Goto
  <2> QED
    BY <1>1, <2>1 DEF Jobs, Blank
<1> QED
  BY <1>1, <1>2, <1>3, <1>4, <1>5, <1>6, <1>7, <1>8 DEF Next

Stati == [state : {"idle", "running", "succeeded", "failed"}, complete : BOOLEAN]

LEMMA StatusTypes ==
  ASSUME TypeOK, Next
  PROVE  status' \in Stati /\ healthy' \in BOOLEAN /\ reorgs' \subseteq Nat
<1>1. status \in Stati /\ healthy \in BOOLEAN /\ reorgs \subseteq Nat /\ tip \in Blocks
  BY DEF TypeOK, Stati
<1>2. healthy' = healthy \/ healthy' = TRUE
  BY DEF Next, TipMove, Heal, LiveSubmit, Fetch, Persist, JobFails, BeginFull, BeginReorg,
         Cycle, ReadStartTip, ReadHash, ReadPage, ReadEndTip, Fail, Crash
<1>3. \/ status' = status
      \/ status' = [status EXCEPT !.state = "failed"]
      \/ status' = [status EXCEPT !.state = "running"]
      \/ status' = [state |-> "idle", complete |-> FALSE]
      \/ \E c \in BOOLEAN : status' = [state |-> "succeeded", complete |-> c]
  <2>1. ASSUME NEW jobs, Throw(jobs)
        PROVE  status' = status \/ status' = [status EXCEPT !.state = "failed"]
    BY <2>1 DEF Throw
  <2>2. CASE ReadEndTip
    <3> DEFINE c == \A i \in DOMAIN run.results : run.results[i].complete
    <3>1. \/ status' = [state |-> "succeeded", complete |-> c]
          \/ UNCHANGED status
          \/ Throw(job)
      BY <2>2 DEF ReadEndTip
    <3>2. c \in BOOLEAN
      OBVIOUS
    <3> HIDE DEF c
    <3> QED
      BY <2>1, <3>1, <3>2
  <2>3. CASE ReadStartTip \/ ReadHash \/ ReadPage \/ Fail
    <3>1. UNCHANGED status \/ Throw(job)
      BY <2>3 DEF ReadStartTip, ReadHash, ReadPage, Fail
    <3> QED
      BY <2>1, <3>1
  <2>4. ASSUME NEW t \in Txids, Persist(t) \/ JobFails(t)
        PROVE  status' = status \/ status' = [status EXCEPT !.state = "failed"]
    <3> DEFINE jobs == [job EXCEPT ![t] = NoJob]
    <3>1. UNCHANGED status \/ Throw(jobs)
      BY <2>4 DEF Persist, JobFails
    <3> HIDE DEF jobs
    <3> QED
      BY <2>1, <3>1
  <2>5. CASE Crash
    BY <2>5 DEF Crash
  <2>6. CASE BeginFull
    BY <2>6 DEF BeginFull
  <2>7. CASE \/ \E b \in Blocks : TipMove(b)
             \/ Heal
             \/ \E t \in LiveTxids, withTip \in BOOLEAN : LiveSubmit(t, withTip)
             \/ \E t \in Txids : Fetch(t)
             \/ \E h \in reorgs : BeginReorg(h)
    BY <2>7 DEF TipMove, Heal, LiveSubmit, Fetch, BeginReorg
  <2> QED
    BY <2>2, <2>3, <2>4, <2>5, <2>6, <2>7 DEF Next, Cycle
<1>4. status' \in Stati
  <2>1. ASSUME NEW s \in {"failed", "running"}
        PROVE  [status EXCEPT !.state = s] \in Stati
    BY <1>1 DEF Stati
  <2>2. \A c \in BOOLEAN : [state |-> "succeeded", complete |-> c] \in Stati
    BY DEF Stati
  <2>3. [state |-> "idle", complete |-> FALSE] \in Stati
    BY DEF Stati
  <2> QED
    BY <1>1, <1>3, <2>1, <2>2, <2>3
<1>5. reorgs' \subseteq Nat
  <2>1. ASSUME NEW b \in Blocks, TipMove(b)
        PROVE  reorgs' \subseteq Nat
    <3>1. \A a \in OnChain(tip) \ OnChain(b) : Height(a) \in Nat
      BY <1>1, PlaceOnChain, TipOfChain
    <3> QED
      BY <1>1, <2>1, <3>1 DEF TipMove
  <2>2. reorgs' \subseteq reorgs \/ \E b \in Blocks : TipMove(b)
    BY DEF Next, Heal, LiveSubmit, Fetch, Persist, JobFails, BeginFull, BeginReorg,
           Cycle, ReadStartTip, ReadHash, ReadPage, ReadEndTip, Fail, Crash
  <2> QED
    BY <1>1, <2>1, <2>2
<1> QED
  BY <1>1, <1>2, <1>4, <1>5

(***************************************************************************)
(* For every chain whose tip never returns to a block it left, the state   *)
(* of the reconciliation keeps to its types: the checkpoints are written   *)
(* from results that are all there, every row and job tells a block of the *)
(* tree or that there is none, and no cycle is tried more often than       *)
(* MAX_STABLE_TIP_ATTEMPTS (reconcileConfirmed, commitCheckpoint).         *)
(***************************************************************************)
THEOREM BackfillTypeCorrect ==
  ASSUME NEW Rank, Upwards(Rank)
  PROVE  Spec => []TypeOK
<1> DEFINE Inv == IInv(Rank) /\ TypeOK
           Anchors(cps) ==
             \A q \in Protocols :
               cps[q] \in {NoCheckpoint} \cup
                 [cursor : Nat, history : Nat, complete : BOOLEAN, block : Blocks]
<1>1. Init => Inv
  <2> SUFFICES ASSUME Init PROVE TypeOK
    BY IInvInit
  <2>1. status \in Stati /\ row \in Rows /\ job \in [Txids -> Jobs]
    BY DEF Init, Stati, Rows, Jobs
  <2>2. run.attempt \in Attempts /\ run.start = NoBlock
    BY BackfillAssumption DEF Init, Blank, Attempts
  <2>3. Anchors(checkpoint)
    BY DEF Init
  <2> QED
    BY <2>1, <2>2, <2>3, BackfillAssumption DEF Init, TypeOK, Stati, Rows, Attempts
<1>2. Inv /\ [Next]_vars => Inv'
  <2> SUFFICES ASSUME Inv, [Next]_vars
               PROVE  Inv'
    OBVIOUS
  <2>1. IInv(Rank)'
    BY IInvNext
  <2>2. CASE UNCHANGED vars
    BY <2>1, <2>2 DEF vars, TypeOK
  <2>3. CASE Next
    <3>1. Anchors(checkpoint')
      <4> SUFFICES ASSUME NEW q \in Protocols
                   PROVE  checkpoint'[q] \in {NoCheckpoint} \cup
                            [cursor : Nat, history : Nat, complete : BOOLEAN, block : Blocks]
        OBVIOUS
      <4>1. checkpoint'[q] = checkpoint[q] \/ \E res \in Results : checkpoint'[q] = Anchor(res, tip)
        BY <2>3, CheckpointChanges, Committed
      <4>2. tip \in Blocks
        BY DEF IInv
      <4>3. \A res \in Results :
              Anchor(res, tip) \in [cursor : Nat, history : Nat, complete : BOOLEAN, block : Blocks]
        BY <4>2 DEF Anchor, Results
      <4> QED
        BY <4>1, <4>3 DEF TypeOK
    <3>2. /\ row' \in Rows /\ recorded' \subseteq Txids
          /\ job' \in [Txids -> Jobs] /\ run'.attempt \in Attempts
      BY <2>3, JobTypes
    <3>3. status' \in Stati /\ healthy' \in BOOLEAN /\ reorgs' \subseteq Nat
      BY <2>3, StatusTypes
    <3>4. /\ tip' \in Blocks /\ run'.start \in Blocks \cup {NoBlock}
          /\ pc' \in {"idle", "tip", "hash", "row", "page", "tx", "end"}
      BY <2>1 DEF IInv, Begun, Local
    <3> QED
      BY <2>1, <3>1, <3>2, <3>3, <3>4, Zenon DEF TypeOK, Stati, Rows, Attempts
  <2> QED
    BY <2>2, <2>3
<1> QED
  <2>1. Inv => TypeOK
    OBVIOUS
  <2> HIDE DEF Inv
  <2> QED
    BY <1>1, <1>2, <2>1, PTL DEF Spec

-----------------------------------------------------------------------------
(* The loops of a pass against the closed form (PagePlanLoops).            *)

LEMMA SpanGrows ==
  ASSUME NEW lo \in Nat, NEW hi \in Nat, NEW next, next = hi + 1
  PROVE  lo <= hi => Append(Span(lo, hi), hi) = Span(lo, next)
<1> DEFINE short == Span(lo, hi)
           long == Span(lo, next)
<1>1. /\ short \in Seq(Nat)
      /\ Len(short) = IF lo < hi THEN hi - lo ELSE 0
      /\ \A i \in 1 .. Len(short) : short[i] = lo + i - 1
  BY SpanIs
<1>2. next \in Nat
  OBVIOUS
<1>3. /\ long \in Seq(Nat)
      /\ Len(long) = IF lo < next THEN next - lo ELSE 0
      /\ \A i \in 1 .. Len(long) : long[i] = lo + i - 1
  BY <1>2, SpanIs
<1> HIDE DEF short, long
<1>4. ASSUME lo <= hi
      PROVE  Append(short, hi) = long
  <2> DEFINE more == Append(short, hi)
  <2>1. Len(short) = hi - lo /\ Len(long) = Len(short) + 1 /\ Len(short) \in Nat
    BY <1>1, <1>3, <1>4
  <2>2. /\ more \in Seq(Nat)
        /\ Len(more) = Len(short) + 1
        /\ \A i \in 1 .. Len(short) : more[i] = short[i]
        /\ more[Len(short) + 1] = hi
    BY <1>1, AppendProperties
  <2> HIDE DEF more
  <2>3. ASSUME NEW i \in 1 .. Len(more)
        PROVE  more[i] = long[i]
    <3>1. CASE i <= Len(short)
      BY <1>1, <1>3, <2>1, <2>2, <3>1
    <3>2. CASE i = Len(short) + 1
      BY <1>3, <2>1, <2>2, <3>2
    <3> QED
      BY <2>1, <2>2, <3>1, <3>2
  <2>4. more = long
    BY <1>3, <2>1, <2>2, <2>3, SeqEqual
  <2> QED
    BY <2>4 DEF more
<1> QED
  BY <1>4 DEF short, long

LEMMA NoSpan ==
  ASSUME NEW lo \in Nat, NEW hi \in Nat, hi <= lo
  PROVE  Span(lo, hi) = << >>
<1>1. Span(lo, hi) \in Seq(Nat) /\ Len(Span(lo, hi)) = IF lo < hi THEN hi - lo ELSE 0
  BY SpanIs
<1> QED
  BY <1>1, EmptySeq

LEMMA AppendToSecond ==
  ASSUME NEW a \in Seq(Nat), NEW b \in Seq(Nat), NEW e \in Nat
  PROVE  Append(a \o b, e) = a \o Append(b, e)
<1> DEFINE ab == a \o b
           be == Append(b, e)
           left == Append(ab, e)
           right == a \o be
           m == Len(a)
           n == Len(b)
<1>1. /\ ab \in Seq(Nat) /\ Len(ab) = m + n
      /\ \A i \in 1 .. m + n : ab[i] = IF i <= m THEN a[i] ELSE b[i - m]
      /\ m \in Nat /\ n \in Nat
  BY ConcatProperties, LenProperties
<1>2. /\ be \in Seq(Nat) /\ Len(be) = n + 1
      /\ \A i \in 1 .. n : be[i] = b[i]
      /\ be[n + 1] = e
  BY AppendProperties
<1> HIDE DEF ab, be
<1>3. /\ right \in Seq(Nat) /\ Len(right) = m + (n + 1)
      /\ \A i \in 1 .. m + (n + 1) : right[i] = IF i <= m THEN a[i] ELSE be[i - m]
  <2>1. /\ right \in Seq(Nat) /\ Len(right) = Len(a) + Len(be)
        /\ \A i \in 1 .. Len(a) + Len(be) :
             right[i] = IF i <= Len(a) THEN a[i] ELSE be[i - Len(a)]
    BY <1>2, ConcatProperties
  <2> HIDE DEF right, m, n
  <2>2. Len(a) = m /\ Len(be) = n + 1
    BY <1>2 DEF m
  <2> QED
    BY <2>1, <2>2
<1>4. /\ left \in Seq(Nat) /\ Len(left) = (m + n) + 1
      /\ \A i \in 1 .. m + n : left[i] = ab[i]
      /\ left[(m + n) + 1] = e
  BY <1>1, AppendProperties
<1> HIDE DEF left, right, m, n
<1>5. ASSUME NEW i \in 1 .. Len(left)
      PROVE  left[i] = right[i]
  <2>1. CASE i <= m
    <3>1. i \in 1 .. m + n /\ i \in 1 .. m + (n + 1)
      BY <1>1, <2>1
    <3> QED
      BY <1>1, <1>3, <1>4, <2>1, <3>1
  <2>2. CASE i > m /\ i <= m + n
    <3>1. i - m \in 1 .. n /\ i \in 1 .. m + n /\ i \in 1 .. m + (n + 1) /\ ~(i <= m)
      BY <1>1, <2>2
    <3>2. left[i] = b[i - m]
      BY <1>1, <1>4, <3>1
    <3>3. right[i] = b[i - m]
      BY <1>2, <1>3, <3>1
    <3> QED
      BY <3>2, <3>3
  <2>3. CASE i = m + n + 1
    <3>1. i - m = n + 1 /\ i \in 1 .. m + (n + 1) /\ ~(i <= m) /\ i = (m + n) + 1
      BY <1>1, <2>3
    <3> QED
      BY <1>2, <1>3, <1>4, <3>1
  <2> QED
    BY <1>1, <1>4, <2>1, <2>2, <2>3
<1>6. Len(left) = Len(right)
  BY <1>1, <1>3, <1>4
<1>7. left = right
  BY <1>3, <1>4, <1>5, <1>6, SeqEqual
<1> QED
  BY <1>7 DEF left, right, ab, be

(* Passes writes Plan out with the same settings.                          *)
LEMMA SamePlan ==
  ASSUME NEW cp, NEW total
  PROVE  Passes!Plan(cp, total) = Plan(cp, total)
BY DEF Passes!Plan, Passes!Restart, Passes!ScanOnly, Passes!Extend, Passes!Resume,
       Passes!Result, Passes!Usable, Passes!NewTxs, Passes!NewPages, Passes!ScanEnd,
       Passes!Allowed, Passes!PageCount, Passes!EndOf, Passes!Span, Passes!Least,
       Passes!Greatest, Plan, Restart, ScanOnly, Extend, Resume, Result, Usable,
       NewTxs, NewPages, ScanEnd, Allowed, PageCount, EndOf, Span, Least, Greatest

(* The pages before the next one were fetched, in order. *)
InOrder(p) == p.page >= 1 /\ p.fetched = << 0 >> \o Span(1, p.page)

(* All new transactions were scanned within the budget. *)
ScanReaches(p, cp) ==
  /\ Usable(cp, p.total)
  /\ ~(ScanEnd(cp, p.total) < NewPages(cp, p.total))

ExtendEnd(cp, total) ==
  Greatest(ScanEnd(cp, total),
           Least(Least(PageCount(total), Greatest(1, NewPages(cp, total)) + OverlapPages),
                 MaxPages))

ResumeShift(cp, total) == NewTxs(cp, total) + cp.cursor
ResumeFirst(cp, total) == ResumeShift(cp, total) \div PageSize
ResumeFrom(cp, total) == Greatest(ResumeFirst(cp, total), ScanEnd(cp, total))
ResumeEnd(cp, total) ==
  Least(PageCount(total),
        ResumeFrom(cp, total) + Allowed(cp, total, ResumeFirst(cp, total))
          - ScanEnd(cp, total))

(* The cursor once the pages before `page' are covered. *)
CursorAt(cp, total, page) ==
  IF ResumeFirst(cp, total) < page
    THEN Greatest(ResumeShift(cp, total), EndOf(page, total))
    ELSE ResumeShift(cp, total)

(* Where a pass stands in each of its loops, from checkpoint cp. *)
Place(p, cp) ==
  /\ p.at = "first" => p.page = 1 /\ InOrder(p)
  /\ p.at # "first" => PageCount(p.total) > 1
  /\ p.at = "restart" =>
       /\ ~Usable(cp, p.total)
       /\ InOrder(p)
       /\ p.page <= Least(PageCount(p.total), MaxPages)
  /\ p.at = "scan" =>
       /\ Usable(cp, p.total)
       /\ InOrder(p)
       /\ p.page <= ScanEnd(cp, p.total)
  /\ p.at = "extend" =>
       /\ ScanReaches(p, cp) /\ cp.complete
       /\ InOrder(p)
       /\ ScanEnd(cp, p.total) <= p.page
       /\ p.page <= ExtendEnd(cp, p.total)
  /\ p.at = "resume" =>
       /\ ScanReaches(p, cp) /\ ~cp.complete
       /\ ResumeFirst(cp, p.total) <= p.page
       /\ p.page <= ResumeEnd(cp, p.total)
       /\ p.cursor = CursorAt(cp, p.total, p.page)
       /\ p.fetched = << 0 >> \o (Span(1, ScanEnd(cp, p.total))
                                    \o Span(ResumeFrom(cp, p.total), p.page))

UnderWay == [at : {"first", "restart", "scan", "extend", "resume"}, page : Nat,
             cursor : Nat, total : 0 .. MaxTotal, fetched : Seq(Nat)]

LoopInv ==
  /\ saved = NoCheckpoint \/ Counts(saved)
  /\ length \in 0 .. MaxTotal
  /\ pass = NoPass \/ (pass \in UnderWay /\ Place(pass, saved))

LEMMA InOrderGrows ==
  ASSUME NEW page \in Nat, page >= 1, NEW fetched, fetched = << 0 >> \o Span(1, page),
         NEW next, next = page + 1
  PROVE  /\ fetched \in Seq(Nat) /\ Len(fetched) = page
         /\ Append(fetched, page) = << 0 >> \o Span(1, next)
<1> DEFINE zero == << 0 >>
           more == Span(1, page)
<1>1. more \in Seq(Nat) /\ Len(more) = page - 1 /\ Append(more, page) = Span(1, next)
  BY SpanFromOne, SpanGrows
<1>2. zero \in Seq(Nat)
  OBVIOUS
<1>3. fetched \in Seq(Nat) /\ Len(fetched) = page
  BY <1>1, ZeroFirst
<1>4. fetched = zero \o more
  OBVIOUS
<1> HIDE DEF zero, more
<1>5. Append(fetched, page) = zero \o Append(more, page)
  BY <1>1, <1>2, <1>4, AppendToSecond
<1> QED
  BY <1>1, <1>3, <1>5 DEF zero

(* What the loop that resumes has fetched before `page', and with it.      *)
Resumed(fetched, scanned, from, page) ==
  /\ fetched \in Seq(Nat)
  /\ Len(fetched) = scanned + IF from < page THEN page - from ELSE 0
  /\ page < scanned => \E i \in DOMAIN fetched : fetched[i] = page
  /\ \A i \in DOMAIN fetched : fetched[i] = page => page < scanned
  /\ (IF page < scanned THEN fetched ELSE Append(fetched, page))
       = << 0 >> \o (Span(1, scanned) \o Span(from, page + 1))

(* The same of older pages, which follow those that were scanned.          *)
LEMMA OlderGrow ==
  ASSUME NEW scanned \in Nat, scanned >= 1, NEW from \in Nat, scanned <= from,
         NEW page \in Nat, page < scanned \/ from <= page,
         NEW fetched, fetched = << 0 >> \o (Span(1, scanned) \o Span(from, page))
  PROVE  Resumed(fetched, scanned, from, page)
<1> DEFINE next == page + 1
           zero == << 0 >>
           a == Span(1, scanned)
           b == Span(from, page)
           more == a \o b
<1>1. /\ more \in Seq(Nat)
      /\ Len(more) = scanned - 1 + IF from < page THEN page - from ELSE 0
      /\ \A i \in 1 .. Len(more) :
           more[i] = IF i < scanned THEN i ELSE from + i - scanned
  BY TwoSpans
<1>2. a \in Seq(Nat) /\ b \in Seq(Nat) /\ zero \in Seq(Nat) /\ fetched = zero \o more
  <2>1. a \in Seq(Nat) /\ b \in Seq(Nat)
    BY SpanIs
  <2> QED
    BY <2>1
<1> HIDE DEF more
<1>3. /\ fetched \in Seq(Nat) /\ Len(fetched) = 1 + Len(more)
      /\ fetched[1] = 0
      /\ \A i \in 1 .. Len(more) : fetched[i + 1] = more[i]
  BY <1>1, <1>2, ZeroFirst
<1> HIDE DEF zero, a, b
<1>4. Len(fetched) = scanned + IF from < page THEN page - from ELSE 0
  BY <1>1, <1>3
<1>5. DOMAIN fetched = 1 .. Len(fetched)
  BY <1>3, LenProperties
<1>6. ASSUME page < scanned
      PROVE  \E i \in DOMAIN fetched : fetched[i] = page
  <2>1. CASE page = 0
    <3>1. 1 \in DOMAIN fetched
      BY <1>4, <1>5
    <3> QED
      BY <1>3, <2>1, <3>1
  <2>2. CASE page # 0
    <3>1. page \in 1 .. Len(more) /\ page + 1 \in 1 .. Len(fetched)
      BY <1>1, <1>3, <1>6, <2>2
    <3>2. fetched[page + 1] = page
      BY <1>1, <1>3, <1>6, <3>1
    <3> QED
      BY <1>5, <3>1, <3>2
  <2> QED
    BY <2>1, <2>2
<1>7. ASSUME ~(page < scanned), NEW i \in DOMAIN fetched
      PROVE  fetched[i] # page
  <2>1. CASE i = 1
    BY <1>3, <1>7, <2>1
  <2>2. CASE i # 1
    <3> DEFINE j == i - 1
    <3>1. j \in 1 .. Len(more) /\ i = j + 1
      <4>1. Len(more) \in Nat /\ i \in 1 .. 1 + Len(more)
        BY <1>1, <1>3, <1>5, LenProperties
      <4> QED
        BY <2>2, <4>1
    <3> HIDE DEF j
    <3>2. fetched[i] = IF j < scanned THEN j ELSE from + j - scanned
      BY <1>1, <1>3, <3>1
    <3> QED
      BY <1>1, <1>7, <3>1, <3>2
  <2> QED
    BY <2>1, <2>2
<1>8. CASE page < scanned
  <2>1. next \in Nat /\ next <= from /\ page <= from
    BY <1>8
  <2>2. b = Span(from, next)
    BY <2>1, NoSpan DEF b
  <2>3. fetched = << 0 >> \o (Span(1, scanned) \o Span(from, next))
    BY <1>2, <2>2 DEF more, a, zero
  <2>4. (IF page < scanned THEN fetched ELSE Append(fetched, page))
          = << 0 >> \o (Span(1, scanned) \o Span(from, next))
    BY <1>8, <2>3
  <2> QED
    BY <1>3, <1>4, <1>6, <1>8, <2>4 DEF Resumed
<1>9. CASE ~(page < scanned)
  <2>1. Append(b, page) = Span(from, next)
    BY <1>9, SpanGrows DEF b
  <2>2. Append(more, page) = a \o Append(b, page)
    BY <1>2, AppendToSecond DEF more
  <2>3. Append(fetched, page) = zero \o Append(more, page)
    <3>1. zero \in Seq(Nat) /\ more \in Seq(Nat) /\ fetched = zero \o more
      BY <1>1, <1>2
    <3> QED
      BY <3>1, AppendToSecond
  <2> QED
    BY <1>3, <1>4, <1>7, <1>9, <2>1, <2>2, <2>3 DEF a, zero, Resumed
<1> QED
  BY <1>8, <1>9 DEF Resumed

Follows == [Passes!PassNext]_(Passes!passVars)

LEMMA TurnFollows ==
  ASSUME LoopInv, pass # NoPass, NEW next \in UnderWay, Place(next, saved),
         next.total = pass.total, Turn(next)
  PROVE  LoopInv' /\ Follows
<1>1. pass.at # "none" /\ next.at # "none"
  BY DEF LoopInv, UnderWay
<1>2. SeenLength' = SeenLength
  BY <1>1 DEF SeenLength, Turn
<1> QED
  BY <1>2 DEF Follows, Passes!passVars, LoopInv, Turn

LEMMA EndFollows ==
  ASSUME LoopInv, pass # NoPass, NEW more, NEW cursor, NEW complete \in BOOLEAN,
         Plan(saved, pass.total) = Result(more, cursor, complete),
         pass.fetched = << 0 >> \o more, Ends(cursor, complete)
  PROVE  LoopInv' /\ Follows
<1>1. /\ pass \in UnderWay /\ pass.at # "none" /\ pass.total \in 0 .. MaxTotal
      /\ pass.total \in Nat
  BY PassesAssumption DEF LoopInv, UnderWay
<1> DEFINE result == Plan(saved, pass.total)
<1>2. result.more = more /\ result.cursor = cursor /\ result.complete = complete
  <2> HIDE DEF result
  <2>1. result = Result(more, cursor, complete)
    BY DEF result
  <2> QED
    BY <2>1, ResultFields
<1>3. saved' = [cursor |-> result.cursor, history |-> pass.total, complete |-> result.complete]
  <2> HIDE DEF result
  <2> QED
    BY <1>2, Zenon DEF Ends
<1>4. /\ saved'.cursor = result.cursor /\ saved'.history = pass.total
      /\ saved'.complete = result.complete
  <2> HIDE DEF result
  <2> QED
    BY <1>3
<1>5. PlanFits(saved, pass.total)
  BY <1>1, PlanIsSound DEF LoopInv
<1>6. Counts(saved')
  BY <1>1, <1>4, <1>5, LeavesCounts
<1>7. length' \in 0 .. MaxTotal /\ pass' = NoPass /\ pagesRead' = pass.fetched
  BY DEF Ends, LoopInv
<1>8. LoopInv'
  BY <1>6, <1>7 DEF LoopInv
<1>9. SeenLength = pass.total /\ SeenLength' = length'
  BY <1>1, <1>7 DEF SeenLength, NoPass
<1>10. Passes!Plan(saved, SeenLength) = result
  BY <1>9, SamePlan
<1>11. pagesRead' = << 0 >> \o result.more
  <2> HIDE DEF result
  <2> QED
    BY <1>2, <1>7
<1> HIDE DEF result
<1>12. Passes!PassEnds
  BY <1>3, <1>7, <1>9, <1>10, <1>11 DEF Passes!PassEnds
<1> QED
  BY <1>8, <1>12 DEF Follows, Passes!PassNext

LEMMA ListChangesFollows ==
  ASSUME LoopInv, ListChanges
  PROVE  LoopInv' /\ Follows
<1>1. LoopInv'
  BY DEF LoopInv, ListChanges
<1>2. CASE pass = NoPass
  <2>1. SeenLength' \in 0 .. MaxTotal
    BY <1>2 DEF SeenLength, ListChanges, NoPass
  <2>2. Passes!HistoryChanges
    BY <2>1 DEF Passes!HistoryChanges, ListChanges
  <2> QED
    BY <1>1, <2>2 DEF Follows, Passes!PassNext
<1>3. CASE pass # NoPass
  <2>1. SeenLength' = SeenLength
    BY <1>3 DEF SeenLength, ListChanges, LoopInv, UnderWay
  <2> QED
    BY <1>1, <2>1 DEF Follows, Passes!passVars, ListChanges
<1> QED
  BY <1>2, <1>3

LEMMA FailsFollows ==
  ASSUME LoopInv, Fails
  PROVE  LoopInv' /\ Follows
<1>1. pass' = NoPass /\ length' = length /\ UNCHANGED <<saved, pagesRead>>
  BY DEF Fails, Turn
<1>2. LoopInv'
  BY <1>1 DEF LoopInv
<1>3. SeenLength' \in 0 .. MaxTotal
  BY <1>1 DEF SeenLength, LoopInv, NoPass
<1>4. Passes!HistoryChanges
  BY <1>1, <1>3 DEF Passes!HistoryChanges
<1> QED
  BY <1>2, <1>4 DEF Follows, Passes!PassNext

LEMMA FirstFollows ==
  ASSUME LoopInv, FirstFetch
  PROVE  LoopInv' /\ Follows
<1> DEFINE next == [at |-> "first", page |-> 1, cursor |-> 0, total |-> length,
                    fetched |-> << 0 >>]
<1>1. pass' = next /\ UNCHANGED <<saved, length, pagesRead>> /\ pass = NoPass
  BY DEF FirstFetch, Turn, NoPass
<1>2. next \in UnderWay
  BY DEF LoopInv, UnderWay
<1>3. Place(next, saved)
  <2>1. Span(1, 1) = << >>
    BY NoSpan
  <2>2. << 0 >> \o << >> = << 0 >>
    BY ConcatEmptySeq
  <2> QED
    BY <2>1, <2>2 DEF Place, InOrder
<1>4. LoopInv'
  BY <1>1, <1>2, <1>3 DEF LoopInv
<1>5. SeenLength' = SeenLength
  BY <1>1 DEF SeenLength, NoPass
<1> QED
  BY <1>1, <1>4, <1>5 DEF Follows, Passes!passVars

LEMMA SinglePageFollows ==
  ASSUME LoopInv, SinglePage
  PROVE  LoopInv' /\ Follows
<1>1. /\ pass.at = "first" /\ PageCount(pass.total) <= 1 /\ Ends(pass.total, TRUE)
      /\ pass # NoPass
  <2>1. NoPass.at = "none"
    BY DEF NoPass
  <2> QED
    BY <2>1 DEF SinglePage, TotalPages
<1>2. Place(pass, saved)
  BY <1>1 DEF LoopInv
<1>3. pass.fetched = << 0 >> \o << >>
  BY <1>1, <1>2, NoSpan DEF Place, InOrder
<1>4. Plan(saved, pass.total) = Result(<< >>, pass.total, TRUE)
  BY <1>1 DEF Plan
<1> QED
  BY <1>1, <1>3, <1>4, EndFollows

LEMMA ChooseFollows ==
  ASSUME LoopInv, ChooseLoop
  PROVE  LoopInv' /\ Follows
<1>1. /\ pass.at = "first" /\ PageCount(pass.total) > 1 /\ pass # NoPass
      /\ pass \in UnderWay /\ Place(pass, saved) /\ pass.total \in Nat
      /\ PageCount(pass.total) \in Nat
  BY PassesAssumption, PageCounts DEF ChooseLoop, TotalPages, NoPass, LoopInv, UnderWay
<1>2. pass.page = 1 /\ InOrder(pass)
  BY <1>1 DEF Place
<1>3. ASSUME ~Usable(saved, pass.total), Turn([pass EXCEPT !.at = "restart"])
      PROVE  LoopInv' /\ Follows
  <2> DEFINE next == [pass EXCEPT !.at = "restart"]
  <2>1. /\ next \in UnderWay /\ next.total = pass.total /\ next.page = 1
        /\ next.at = "restart" /\ next.fetched = pass.fetched
    BY <1>1, <1>2 DEF UnderWay
  <2> HIDE DEF next
  <2>2. InOrder(next)
    BY <1>2, <2>1 DEF InOrder
  <2>3. 1 <= Least(PageCount(pass.total), MaxPages)
    BY <1>1, Settings DEF Least
  <2>4. Place(next, saved)
    BY <1>1, <1>3, <2>1, <2>2, <2>3 DEF Place
  <2> QED
    BY <1>1, <1>3, <2>1, <2>4, TurnFollows DEF next
<1>4. ASSUME Usable(saved, pass.total), Turn([pass EXCEPT !.at = "scan"])
      PROVE  LoopInv' /\ Follows
  <2> DEFINE next == [pass EXCEPT !.at = "scan"]
  <2>1. /\ next \in UnderWay /\ next.total = pass.total /\ next.page = 1
        /\ next.at = "scan" /\ next.fetched = pass.fetched
    BY <1>1, <1>2 DEF UnderWay
  <2> HIDE DEF next
  <2>2. InOrder(next)
    BY <1>2, <2>1 DEF InOrder
  <2>3. 1 <= ScanEnd(saved, pass.total)
    BY <1>1, <1>4, ScanEndIs DEF LoopInv, Usable
  <2>4. Place(next, saved)
    BY <1>1, <1>4, <2>1, <2>2, <2>3 DEF Place
  <2> QED
    BY <1>1, <1>4, <2>1, <2>4, TurnFollows DEF next
<1> QED
  BY <1>3, <1>4 DEF ChooseLoop

(* What the next page adds in the loops that read on from the top.         *)
LEMMA FetchGoes ==
  ASSUME LoopInv, pass # NoPass, InOrder(pass), FetchPage,
         NEW next, next = [pass EXCEPT !.fetched = Append(@, pass.page), !.page = @ + 1]
  PROVE  /\ next \in UnderWay /\ InOrder(next)
         /\ next.at = pass.at /\ next.total = pass.total /\ next.page = pass.page + 1
         /\ Turn(next)
<1>1. pass \in UnderWay
  BY DEF LoopInv
<1>2. pass.page \in Nat /\ pass.page >= 1 /\ pass.fetched = << 0 >> \o Span(1, pass.page)
  BY <1>1 DEF UnderWay, InOrder
<1>3. /\ pass.fetched \in Seq(Nat)
      /\ Append(pass.fetched, pass.page) = << 0 >> \o Span(1, pass.page + 1)
  BY <1>2, InOrderGrows
<1>4. Append(pass.fetched, pass.page) \in Seq(Nat)
  BY <1>2, <1>3, AppendProperties
<1>5. /\ next.at = pass.at /\ next.total = pass.total /\ next.page = pass.page + 1
      /\ next.fetched = Append(pass.fetched, pass.page) /\ next.cursor = pass.cursor
  BY <1>1 DEF UnderWay
<1>6. next \in UnderWay
  <2> DEFINE longer == Append(pass.fetched, pass.page)
             page == pass.page + 1
  <2>1. longer \in Seq(Nat) /\ page \in Nat
    BY <1>2, <1>4
  <2>2. next = [pass EXCEPT !.fetched = longer, !.page = page]
    OBVIOUS
  <2> HIDE DEF longer, page
  <2> QED
    BY <1>1, <2>1, <2>2 DEF UnderWay
<1>7. InOrder(next)
  BY <1>2, <1>3, <1>5 DEF InOrder
<1> QED
  BY <1>5, <1>6, <1>7 DEF Turn, FetchPage

(* The number of the pages fetched, in the same loops.                     *)
LEMMA FetchedSoFar ==
  ASSUME LoopInv, pass # NoPass, InOrder(pass)
  PROVE  /\ pass.page \in Nat /\ pass.page >= 1 /\ Len(pass.fetched) = pass.page
         /\ pass.fetched = << 0 >> \o Span(1, pass.page)
         /\ pass.total \in Nat /\ PageCount(pass.total) \in Nat
<1>1. pass.page \in Nat /\ pass.page >= 1 /\ pass.fetched = << 0 >> \o Span(1, pass.page)
      /\ pass.total \in Nat
  BY PassesAssumption DEF LoopInv, UnderWay, InOrder
<1>2. Len(pass.fetched) = pass.page
  BY <1>1, InOrderGrows
<1> QED
  BY <1>1, <1>2, PageCounts

LEMMA LoopIsUnderWay ==
  ASSUME LoopInv, pass.at \in {"first", "restart", "scan", "extend", "resume"}
  PROVE  pass # NoPass /\ pass \in UnderWay /\ Place(pass, saved)
<1>1. NoPass.at = "none"
  BY DEF NoPass
<1> QED
  BY <1>1 DEF LoopInv

LEMMA RestartFollows ==
  ASSUME LoopInv, RestartPage \/ RestartEnds
  PROVE  LoopInv' /\ Follows
<1>1. pass.at = "restart"
  BY DEF RestartPage, RestartEnds
<1>2. pass # NoPass /\ pass \in UnderWay /\ Place(pass, saved)
  BY <1>1, LoopIsUnderWay
<1> DEFINE end == Least(PageCount(pass.total), MaxPages)
<1>3. /\ PageCount(pass.total) > 1 /\ ~Usable(saved, pass.total) /\ InOrder(pass)
      /\ pass.page <= end
  BY <1>1, <1>2 DEF Place
<1>4. /\ pass.page \in Nat /\ pass.page >= 1 /\ Len(pass.fetched) = pass.page
      /\ pass.fetched = << 0 >> \o Span(1, pass.page)
      /\ pass.total \in Nat /\ PageCount(pass.total) \in Nat
  BY <1>2, <1>3, FetchedSoFar
<1>5. MayFetch(TotalPages) <=> pass.page < end
  BY <1>4, Settings DEF MayFetch, TotalPages, Least
<1>6. CASE RestartPage
  <2> DEFINE next == [pass EXCEPT !.fetched = Append(@, pass.page), !.page = @ + 1]
  <2>1. /\ next \in UnderWay /\ InOrder(next)
        /\ next.at = pass.at /\ next.total = pass.total /\ next.page = pass.page + 1
        /\ Turn(next)
    BY <1>2, <1>3, <1>6, FetchGoes DEF RestartPage
  <2>2. pass.page < end
    BY <1>5, <1>6 DEF RestartPage
  <2>3. pass.page + 1 <= end
    BY <1>4, <2>2, Settings DEF Least
  <2> HIDE DEF next
  <2>4. Place(next, saved)
    BY <1>1, <1>3, <2>1, <2>3 DEF Place
  <2> QED
    BY <1>2, <2>1, <2>4, TurnFollows
<1>7. CASE RestartEnds
  <2> DEFINE cursor == EndOf(end, pass.total)
             done == cursor >= pass.total
  <2>1. pass.page = end
    BY <1>3, <1>4, <1>5, <1>7, Settings DEF RestartEnds, Least
  <2>2. Plan(saved, pass.total) = Result(Span(1, end), cursor, done)
    <3>1. ~(PageCount(pass.total) <= 1)
      BY <1>3, <1>4
    <3> QED
      BY <1>3, <3>1, Zenon DEF Plan, Restart
  <2> HIDE DEF end
  <2>3. Ends(cursor, done)
    BY <1>7, <2>1 DEF RestartEnds
  <2>4. pass.fetched = << 0 >> \o Span(1, end)
    BY <1>4, <2>1
  <2>5. done \in BOOLEAN
    OBVIOUS
  <2> HIDE DEF cursor, done
  <2> QED
    BY <1>2, <2>2, <2>3, <2>4, <2>5, EndFollows
<1> QED
  BY <1>6, <1>7

(* What the loops and the closed form call by different names.             *)
LEMMA SameNames ==
  ASSUME LoopInv, pass # NoPass, Usable(saved, pass.total)
  PROVE  /\ Counts(saved)
         /\ NewSince = NewTxs(saved, pass.total)
         /\ PageCount(NewSince) = NewPages(saved, pass.total)
BY DEF LoopInv, Usable, NewSince, NewTxs, NewPages

LEMMA ScanFollows ==
  ASSUME LoopInv, ScanPage
  PROVE  LoopInv' /\ Follows
<1>1. pass.at = "scan"
  BY DEF ScanPage
<1>2. pass # NoPass /\ pass \in UnderWay /\ Place(pass, saved)
  BY <1>1, LoopIsUnderWay
<1>3. /\ PageCount(pass.total) > 1 /\ Usable(saved, pass.total) /\ InOrder(pass)
      /\ pass.page <= ScanEnd(saved, pass.total)
  BY <1>1, <1>2 DEF Place
<1>4. pass.page \in Nat /\ Len(pass.fetched) = pass.page
  BY <1>2, <1>3, FetchedSoFar
<1>5. Counts(saved) /\ PageCount(NewSince) = NewPages(saved, pass.total)
  BY <1>2, <1>3, SameNames
<1>6. NewPages(saved, pass.total) \in Nat
  BY <1>2, <1>3, <1>5, FetchedSoFar, ScanEndIs
<1> DEFINE next == [pass EXCEPT !.fetched = Append(@, pass.page), !.page = @ + 1]
<1>7. /\ next \in UnderWay /\ InOrder(next)
      /\ next.at = pass.at /\ next.total = pass.total /\ next.page = pass.page + 1
      /\ Turn(next)
  BY <1>2, <1>3, FetchGoes DEF ScanPage
<1>8. pass.page + 1 <= ScanEnd(saved, pass.total)
  BY <1>4, <1>5, <1>6, Settings DEF ScanPage, MayFetch, ScanEnd, Least, Greatest
<1> HIDE DEF next
<1>9. Place(next, saved)
  BY <1>1, <1>3, <1>7, <1>8 DEF Place
<1> QED
  BY <1>2, <1>7, <1>9, TurnFollows

LEMMA ResumeNumbers ==
  ASSUME NEW cp, NEW total \in Nat, PageCount(total) > 1, Usable(cp, total), Counts(cp),
         ~(ScanEnd(cp, total) < NewPages(cp, total)), ~cp.complete,
         NEW shifted, shifted = ResumeShift(cp, total),
         NEW first, first = ResumeFirst(cp, total),
         NEW scanned, scanned = ScanEnd(cp, total),
         NEW from, from = ResumeFrom(cp, total),
         NEW end, end = ResumeEnd(cp, total)
  PROVE  /\ shifted \in Nat /\ shifted < total /\ first \in Nat
         /\ scanned \in Nat /\ scanned >= 1 /\ scanned <= MaxPages
         /\ scanned <= PageCount(total)
         /\ first < PageCount(total) /\ from \in Nat /\ first <= from
         /\ scanned <= from /\ (from = first \/ from = scanned)
         /\ end \in Nat /\ from <= end
<1>1. shifted = NewTxs(cp, total) + cp.cursor /\ first = shifted \div PageSize
  BY DEF ResumeShift, ResumeFirst
<1>2. /\ from = Greatest(first, scanned)
      /\ end = Least(PageCount(total), from + Allowed(cp, total, first) - scanned)
  BY DEF ResumeFrom, ResumeEnd
<1>3. /\ shifted \in Nat /\ shifted < total /\ first \in Nat
      /\ scanned \in Nat /\ scanned >= 1 /\ scanned <= MaxPages
      /\ scanned <= PageCount(total)
      /\ first < PageCount(total) /\ from \in Nat /\ first <= from
      /\ scanned <= from /\ (from = first \/ from = scanned)
      /\ end \in Nat
      /\ end = PageCount(total) \/ end = from + MaxPages - scanned
           \/ end = from + MaxPages + 1 - scanned
  BY <1>1, <1>2, ResumeIs
<1>4. PageCount(total) \in Nat
  BY PageCounts
<1>5. from <= end
  BY <1>3, <1>4, Settings
<1> QED
  BY <1>3, <1>5

(* The scan is over: it used up the budget before the last new page, or    *)
(* goes on to the old pages.                                               *)
LEMMA AfterScanFollows ==
  ASSUME LoopInv, AfterScan
  PROVE  LoopInv' /\ Follows
<1> DEFINE end == ScanEnd(saved, pass.total)
           new == NewPages(saved, pass.total)
<1>1. pass.at = "scan"
  BY DEF AfterScan
<1>2. pass # NoPass /\ pass \in UnderWay /\ Place(pass, saved)
  BY <1>1, LoopIsUnderWay
<1>3. /\ PageCount(pass.total) > 1 /\ Usable(saved, pass.total) /\ InOrder(pass)
      /\ pass.page <= end
  BY <1>1, <1>2 DEF Place
<1>4. /\ pass.page \in Nat /\ pass.page >= 1 /\ Len(pass.fetched) = pass.page
      /\ pass.fetched = << 0 >> \o Span(1, pass.page)
      /\ pass.total \in Nat /\ PageCount(pass.total) \in Nat
  BY <1>2, <1>3, FetchedSoFar
<1>5. Counts(saved) /\ NewSince = NewTxs(saved, pass.total) /\ PageCount(NewSince) = new
  BY <1>2, <1>3, SameNames
<1>6. new \in Nat /\ end \in Nat /\ end >= 1 /\ end <= MaxPages /\ (end = 1 \/ end <= new)
  BY <1>3, <1>4, <1>5, ScanEndIs
<1>7. pass.page = end
  BY <1>3, <1>4, <1>5, <1>6, Settings
     DEF AfterScan, MayFetch, ScanEnd, Least, Greatest
<1>8. ASSUME pass.page < PageCount(NewSince), Ends(EndOf(pass.page, pass.total), FALSE)
      PROVE  LoopInv' /\ Follows
  <2> DEFINE cursor == EndOf(end, pass.total)
  <2>1. ~(PageCount(pass.total) <= 1) /\ end < new
    BY <1>3, <1>4, <1>5, <1>7, <1>8
  <2>2. Plan(saved, pass.total) = Result(Span(1, end), cursor, FALSE)
    BY <1>3, <2>1, Zenon DEF Plan, ScanOnly
  <2>3. Ends(cursor, FALSE) /\ pass.fetched = << 0 >> \o Span(1, end)
    BY <1>4, <1>7, <1>8
  <2> HIDE DEF cursor, end
  <2> QED
    BY <1>2, <2>2, <2>3, EndFollows
<1>9. ASSUME pass.page >= PageCount(NewSince)
      PROVE  ScanReaches(pass, saved) /\ ~(end < new)
  BY <1>3, <1>5, <1>6, <1>7, <1>9 DEF ScanReaches
<1>10. ASSUME pass.page >= PageCount(NewSince), saved.complete,
              Turn([pass EXCEPT !.at = "extend"])
       PROVE  LoopInv' /\ Follows
  <2> DEFINE next == [pass EXCEPT !.at = "extend"]
  <2>1. /\ next \in UnderWay /\ next.total = pass.total /\ next.page = pass.page
        /\ next.at = "extend" /\ next.fetched = pass.fetched
    BY <1>2 DEF UnderWay
  <2> HIDE DEF next
  <2>2. InOrder(next) /\ ScanReaches(next, saved)
    BY <1>3, <1>9, <1>10, <2>1 DEF InOrder, ScanReaches
  <2>3. pass.page <= ExtendEnd(saved, pass.total)
    <3> DEFINE overlap == Least(PageCount(pass.total), Greatest(1, new) + OverlapPages)
               limit == Least(overlap, MaxPages)
    <3>1. limit \in Int
      BY <1>4, <1>6, Settings DEF Least, Greatest
    <3>2. ExtendEnd(saved, pass.total) = Greatest(end, limit)
      BY DEF ExtendEnd
    <3> HIDE DEF limit, end
    <3> QED
      BY <1>6, <1>7, <3>1, <3>2 DEF Greatest
  <2>4. Place(next, saved)
    BY <1>3, <1>4, <1>7, <1>10, <2>1, <2>2, <2>3 DEF Place
  <2> QED
    BY <1>2, <1>10, <2>1, <2>4, TurnFollows DEF next
<1>11. ASSUME pass.page >= PageCount(NewSince), ~saved.complete,
              Turn([pass EXCEPT !.at = "resume", !.cursor = Shifted,
                                !.page = Shifted \div PageSize])
       PROVE  LoopInv' /\ Follows
  <2> DEFINE shift == ResumeShift(saved, pass.total)
             first == ResumeFirst(saved, pass.total)
             from == ResumeFrom(saved, pass.total)
             last == ResumeEnd(saved, pass.total)
             next == [pass EXCEPT !.at = "resume", !.cursor = shift, !.page = first]
  <2>1. /\ shift \in Nat /\ shift < pass.total /\ first \in Nat
        /\ first < PageCount(pass.total) /\ from \in Nat /\ first <= from
        /\ end <= from /\ last \in Nat /\ from <= last
    BY <1>3, <1>4, <1>5, <1>9, <1>11, ResumeNumbers
  <2>2. Shifted = shift
    <3>1. saved.cursor \in Nat /\ NewTxs(saved, pass.total) \in Nat
      BY <1>3, <1>4, <1>5, ScanEndIs DEF Counts
    <3>2. saved.cursor + NewTxs(saved, pass.total) = shift
      BY <3>1 DEF ResumeShift
    <3> HIDE DEF shift
    <3> QED
      BY <1>4, <1>5, <2>1, <3>2 DEF Shifted, Least
  <2>3. Shifted \div PageSize = first
    BY <2>2 DEF ResumeFirst
  <2>4. Turn(next)
    BY <1>11, <2>2, <2>3
  <2>5. first <= last
    BY <1>6, <2>1, Settings
  <2> HIDE DEF shift, first, from, last, end
  <2>6. /\ next \in UnderWay /\ next.total = pass.total /\ next.page = first
        /\ next.at = "resume" /\ next.fetched = pass.fetched /\ next.cursor = shift
    BY <1>2, <2>1 DEF UnderWay
  <2>7. Span(from, first) = << >>
    BY <2>1, NoSpan
  <2>8. Span(1, end) \o << >> = Span(1, end)
    <3>1. Span(1, end) \in Seq(Nat)
      BY <1>6, SpanFromOne
    <3> QED
      BY <3>1, ConcatEmptySeq
  <2>9. next.fetched = << 0 >> \o (Span(1, end) \o Span(from, next.page))
    BY <1>4, <1>7, <2>6, <2>7, <2>8
  <2>10. next.cursor = CursorAt(saved, pass.total, next.page)
    BY <2>1, <2>6 DEF CursorAt, first, shift
  <2> HIDE DEF next
  <2>11. ScanReaches(next, saved)
    BY <1>9, <1>11, <2>6 DEF ScanReaches
  <2>12. Place(next, saved)
    BY <1>3, <1>11, <2>1, <2>5, <2>6, <2>9, <2>10, <2>11
       DEF Place, end, from, first, last
  <2> QED
    BY <1>2, <2>4, <2>6, <2>12, TurnFollows
<1> QED
  BY <1>8, <1>10, <1>11 DEF AfterScan

LEMMA ExtendFollows ==
  ASSUME LoopInv, ExtendPage \/ ExtendEnds
  PROVE  LoopInv' /\ Follows
<1> DEFINE scanned == ScanEnd(saved, pass.total)
           overlap == Least(PageCount(pass.total),
                            Greatest(1, NewPages(saved, pass.total)) + OverlapPages)
           end == ExtendEnd(saved, pass.total)
<1>1. pass.at = "extend"
  BY DEF ExtendPage, ExtendEnds
<1>2. pass # NoPass /\ pass \in UnderWay /\ Place(pass, saved)
  BY <1>1, LoopIsUnderWay
<1>3. /\ PageCount(pass.total) > 1 /\ ScanReaches(pass, saved) /\ InOrder(pass)
      /\ saved.complete /\ scanned <= pass.page /\ pass.page <= end
  BY <1>1, <1>2 DEF Place
<1>4. /\ pass.page \in Nat /\ pass.page >= 1 /\ Len(pass.fetched) = pass.page
      /\ pass.fetched = << 0 >> \o Span(1, pass.page)
      /\ pass.total \in Nat /\ PageCount(pass.total) \in Nat
  BY <1>2, <1>3, FetchedSoFar
<1>5. Usable(saved, pass.total)
  BY <1>3 DEF ScanReaches
<1>6. Counts(saved) /\ PageCount(NewSince) = NewPages(saved, pass.total)
  BY <1>2, <1>5, SameNames
<1>7. /\ NewPages(saved, pass.total) \in Nat /\ scanned \in Nat /\ scanned <= MaxPages
  BY <1>4, <1>5, <1>6, ScanEndIs
<1>8. OverlapEnd = overlap /\ overlap \in Int
  <2>1. OverlapEnd = overlap
    BY <1>6 DEF OverlapEnd, TotalPages
  <2>2. overlap \in Int
    BY <1>4, <1>7, Settings DEF Least, Greatest
  <2> QED
    BY <2>1, <2>2
<1>9. end = Greatest(scanned, Least(overlap, MaxPages))
  BY DEF ExtendEnd
<1> HIDE DEF overlap, scanned, end
<1>10. MayFetch(OverlapEnd) <=> pass.page < end
  BY <1>3, <1>4, <1>7, <1>8, <1>9, Settings DEF MayFetch, Least, Greatest
<1>11. CASE ExtendPage
  <2> DEFINE next == [pass EXCEPT !.fetched = Append(@, pass.page), !.page = @ + 1]
  <2>1. /\ next \in UnderWay /\ InOrder(next)
        /\ next.at = pass.at /\ next.total = pass.total /\ next.page = pass.page + 1
        /\ Turn(next)
    BY <1>2, <1>3, <1>11, FetchGoes DEF ExtendPage
  <2>2. pass.page + 1 <= end /\ scanned <= pass.page + 1
    BY <1>3, <1>4, <1>7, <1>8, <1>9, <1>10, <1>11, Settings DEF ExtendPage, Least, Greatest
  <2> HIDE DEF next
  <2>3. Place(next, saved)
    BY <1>1, <1>3, <2>1, <2>2 DEF Place, ScanReaches, scanned, end
  <2> QED
    BY <1>2, <2>1, <2>3, TurnFollows
<1>12. CASE ExtendEnds
  <2>1. pass.page = end
    BY <1>3, <1>4, <1>7, <1>8, <1>9, <1>10, <1>12, Settings DEF ExtendEnds, Least, Greatest
  <2>2. Plan(saved, pass.total) = Result(Span(1, end), pass.total, TRUE)
    <3>1. ~(PageCount(pass.total) <= 1)
      BY <1>3, <1>4
    <3> QED
      BY <1>3, <3>1, Zenon DEF Plan, Extend, ExtendEnd, ScanReaches, end
  <2>3. Ends(pass.total, TRUE) /\ pass.fetched = << 0 >> \o Span(1, end)
    BY <1>4, <1>12, <2>1 DEF ExtendEnds
  <2> QED
    BY <1>2, <2>2, <2>3, EndFollows
<1> QED
  BY <1>11, <1>12

LEMMA ResumeFollows ==
  ASSUME LoopInv, ResumePage \/ ResumeEnds
  PROVE  LoopInv' /\ Follows
<1> DEFINE total == pass.total
           shifted == ResumeShift(saved, total)
           first == ResumeFirst(saved, total)
           scanned == ScanEnd(saved, total)
           from == ResumeFrom(saved, total)
           end == ResumeEnd(saved, total)
           allowed == Allowed(saved, total, first)
           page == pass.page
<1>1. pass.at = "resume"
  BY DEF ResumePage, ResumeEnds
<1>2. pass # NoPass /\ pass \in UnderWay /\ Place(pass, saved)
  BY <1>1, LoopIsUnderWay
<1>3. /\ PageCount(total) > 1 /\ ScanReaches(pass, saved) /\ ~saved.complete
      /\ first <= page /\ page <= end
      /\ pass.cursor = CursorAt(saved, total, page)
      /\ pass.fetched = << 0 >> \o (Span(1, scanned) \o Span(from, page))
  BY <1>1, <1>2 DEF Place
<1>4. page \in Nat /\ total \in Nat /\ pass.cursor \in Nat /\ PageCount(total) \in Nat
  BY <1>2, PassesAssumption, PageCounts DEF UnderWay
<1>5. Usable(saved, total) /\ ~(scanned < NewPages(saved, total))
  BY <1>3 DEF ScanReaches
<1>6. Counts(saved) /\ NewSince = NewTxs(saved, total)
  BY <1>2, <1>5, SameNames
<1>7. /\ shifted \in Nat /\ shifted < total /\ first \in Nat
      /\ scanned \in Nat /\ scanned >= 1 /\ scanned <= MaxPages
      /\ scanned <= PageCount(total)
      /\ first < PageCount(total) /\ from \in Nat /\ first <= from
      /\ scanned <= from /\ (from = first \/ from = scanned)
      /\ end \in Nat /\ from <= end
  BY <1>3, <1>4, <1>5, <1>6, ResumeNumbers
<1>8. page < scanned \/ from <= page
  BY <1>3, <1>4, <1>7
<1>9. /\ pass.fetched \in Seq(Nat)
      /\ Len(pass.fetched) = scanned + IF from < page THEN page - from ELSE 0
      /\ Fetched(page) <=> page < scanned
      /\ (IF page < scanned THEN pass.fetched ELSE Append(pass.fetched, page))
           = << 0 >> \o (Span(1, scanned) \o Span(from, page + 1))
  <2> HIDE DEF scanned, from, page
  <2> DEFINE fetched == pass.fetched
  <2>1. fetched = << 0 >> \o (Span(1, scanned) \o Span(from, page))
    BY <1>3
  <2> HIDE DEF fetched
  <2>2. Resumed(fetched, scanned, from, page)
    BY <1>4, <1>7, <1>8, <2>1, OlderGrow
  <2>3. Fetched(page) <=> page < scanned
    BY <2>2, Zenon DEF Fetched, fetched, Resumed
  <2> QED
    BY <2>2, <2>3 DEF fetched, Resumed
<1>10. AllowedPages = allowed /\ allowed \in Nat /\ allowed >= MaxPages
  <2>1. Shifted = shifted
    <3>1. saved.cursor \in Nat /\ NewTxs(saved, total) \in Nat
      BY <1>4, <1>5, <1>6, ScanEndIs DEF Counts
    <3>2. saved.cursor + NewTxs(saved, total) = shifted
      BY <3>1 DEF ResumeShift
    <3> HIDE DEF shifted
    <3> QED
      BY <1>4, <1>6, <1>7, <3>2 DEF Shifted, Least
  <2>2. Shifted \div PageSize = first
    BY <2>1 DEF ResumeFirst
  <2>3. AllowedPages = allowed
    BY <1>6, <2>2 DEF AllowedPages, ProbeOnly, Allowed
  <2> HIDE DEF first
  <2>4. allowed \in Nat /\ allowed >= MaxPages
    BY Settings DEF Allowed
  <2> QED
    BY <2>3, <2>4
<1>11. end = Least(PageCount(total), from + allowed - scanned)
  BY DEF ResumeEnd
<1> HIDE DEF total, shifted, first, scanned, from, end, allowed, page
<1>12. page < PageCount(total) /\ ~OutOfPages <=> page < end
  <2>1. CASE page < scanned
    BY <1>3, <1>4, <1>7, <1>9, <2>1 DEF OutOfPages, page
  <2>2. CASE from <= page
    <3>1. ~(page < scanned) /\ Len(pass.fetched) = scanned + page - from
      BY <1>4, <1>7, <1>9, <2>2
    <3>2. OutOfPages <=> page >= from + allowed - scanned
      <4>1. ~Fetched(page)
        BY <1>9, <3>1, Zenon
      <4>2. OutOfPages <=> Len(pass.fetched) >= allowed
        BY <1>10, <4>1, Zenon DEF OutOfPages, page
      <4>3. Len(pass.fetched) >= allowed <=> page >= from + allowed - scanned
        BY <1>4, <1>7, <1>10, <3>1
      <4> QED
        BY <4>2, <4>3, Zenon
    <3> QED
      BY <1>4, <1>7, <1>10, <1>11, <3>2 DEF Least
  <2> QED
    BY <1>8, <2>1, <2>2
<1>13. CASE ResumePage
  <2> DEFINE longer == IF page < scanned THEN pass.fetched ELSE Append(pass.fetched, page)
             cursor == Greatest(pass.cursor, EndOf(page + 1, total))
             next == [pass EXCEPT !.fetched = longer, !.cursor = cursor, !.page = page + 1]
  <2>1. Turn(next)
    BY <1>9, <1>13 DEF ResumePage, page, total
  <2>2. page < end
    BY <1>12, <1>13 DEF ResumePage, TotalPages, page, total
  <2>3. longer \in Seq(Nat)
    BY <1>4, <1>9, AppendProperties
  <2>4. EndOf(page + 1, total) \in Nat /\ EndOf(page, total) \in Nat
        /\ EndOf(page, total) <= EndOf(page + 1, total)
    <3>1. page + 1 \in Nat
      BY <1>4
    <3>2. EndOf(page + 1, total) \in Nat /\ EndOf(page, total) \in Nat
      BY <1>4, <3>1, EndOfIs
    <3>3. page * PageSize <= (page + 1) * PageSize /\ page * PageSize \in Int
          /\ (page + 1) * PageSize \in Int
      BY <1>4, <3>1, Times
    <3> QED
      BY <1>4, <3>2, <3>3 DEF EndOf, Least
  <2>5. cursor = CursorAt(saved, total, page + 1) /\ cursor \in Nat
    <3>1. first < page + 1 /\ CursorAt(saved, total, page + 1)
                                = Greatest(shifted, EndOf(page + 1, total))
      BY <1>3, <1>4, <1>7 DEF CursorAt, first, shifted
    <3>2. pass.cursor = IF first < page THEN Greatest(shifted, EndOf(page, total))
                                        ELSE shifted
      BY <1>3 DEF CursorAt, first, shifted
    <3> QED
      BY <1>4, <1>7, <2>4, <3>1, <3>2 DEF Greatest
  <2>6. longer = << 0 >> \o (Span(1, scanned) \o Span(from, page + 1))
    BY <1>9
  <2>7. page + 1 \in Nat /\ first <= page + 1 /\ page + 1 <= end
    BY <1>3, <1>4, <1>7, <2>2
  <2> HIDE DEF longer, cursor
  <2>8. /\ next \in UnderWay /\ next.at = "resume" /\ next.total = total
        /\ next.page = page + 1 /\ next.fetched = longer /\ next.cursor = cursor
    BY <1>1, <1>2, <2>3, <2>5, <2>7 DEF UnderWay, total
  <2> HIDE DEF next
  <2>9. Place(next, saved)
    BY <1>3, <2>5, <2>6, <2>7, <2>8
       DEF Place, ScanReaches, total, first, scanned, from, end
  <2> QED
    BY <1>2, <2>1, <2>8, <2>9, TurnFollows DEF total
<1>14. CASE ResumeEnds
  <2> DEFINE cursor == CursorAt(saved, total, end)
             done == cursor >= total
             more == Span(1, scanned) \o Span(from, end)
  <2>1. page = end
    BY <1>3, <1>4, <1>7, <1>12, <1>14 DEF ResumeEnds, TotalPages, page, total
  <2>2. Plan(saved, total) = Result(more, cursor, done)
    <3>1. ~(PageCount(total) <= 1)
      BY <1>3, <1>4
    <3>2. Plan(saved, total) = Resume(saved, total)
      BY <1>3, <1>5, <3>1, Zenon DEF Plan, scanned
    <3>3. Least(total, saved.cursor + NewTxs(saved, total)) = shifted
      <4>1. saved.cursor \in Nat /\ NewTxs(saved, total) \in Nat
        BY <1>4, <1>5, <1>6, ScanEndIs DEF Counts
      <4>2. saved.cursor + NewTxs(saved, total) = shifted
        BY <4>1 DEF ResumeShift, shifted
      <4> QED
        BY <1>4, <1>7, <4>2 DEF Least
    <3>4. shifted \div PageSize = first
      BY DEF ResumeFirst, shifted, first
    <3>5. Greatest(first, scanned) = from
      BY DEF ResumeFrom, first, scanned, from
    <3>6. cursor = IF first < end THEN Greatest(shifted, EndOf(end, total)) ELSE shifted
      BY DEF CursorAt, first, shifted
    <3> HIDE DEF cursor
    <3> QED
      BY <1>11, <3>2, <3>3, <3>4, <3>5, <3>6, Zenon DEF Resume, scanned, allowed
  <2>3. Ends(cursor, done)
    BY <1>3, <1>14, <2>1 DEF ResumeEnds, total
  <2>4. pass.fetched = << 0 >> \o more
    BY <1>3, <2>1
  <2>5. done \in BOOLEAN
    OBVIOUS
  <2> HIDE DEF cursor, done, more
  <2> QED
    BY <1>2, <2>2, <2>3, <2>4, <2>5, EndFollows DEF total
<1> QED
  BY <1>13, <1>14

(***************************************************************************)
(* The loops of backfillProtocol, page by page and under a history that    *)
(* changes between any two of its requests, fetch the pages of the closed  *)
(* form in its order and leave the checkpoint it proposes, or none at all: *)
(* what is proved of the passes of PagePasses holds of the code's.         *)
(***************************************************************************)
THEOREM LoopsImplementPlan == LoopSpec => LoopsFollowPlan
<1>1. LoopInit => LoopInv /\ Passes!PassInit
  <2> SUFFICES ASSUME LoopInit PROVE LoopInv /\ Passes!PassInit
    OBVIOUS
  <2>1. pass = NoPass /\ SeenLength = length
    BY DEF LoopInit, SeenLength, NoPass
  <2>2. saved = NoCheckpoint \/ Counts(saved)
    BY PassesAssumption DEF LoopInit, PassInit, Checkpoints, Counts
  <2> QED
    BY <2>1, <2>2 DEF LoopInit, LoopInv, PassInit, Checkpoints, Passes!PassInit,
                      Passes!Checkpoints
<1>2. LoopInv /\ [LoopNext]_loopVars => LoopInv' /\ Follows
  <2> SUFFICES ASSUME LoopInv, [LoopNext]_loopVars PROVE LoopInv' /\ Follows
    OBVIOUS
  <2>1. CASE UNCHANGED loopVars
    BY <2>1 DEF loopVars, LoopInv, Follows, Passes!passVars, SeenLength
  <2>2. CASE LoopNext
    BY <2>2, ListChangesFollows, FirstFollows, SinglePageFollows, ChooseFollows,
       RestartFollows, ScanFollows, AfterScanFollows, ExtendFollows, ResumeFollows,
       FailsFollows
       DEF LoopNext
  <2> QED
    BY <2>1, <2>2
<1> QED
  BY <1>1, <1>2, PTL DEF LoopSpec, LoopsFollowPlan, Passes!PassSpec, Follows

(***************************************************************************)
(* And so of the checkpoints that the loops leave and the histories that   *)
(* they meet: the next pass claims only what it fetches or what was        *)
(* claimed before, keeps to its budget and progresses.                     *)
(***************************************************************************)
THEOREM LoopsAreSound == LoopSpec => []PlanSound
<1>1. LoopInit => LoopInv
  BY PassesAssumption
     DEF LoopInit, PassInit, Checkpoints, Counts, LoopInv
<1>2. LoopInv /\ [LoopNext]_loopVars => LoopInv'
  <2> SUFFICES ASSUME LoopInv, [LoopNext]_loopVars PROVE LoopInv'
    OBVIOUS
  <2>1. CASE UNCHANGED loopVars
    BY <2>1 DEF loopVars, LoopInv
  <2>2. CASE LoopNext
    BY <2>2, ListChangesFollows, FirstFollows, SinglePageFollows, ChooseFollows,
       RestartFollows, ScanFollows, AfterScanFollows, ExtendFollows, ResumeFollows,
       FailsFollows
       DEF LoopNext
  <2> QED
    BY <2>1, <2>2
<1>3. LoopInv => PlanSound
  BY PassesAssumption, PlanIsSound DEF LoopInv, PlanSound
<1> QED
  BY <1>1, <1>2, <1>3, PTL DEF LoopSpec
=============================================================================
