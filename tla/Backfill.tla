------------------------------ MODULE Backfill ------------------------------
(***************************************************************************)
(* Confirmed reconciliation of the indexer daemon (reconcileConfirmed in   *)
(* apps/indexer/src/daemon/daemon.ts and what it calls), against a chain   *)
(* whose tip moves, a store that survives crashes and live jobs that write *)
(* to the same rows.                                                       *)
(*                                                                         *)
(* One action per await: the code from one await to the next runs without  *)
(* interruption, so an action is the answer to a request followed by all   *)
(* the code up to the next request.  (The tip height that                  *)
(* reconcileKnownConfirmed reads for its jobs only says that there is one: *)
(* its await is part of the step that lists the rows.)                     *)
(***************************************************************************)
EXTENDS PagePlan, FiniteSets, FiniteSetsExt, Functions

CONSTANTS
  Blocks,        \* the blocks of every fork
  Chain,         \* Chain[b]: the blocks from genesis to b
  History,       \* History[b][q]: confirmed history of protocol q at tip b,
                 \* newest first, as Chronik lists it
  Moves,         \* the pairs <<b, c>> such that the tip may move from b to c
  Genesis,       \* the tip at the start
  Discovery,     \* DISCOVERY_PROTOCOLS, in the order they are scanned
  Txids,         \* transactions; numbers stand for the order of their ids
  LiveTxids,     \* those that live events ask the daemon to index
  TipFree,       \* those verified without a tip height: all but valid TM0 memos
  RowLimit,      \* options.reconcileLimit
  MaxStableTipAttempts,
  NoJob, NoBlock

ASSUME BackfillAssumption ==
  /\ Genesis \in Blocks
  /\ Blocks \cap {"absent", "mempool", "inactive", "missing", "unread"} = {}
  /\ Moves \subseteq Blocks \X Blocks
  /\ Discovery \in Seq(Range(Discovery)) /\ Discovery # <<>>
  /\ Txids \subseteq Nat /\ IsFiniteSet(Txids)
  /\ LiveTxids \subseteq Txids
  /\ TipFree \subseteq Txids
  /\ RowLimit \in Nat \ {0}
  /\ MaxStableTipAttempts \in Nat \ {0}
  /\ NoBlock \notin Blocks

(* A block has one parent, so the chain to a block below b is the part of  *)
(* b's chain up to it; it keeps what the chain below it holds, and what a  *)
(* new block confirms is listed before what was confirmed.                 *)
ASSUME ChainAssumption ==
  \A b \in Blocks :
    /\ Chain[b] \in Seq(Blocks) /\ Chain[b] # <<>>
    /\ Chain[b][Len(Chain[b])] = b
    /\ \A i \in 1 .. Len(Chain[b]) : Chain[Chain[b][i]] = SubSeq(Chain[b], 1, i)
    /\ \A q \in Range(Discovery) : History[b][q] \in Seq(Txids)
    /\ \A a \in Range(Chain[b]), q \in Range(Discovery) :
         LET old == History[a][q]
             all == History[b][q]
         IN  /\ Len(old) <= Len(all)
             /\ \A i \in 1 .. Len(old) : all[Len(all) - Len(old) + i] = old[i]

VARIABLES
  tip,         \* Chronik: the block at the tip
  healthy,     \* Chronik and the process no longer fail
  row,         \* store: row[t] is the block t is recorded in, "mempool",
               \*   "inactive" or "absent"
  recorded,    \* store: transactions with a durable verification record
  checkpoint,  \* store: backfill_checkpoints, one per protocol
  job,         \* the indexing jobs queued or running, one per transaction
  reorgs,      \* heights of disconnected blocks the daemon was told of
  pc, run,     \* where the reconciliation waits, and its local variables
  status       \* backfillState and backfillComplete

vars == <<tip, healthy, row, recorded, checkpoint, job, reorgs, pc, run, status>>

Protocols == Range(Discovery)

-----------------------------------------------------------------------------
(* Chronik.                                                                *)

Height(b) == Len(Chain[b]) - 1
OnChain(b) == Range(Chain[b])
Mined(b) == UNION {Range(History[b][q]) : q \in Protocols}

(* What chronik.tx answers for t while the tip is b.                       *)
Views(b, t) ==
  IF t \in Mined(b)
    THEN {a \in OnChain(b) :
            t \in Mined(a) /\ \A c \in OnChain(b) : t \in Mined(c) => Height(a) <= Height(c)}
    ELSE {"mempool", "missing"}

PageOf(h, page) == SubSeq(h, page * PageSize + 1, Least(Len(h), (page + 1) * PageSize))

(* The tip moves; each block that leaves the chain is announced, unless    *)
(* the WebSocket is down.                                                  *)
TipMove(b) ==
  /\ <<tip, b>> \in Moves
  /\ tip' = b
  /\ \/ reorgs' = reorgs \cup {Height(a) : a \in OnChain(tip) \ OnChain(b)}
     \/ UNCHANGED reorgs
  /\ UNCHANGED <<healthy, row, recorded, checkpoint, job, pc, run, status>>

Heal ==
  /\ ~healthy
  /\ healthy' = TRUE
  /\ UNCHANGED <<tip, row, recorded, checkpoint, job, reorgs, pc, run, status>>

-----------------------------------------------------------------------------
(* The store: listActiveConfirmedTransactionsPage, in the order            *)
(* (block_height, txid) from after the row the previous page ended with.   *)

ConfirmedRows(rows) ==
  {[txid |-> t, height |-> Height(rows[t])] : t \in {u \in Txids : rows[u] \in Blocks}}

Before(r, s) == r.height < s.height \/ (r.height = s.height /\ r.txid < s.txid)
First(rows) == CHOOSE r \in rows : \A s \in rows \ {r} : Before(r, s)
Last(rows) == CHOOSE r \in rows : \A s \in rows \ {r} : Before(s, r)

NoRow == [txid |-> 0, height |-> -1]

RowsPage(rows, min, after) ==
  LET listed == {r \in ConfirmedRows(rows) : r.height >= min /\ Before(after, r)}
  IN  {r \in listed : Cardinality({s \in listed : Before(s, r)}) < RowLimit}

-----------------------------------------------------------------------------
(* Indexing jobs.  Asking for a transaction that has a job joins the job,  *)
(* with the tip height that job was made with or without.                  *)

Submit(jobs, t, withTip) ==
  IF jobs[t] = NoJob THEN [jobs EXCEPT ![t] = [tip |-> withTip, seen |-> "unread"]]
                     ELSE jobs

LiveSubmit(t, withTip) ==
  /\ job[t] = NoJob
  /\ job' = Submit(job, t, withTip)
  /\ UNCHANGED <<tip, healthy, row, recorded, checkpoint, reorgs, pc, run, status>>

Fetch(t) ==
  /\ job[t] # NoJob
  /\ job[t].seen = "unread"
  /\ \E v \in Views(tip, t) : job' = [job EXCEPT ![t].seen = v]
  /\ UNCHANGED <<tip, healthy, row, recorded, checkpoint, reorgs, pc, run, status>>

(* persistIndexingResult: every transaction found is written and active;   *)
(* a TM0 memo in the mempool gets a record only with a tip height.         *)
Durable(t, j) == j.seen \in Blocks \/ (j.seen = "mempool" /\ (j.tip \/ t \in TipFree))
Written(t, seen) == IF seen = "missing" THEN row ELSE [row EXCEPT ![t] = seen]

-----------------------------------------------------------------------------
(* The reconciliation's own code between two awaits.                       *)

NoCount == -1

Blank == [full |-> FALSE, attempt |-> 0, start |-> NoBlock, reorg |-> FALSE,
          min |-> 0, after |-> NoRow, more |-> FALSE, rows |-> {},
          at |-> 0, pages |-> <<>>, count |-> NoCount, todo |-> <<>>, done |-> {},
          results |-> <<>>]

Goto(place, r, jobs) == pc' = place /\ run' = r /\ job' = jobs

Return(jobs) == Goto("idle", Blank, jobs)

(* An exception leaves the cycle; only a full one records its failure.     *)
Throw(jobs) ==
  /\ Return(jobs)
  /\ status' = IF run.full THEN [status EXCEPT !.state = "failed"] ELSE status

(* backfillProtocol for the i-th protocol, or the final read of the tip.   *)
Scan(r, i, jobs) ==
  IF i > Len(Discovery)
    THEN Goto("end", r, jobs)
    ELSE Goto("page", [r EXCEPT !.at = i, !.pages = <<0>>], jobs)

RowsDone(r, jobs) == IF r.full THEN Scan(r, 1, jobs) ELSE Return(jobs)

AwaitRow(r, jobs) == Goto("row", r, Submit(jobs, First(r.rows).txid, TRUE))

ListRows(rows, r, jobs) ==
  LET page == RowsPage(rows, r.min, r.after)
      cleared == [r EXCEPT !.rows = {}, !.after = NoRow, !.more = FALSE]
  IN  IF page = {}
        THEN RowsDone(cleared, jobs)
        ELSE AwaitRow([r EXCEPT !.rows = page, !.after = Last(page),
                                !.more = Cardinality(page) >= RowLimit], jobs)

(* Mutant: the listing ends with its first page. *)
NextRowOfOnePage(rows, jobs) ==
  LET rest == run.rows \ {First(run.rows)}
  IN  IF rest # {} THEN AwaitRow([run EXCEPT !.rows = rest], jobs)
      ELSE RowsDone([run EXCEPT !.rows = {}, !.after = NoRow], jobs)

NextRow(rows, jobs) ==
  LET rest == run.rows \ {First(run.rows)}
  IN  IF rest # {} THEN AwaitRow([run EXCEPT !.rows = rest], jobs)
      ELSE IF run.more THEN ListRows(rows, run, jobs)
      ELSE RowsDone([run EXCEPT !.rows = {}, !.after = NoRow], jobs)

(* reconcileKnownConfirmed(reorgDetected ? 0 : confirmedRevalidationHeight)*)
Anchored == {q \in Protocols : checkpoint[q] # NoCheckpoint}

LowestAnchor == Min({Height(checkpoint[q].block) : q \in Anchored})

RevalidationHeight == IF Anchored # Protocols THEN 0 ELSE LowestAnchor + 1

Revalidate(r, reorg) ==
  ListRows(row, [r EXCEPT !.reorg = reorg, !.at = 0,
                          !.min = IF reorg THEN 0 ELSE RevalidationHeight], job)

(* hasCheckpointReorganization, from the i-th protocol on: the protocols   *)
(* that have a checkpoint are listed in the order of Discovery.            *)
Listed(i) == {j \in i .. Len(Discovery) : Discovery[j] \in Anchored}
AnchorAt(i) == checkpoint[Discovery[i]].block

CheckAnchors(r, i) ==
  IF Listed(i) = {} THEN Revalidate(r, FALSE)
  ELSE LET next == Min(Listed(i))
       IN  IF Height(AnchorAt(next)) > Height(r.start)
             THEN Revalidate(r, TRUE)
             ELSE Goto("hash", [r EXCEPT !.at = next], job)

(* The candidates of a page that are not indexed yet, then the next page.  *)
SavedNever(r) == NoCheckpoint   \* mutant: the checkpoint is never read

Saved(r) == IF r.reorg THEN NoCheckpoint ELSE checkpoint[Discovery[r.at]]

PassResult(r) ==
  LET plan == Plan(Saved(r), r.count)
  IN  [cursor |-> plan.cursor, history |-> r.count, complete |-> plan.complete]

PageDone(r, jobs) ==
  IF Len(r.pages) > 1
    THEN Goto("page", [r EXCEPT !.pages = Tail(@)], jobs)
    ELSE Scan([r EXCEPT !.results = Append(@, PassResult(r)), !.pages = <<>>,
                        !.count = NoCount, !.done = {}], r.at + 1, jobs)

NextTx(r, jobs) ==
  LET left == {i \in DOMAIN r.todo : r.todo[i] \notin r.done}
  IN  IF left = {}
        THEN PageDone([r EXCEPT !.todo = <<>>], jobs)
        ELSE LET rest == SubSeq(r.todo, Min(left), Len(r.todo))
             IN  Goto("tx", [r EXCEPT !.todo = rest], Submit(jobs, Head(rest), FALSE))

-----------------------------------------------------------------------------
(* The actions of the reconciliation.                                      *)

(* The initial, connect or periodic run.                                   *)
BeginFull ==
  /\ pc = "idle"
  /\ Goto("tip", [Blank EXCEPT !.full = TRUE, !.attempt = 1], job)
  /\ status' = [status EXCEPT !.state = "running"]
  /\ UNCHANGED <<tip, healthy, row, recorded, checkpoint, reorgs>>

(* The run scheduled by a disconnected or invalidated block.  The tail     *)
(* runs one task at a time; which of those waiting is next is left open.   *)
BeginReorg(h) ==
  /\ pc = "idle"
  /\ h \in reorgs
  /\ reorgs' = reorgs \ {h}
  /\ ListRows(row, [Blank EXCEPT !.min = h], job)
  /\ UNCHANGED <<tip, healthy, row, recorded, checkpoint, status>>

ReadStartTip ==
  /\ pc = "tip"
  /\ CheckAnchors([run EXCEPT !.start = tip], 1)
  /\ UNCHANGED <<tip, healthy, row, recorded, checkpoint, reorgs, status>>

ReadHash ==
  /\ pc = "hash"
  /\ LET anchor == AnchorAt(run.at)
     IN  \/ /\ Height(anchor) > Height(tip)      \* no such block: the request fails
            /\ Throw(job)
         \/ /\ Height(anchor) <= Height(tip)
            /\ IF anchor \in OnChain(tip) THEN CheckAnchors(run, run.at + 1)
                                          ELSE Revalidate(run, TRUE)
            /\ UNCHANGED status
  /\ UNCHANGED <<tip, healthy, row, recorded, checkpoint, reorgs>>

ReadPage ==
  /\ pc = "page"
  /\ LET h == History[tip][Discovery[run.at]]
         todo == PageOf(h, Head(run.pages))
     IN  \/ /\ run.count = NoCount
            /\ NextTx([run EXCEPT !.count = Len(h), !.todo = todo,
                         !.pages = <<0>> \o Plan(Saved(run), Len(h)).more], job)
            /\ UNCHANGED status
         \/ /\ run.count = Len(h)
            /\ NextTx([run EXCEPT !.todo = todo], job)
            /\ UNCHANGED status
         \/ /\ run.count \notin {NoCount, Len(h)}
            /\ Throw(job)
  /\ UNCHANGED <<tip, healthy, row, recorded, checkpoint, reorgs>>

(* A job ends.  The reconciliation goes on if it waited for it.            *)
AwaitsRow(t) == pc = "row" /\ First(run.rows).txid = t
AwaitsTx(t) == pc = "tx" /\ Head(run.todo) = t

Persist(t) ==
  /\ job[t] # NoJob
  /\ job[t].seen # "unread"
  /\ recorded' = IF Durable(t, job[t]) THEN recorded \cup {t} ELSE recorded
  /\ LET seen == job[t].seen
         jobs == [job EXCEPT ![t] = NoJob]
     IN  \/ /\ ~AwaitsRow(t) /\ ~AwaitsTx(t)
            /\ row' = Written(t, seen)
            /\ job' = jobs
            /\ UNCHANGED <<pc, run, status>>
         \/ /\ AwaitsRow(t) /\ seen = "missing"
            /\ row' = [row EXCEPT ![t] = "inactive"]
            /\ NextRow(row', jobs)
            /\ UNCHANGED status
         \/ /\ AwaitsRow(t) /\ Durable(t, job[t])
            /\ row' = Written(t, seen)
            /\ NextRow(row', jobs)
            /\ UNCHANGED status
         \/ /\ AwaitsTx(t) /\ Durable(t, job[t])
            /\ row' = Written(t, seen)
            /\ NextTx([run EXCEPT !.todo = Tail(@), !.done = @ \cup {t}], jobs)
            /\ UNCHANGED status
         \/ /\ ~Durable(t, job[t])
            /\ AwaitsTx(t) \/ (AwaitsRow(t) /\ seen # "missing")
            /\ row' = Written(t, seen)
            /\ Throw(jobs)
  /\ UNCHANGED <<tip, healthy, checkpoint, reorgs>>

(* The checkpoints are written one after the other.                        *)
Anchor(result, b) ==
  [cursor |-> result.cursor, history |-> result.history, complete |-> result.complete,
   block |-> b]

UpTo(n) ==
  [q \in Protocols |->
     IF \E i \in 1 .. n : Discovery[i] = q
       THEN LET i == CHOOSE i \in 1 .. n : Discovery[i] = q
            IN  Anchor(run.results[i], tip)
       ELSE checkpoint[q]]

(* Mutant: only the heights are compared. *)
StableHeight(start, end) == Height(start) = Height(end)
MayRetry(attempt) == attempt < MaxStableTipAttempts

StableTip(start, end) == start = end

ReadEndTip ==
  /\ pc = "end"
  /\ \/ /\ StableTip(run.start, tip)
        /\ checkpoint' = UpTo(Len(Discovery))
        /\ status' = [state |-> "succeeded",
                      complete |-> \A i \in DOMAIN run.results : run.results[i].complete]
        /\ Return(job)
     \/ /\ ~StableTip(run.start, tip)
        /\ UNCHANGED checkpoint
        /\ \/ /\ MayRetry(run.attempt)
              /\ Goto("tip", [Blank EXCEPT !.full = TRUE, !.attempt = run.attempt + 1], job)
              /\ UNCHANGED status
           \/ /\ ~MayRetry(run.attempt)
              /\ Throw(job)
  /\ UNCHANGED <<tip, healthy, row, recorded, reorgs>>

-----------------------------------------------------------------------------
(* Failures.  A request is rejected: by Chronik, or by the queue.          *)
Fail ==
  /\ ~healthy
  /\ pc \in {"tip", "hash", "page", "end"}
  /\ Throw(job)
  /\ UNCHANGED <<tip, healthy, row, recorded, checkpoint, reorgs>>

JobFails(t) ==
  /\ ~healthy
  /\ job[t] # NoJob
  /\ LET jobs == [job EXCEPT ![t] = NoJob]
     IN  IF AwaitsRow(t) \/ AwaitsTx(t)
           THEN Throw(jobs)
           ELSE job' = jobs /\ UNCHANGED <<pc, run, status>>
  /\ UNCHANGED <<tip, healthy, row, recorded, checkpoint, reorgs>>

(* The process dies and starts again, maybe after the first checkpoints of *)
(* a commit: only the store survives.                                      *)
Crash ==
  /\ ~healthy
  /\ \/ UNCHANGED checkpoint
     \/ /\ pc = "end" /\ StableTip(run.start, tip)
        /\ \E n \in 1 .. Len(Discovery) - 1 : checkpoint' = UpTo(n)
  /\ Return([t \in Txids |-> NoJob])
  /\ reorgs' = {}
  /\ status' = [state |-> "idle", complete |-> FALSE]
  /\ UNCHANGED <<tip, healthy, row, recorded>>

Init ==
  /\ tip = Genesis
  /\ healthy = FALSE
  /\ row = [t \in Txids |-> "absent"]
  /\ recorded = {}
  /\ checkpoint = [q \in Protocols |-> NoCheckpoint]
  /\ job = [t \in Txids |-> NoJob]
  /\ reorgs = {}
  /\ pc = "idle"
  /\ run = Blank
  /\ status = [state |-> "idle", complete |-> FALSE]

Cycle == ReadStartTip \/ ReadHash \/ ReadPage \/ ReadEndTip

Next ==
  \/ \E b \in Blocks : TipMove(b)
  \/ Heal
  \/ \E t \in LiveTxids, withTip \in BOOLEAN : LiveSubmit(t, withTip)
  \/ \E t \in Txids : Fetch(t) \/ Persist(t) \/ JobFails(t)
  \/ BeginFull
  \/ \E h \in reorgs : BeginReorg(h)
  \/ Cycle
  \/ Fail
  \/ Crash

Spec == Init /\ [][Next]_vars

(***************************************************************************)
(* The timer is armed again after every run, whatever its end; what else   *)
(* is scheduled gets its turn between two runs (SF: it is not enabled      *)
(* during one); every request and job ends.  Failures stop at some point   *)
(* (Heal); the moves of the tip do when Moves has no cycle.                *)
(***************************************************************************)
FairSpec ==
  /\ Spec
  /\ WF_vars(Heal)
  /\ WF_vars(Cycle)
  /\ WF_vars(BeginFull)
  /\ SF_vars(\E h \in reorgs : BeginReorg(h))
  /\ \A t \in Txids : WF_vars(Fetch(t)) /\ WF_vars(Persist(t))

-----------------------------------------------------------------------------
Jobs == {NoJob} \cup
  [tip : BOOLEAN, seen : Blocks \cup {"unread", "mempool", "missing"}]

TypeOK ==
  /\ tip \in Blocks
  /\ healthy \in BOOLEAN
  /\ row \in [Txids -> Blocks \cup {"absent", "mempool", "inactive"}]
  /\ recorded \subseteq Txids
  /\ \A q \in Protocols :
       checkpoint[q] \in {NoCheckpoint} \cup
         [cursor : Nat, history : Nat, complete : BOOLEAN, block : Blocks]
  /\ job \in [Txids -> Jobs]
  /\ reorgs \subseteq Nat
  /\ pc \in {"idle", "tip", "hash", "row", "page", "tx", "end"}
  /\ run.attempt \in 0 .. MaxStableTipAttempts
  /\ run.start \in Blocks \cup {NoBlock}
  /\ status \in [state : {"idle", "running", "succeeded", "failed"}, complete : BOOLEAN]

(***************************************************************************)
(* A checkpoint claims no more than what is in the store: its history is   *)
(* the one of its anchor block, and the newest `cursor' transactions of it *)
(* all have a durable record.  No transaction is skipped by a crash, a     *)
(* failed request, a retry, a resumed cursor or a moving tip.              *)
(* docs/indexer-daemon.md: the checkpoint advances only after every        *)
(* candidate "produces a durable result and the Chronik tip remains        *)
(* stable".  It holds for a tip that never returns to a block it left.     *)
(***************************************************************************)
CheckpointSound ==
  \A q \in Anchored :
    LET cp == checkpoint[q]
        h  == History[cp.block][q]
    IN  /\ cp.history = Len(h)
        /\ cp.cursor <= cp.history
        /\ cp.complete => cp.cursor = cp.history
        /\ \A i \in 1 .. cp.cursor : h[i] \in recorded

(***************************************************************************)
(* When a cycle succeeds, every active confirmed row is in a block of the  *)
(* chain it anchors: docs/indexer-daemon.md says that the revalidation     *)
(* before the scan covers "a shallow offline reorganization that leaves    *)
(* the older anchor block unchanged".  It holds for a tip that never       *)
(* returns to a branch it left, apart from rows that live jobs write.      *)
(***************************************************************************)
NoStaleRowAtCommit ==
  [][checkpoint' # checkpoint =>
       \A t \in Txids \ LiveTxids : row'[t] \in Blocks => row'[t] \in OnChain(tip)]_vars

(***************************************************************************)
(* docs/indexer-daemon.md: "WebSocket delivery is an optimization, not the *)
(* durability boundary".  Once the tip rests no active confirmed row stays *)
(* in a block that left the chain, whatever the daemon was told.           *)
(***************************************************************************)
RowsConverge ==
  <>[](\A t \in Txids : row[t] \in Blocks => row[t] \in OnChain(tip))

(***************************************************************************)
(* A complete history becomes incomplete again (and the daemon not ready)  *)
(* only by a reorganization of an anchor, or when more arrived than one    *)
(* run may fetch.                                                          *)
(***************************************************************************)
AnchorsOnChain == \A q \in Anchored : checkpoint[q].block \in OnChain(tip)

CompletionKept ==
  [][\A q \in Anchored :
       checkpoint[q].complete /\ ~checkpoint'[q].complete =>
         \/ ~AnchorsOnChain
         \/ Len(History[tip][q]) - checkpoint[q].history > MaxPages * PageSize]_vars

(***************************************************************************)
(* If the anchors are still on the chain an incomplete checkpoint comes    *)
(* closer to the oldest transaction with every successful cycle that finds *)
(* room for an older page beside the new ones.                             *)
(***************************************************************************)
Arrived(q) == Len(History[tip][q]) - checkpoint[q].history
Older(cp) == cp.history - cp.cursor
Commits == status.state = "running" /\ status'.state = "succeeded"

OlderPagesContinue ==
  [][Commits /\ AnchorsOnChain =>
       \A q \in Anchored :
         /\ ~checkpoint[q].complete
         /\ Arrived(q) = 0 \/ PageCount(Arrived(q)) < MaxPages
         => Older(checkpoint'[q]) < Older(checkpoint[q])]_vars

(***************************************************************************)
(* Once the tip rests and nothing fails, both histories become complete at *)
(* that tip and stay so, however little a run may fetch.                   *)
(***************************************************************************)
CaughtUp(cp) == cp # NoCheckpoint /\ cp.complete /\ cp.block = tip

CatchesUp == <>[](\A q \in Protocols : CaughtUp(checkpoint[q]))
=============================================================================
