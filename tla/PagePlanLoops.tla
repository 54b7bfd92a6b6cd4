--------------------------- MODULE PagePlanLoops ---------------------------
(***************************************************************************)
(* backfillProtocol (apps/indexer/src/daemon/daemon.ts) as it runs: page   *)
(* after page in its four loops, while the history may change under it.    *)
(* Passes are those of PagePasses: a whole pass, which that module takes   *)
(* in one step by the closed form of PagePlan, is here a step per page.    *)
(***************************************************************************)
EXTENDS PagePasses

(* The pass under way: the loop it is in, page, cursor, historyTxCount and *)
(* the pages fetched so far, in order (fetchedPages; its size is their     *)
(* number as long as none is fetched twice).                               *)
VARIABLES pass

loopVars == <<saved, length, pagesRead, pass>>

NoPass == [at |-> "none", page |-> 0, cursor |-> 0, total |-> 0, fetched |-> <<>>]

LoopInit == PassInit /\ pass = NoPass

(* A block or a reorganization; the pass learns of it with its next page.  *)
ListChanges ==
  /\ length' \in (0 .. MaxTotal) \ {length}
  /\ UNCHANGED <<saved, pagesRead, pass>>

-----------------------------------------------------------------------------
(* The pages this pass knows of. *)
TotalPages == PageCount(pass.total)

NewSince == pass.total - saved.history

Fetched(page) == \E i \in DOMAIN pass.fetched : pass.fetched[i] = page

(* The condition of the loops `page < bound && fetchedPages.size < maxPages'. *)
MayFetch(bound) == pass.page < bound /\ Len(pass.fetched) < MaxPages

(* A page of a history of another length makes the pass throw: see Fails.  *)
FetchPage ==
  /\ length = pass.total
  /\ pass' = [pass EXCEPT !.fetched = Append(@, pass.page), !.page = @ + 1]
  /\ UNCHANGED <<saved, length, pagesRead>>

Turn(next) == pass' = next /\ UNCHANGED <<saved, length, pagesRead>>

Ends(cursor, complete) ==
  /\ saved' = [cursor |-> cursor, history |-> pass.total, complete |-> complete]
  /\ pagesRead' = pass.fetched
  /\ pass' = NoPass
  /\ UNCHANGED length

(* Page zero, which tells the length of the history. *)
FirstFetch ==
  /\ pass = NoPass
  /\ Turn([pass EXCEPT !.at = "first", !.page = 1, !.total = length,
                       !.fetched = << 0 >>])

SinglePage ==
  /\ pass.at = "first" /\ TotalPages <= 1
  /\ Ends(pass.total, TRUE)

ChooseLoop ==
  /\ pass.at = "first" /\ TotalPages > 1
  /\ \/ ~Usable(saved, pass.total) /\ Turn([pass EXCEPT !.at = "restart"])
     \/ Usable(saved, pass.total) /\ Turn([pass EXCEPT !.at = "scan"])

RestartPage ==
  /\ pass.at = "restart" /\ MayFetch(TotalPages)
  /\ FetchPage

RestartEnds ==
  /\ pass.at = "restart" /\ ~MayFetch(TotalPages)
  /\ LET cursor == EndOf(pass.page, pass.total)
     IN  Ends(cursor, cursor >= pass.total)

ScanPage ==
  /\ pass.at = "scan" /\ MayFetch(PageCount(NewSince))
  /\ FetchPage

Shifted == Least(pass.total, saved.cursor + NewSince)

(* The budget is used up before the last new page; or on to older pages.   *)
AfterScan ==
  /\ pass.at = "scan" /\ ~MayFetch(PageCount(NewSince))
  /\ \/ /\ pass.page < PageCount(NewSince)
        /\ Ends(EndOf(pass.page, pass.total), FALSE)
     \/ /\ pass.page >= PageCount(NewSince)
        /\ saved.complete
        /\ Turn([pass EXCEPT !.at = "extend"])
     \/ /\ pass.page >= PageCount(NewSince)
        /\ ~saved.complete
        /\ Turn([pass EXCEPT !.at = "resume", !.cursor = Shifted,
                             !.page = Shifted \div PageSize])

OverlapEnd == Least(TotalPages, Greatest(1, PageCount(NewSince)) + OverlapPages)

ExtendPage ==
  /\ pass.at = "extend" /\ MayFetch(OverlapEnd)
  /\ FetchPage

ExtendEnds ==
  /\ pass.at = "extend" /\ ~MayFetch(OverlapEnd)
  /\ Ends(pass.total, TRUE)

(* pageZeroIsOnlyAProbe *)
ProbeOnly == NewSince = 0 /\ Shifted \div PageSize > 0

AllowedPages == MaxPages + IF ProbeOnly THEN 1 ELSE 0

(* Mutant: the budget stops the loop at a page it need not fetch. *)
OutOfBudget == Len(pass.fetched) >= AllowedPages

OutOfPages == ~Fetched(pass.page) /\ Len(pass.fetched) >= AllowedPages

(* A page the scan has fetched only moves the cursor. *)
ResumePage ==
  /\ pass.at = "resume" /\ pass.page < TotalPages /\ ~OutOfPages
  /\ ~Fetched(pass.page) => length = pass.total
  /\ Turn([pass EXCEPT !.fetched = IF Fetched(pass.page) THEN @ ELSE Append(@, pass.page),
                       !.cursor = Greatest(@, EndOf(pass.page + 1, pass.total)),
                       !.page = @ + 1])

ResumeEnds ==
  /\ pass.at = "resume"
  /\ pass.page >= TotalPages \/ OutOfPages
  /\ Ends(pass.cursor, pass.cursor >= pass.total)

(* The history is another than it was, a request or an indexing call       *)
(* failed, the daemon stops, or the tip moved: the checkpoint stays.       *)
Fails ==
  /\ pass.at # "none"
  /\ Turn(NoPass)

-----------------------------------------------------------------------------
LoopNext ==
  \/ ListChanges
  \/ FirstFetch \/ SinglePage \/ ChooseLoop
  \/ RestartPage \/ RestartEnds
  \/ ScanPage \/ AfterScan
  \/ ExtendPage \/ ExtendEnds
  \/ ResumePage \/ ResumeEnds
  \/ Fails

LoopSpec == LoopInit /\ [][LoopNext]_loopVars

(* What a pass takes for the length of the history. *)
SeenLength == IF pass.at = "none" THEN length ELSE pass.total

Passes == INSTANCE PagePasses WITH length <- SeenLength

(***************************************************************************)
(* The loops, page by page and under a history that changes meanwhile,     *)
(* fetch the pages of the closed form in its order and leave the           *)
(* checkpoint it proposes for the history they began with, or none at all. *)
(***************************************************************************)
LoopsFollowPlan == Passes!PassSpec
=============================================================================
