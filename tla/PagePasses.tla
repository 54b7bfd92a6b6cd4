----------------------------- MODULE PagePasses -----------------------------
(***************************************************************************)
(* Passes of the backfill over one protocol's history, one after the other *)
(* (backfillProtocol in apps/indexer/src/daemon/daemon.ts), each from the  *)
(* checkpoint that the one before it left, while the history may grow or   *)
(* shrink in between.                                                      *)
(***************************************************************************)
EXTENDS PagePlan

CONSTANTS MaxTotal   \* bound on the length of a history

ASSUME PassesAssumption == MaxTotal \in Nat

VARIABLES
  saved,     \* the checkpoint of the protocol
  length,    \* the length of its history now
  pagesRead  \* the pages the last pass fetched, in order

passVars == <<saved, length, pagesRead>>

(* Every checkpoint a pass can leave and every later length of the history.*)
Checkpoints ==
  {NoCheckpoint} \cup
  {c \in [cursor : 0 .. MaxTotal, history : 0 .. MaxTotal, complete : BOOLEAN] :
     c.cursor <= c.history /\ (c.complete <=> c.cursor = c.history)}

PassInit ==
  /\ saved \in Checkpoints
  /\ length \in 0 .. MaxTotal
  /\ pagesRead = <<>>

(* A pass to its end: its checkpoint is that of the history it began with, *)
(* which may have grown or shrunk by then.                                 *)
PassEnds ==
  /\ saved' = [cursor |-> Plan(saved, length).cursor, history |-> length,
               complete |-> Plan(saved, length).complete]
  /\ pagesRead' = << 0 >> \o Plan(saved, length).more
  /\ length' \in 0 .. MaxTotal

(* The history changes between two passes, or under one that fails for it. *)
HistoryChanges ==
  /\ length' \in 0 .. MaxTotal
  /\ UNCHANGED <<saved, pagesRead>>

PassNext == PassEnds \/ HistoryChanges

PassSpec == PassInit /\ [][PassNext]_passVars

(***************************************************************************)
(* What a pass promises to the checkpoint it proposes and to the process:  *)
(* the pages it claims were read, the budget was kept, and the oldest page *)
(* came closer (the three parts are stated in PagePlan).                   *)
(***************************************************************************)
PlanSound ==
  /\ Covers(saved, length)
  /\ WithinBudget(saved, length)
  /\ Progresses(saved, length)
=============================================================================
