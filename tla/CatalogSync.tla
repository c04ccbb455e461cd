---------------------------- MODULE CatalogSync ----------------------------
(***************************************************************************)
(* StartCatalogSyncUseCase.execute, run by any number of callers at once,  *)
(* against the durable execution repository: the lookup of the execution   *)
(* to reprocess, the insert that acquires the unique active slot, the loop *)
(* over pages and items, the save after every page, and the two ways to    *)
(* close an execution.  A step of an actor ends at an await: between two   *)
(* steps of one execution every other one may run.                         *)
(*                                                                         *)
(* A run is one call of execute and one CatalogSyncExecution; the use case *)
(* makes a fresh id for each, so the run also names the execution and its  *)
(* row in catalog_sync_executions.                                         *)
(***************************************************************************)
EXTENDS Naturals

CONSTANTS
  Runs,        \* calls of execute, over the whole life of the database
  PageSizes,   \* numbers of items a page of the source may hold
  MaxPages,    \* settings.external_api_max_pages
  Faults,      \* the faults of the environment that are switched on
  None,        \* no execution to reprocess
  NoRow        \* the execution has no row

FaultKinds == {
  "source",    \* the product source raises in the middle of the iteration
  "db",        \* a transaction raises, before or after it committed
  "poison",    \* an item failure that its table cannot store
  "crash" }    \* the process dies, or its task is cancelled

Statuses == {"running", "completed", "completed_with_failures", "failed"}

Changes == {"created", "updated", "unchanged"}

(***************************************************************************)
(* The aggregate, held in memory by its run.  storable abstracts the list  *)
(* of failures: it says whether every failure fits its columns.  changed   *)
(* holds created_count, updated_count and unchanged_count.                 *)
(***************************************************************************)
Execution == [
  reprocessOf : Runs \cup {None}, status : Statuses,
  received : Nat, processed : Nat, failed : Nat,
  changed : [Changes -> Nat],
  storable : BOOLEAN ]

\* A row of catalog_sync_executions; activeSlot is FALSE where it is NULL.
Row == [
  reprocessOf : Runs \cup {None}, status : Statuses, activeSlot : BOOLEAN,
  received : Nat, processed : Nat, failed : Nat,
  changed : [Changes -> Nat] ]

ASSUME ConfigAssumption ==
  /\ PageSizes \subseteq Nat
  /\ MaxPages \in Nat \ {0}
  /\ Faults \subseteq FaultKinds
  /\ None \notin Runs
  /\ NoRow \notin Row

VARIABLES
  pc,          \* pc[r]: the await the run is suspended at
  exec,        \* exec[r]: the aggregate in the memory of the run
  row,         \* row[r]: the row of the execution, or NoRow
  left,        \* left[r]: items of the current page still to process
  pages,       \* pages[r]: pages the source has yielded to the run
  outcome,     \* outcome[r]: what execute returned or raised
  upserted     \* upserted[r]: product transactions committed for the run

vars == <<pc, exec, row, left, pages, outcome, upserted>>

Awaits == {"fetch", "items", "save", "saveFailed", "saveFinal"}

Labels == Awaits \cup {"idle", "acquire", "done"}

Outcomes == {"none", "completed", "not_found", "already_running",
             "sync_failed", "error", "crashed"}

-----------------------------------------------------------------------------
(* The aggregate's operations. *)

NewExecution(previous) == [
  reprocessOf |-> previous, status |-> "running",
  received |-> 0, processed |-> 0, failed |-> 0,
  changed |-> [c \in Changes |-> 0],
  storable |-> TRUE ]

RegisterReceived(e, n) == [e EXCEPT !.received = @ + n]

RegisterProcessed(e, change) ==
  [e EXCEPT !.processed = @ + 1, !.changed[change] = @ + 1]

\* Mutant: the failed item is counted among the processed ones too.
FailureAlsoProcessed(e, fits) ==
  [e EXCEPT !.failed = @ + 1, !.processed = @ + 1, !.storable = @ /\ fits]

RegisterItemFailure(e, fits) ==
  [e EXCEPT !.failed = @ + 1, !.storable = @ /\ fits]

Complete(e) ==
  [e EXCEPT !.status = IF e.failed > 0 THEN "completed_with_failures"
                                       ELSE "completed"]

\* Mutant: the failed execution is built anew and forgets its counters.
FailAnew(e) == [NewExecution(e.reprocessOf) EXCEPT !.status = "failed"]

Fail(e) == [e EXCEPT !.status = "failed"]

\* Mutant: the slot is not given back.
SlotKeptModel(e) == [
  reprocessOf |-> e.reprocessOf, status |-> e.status, activeSlot |-> TRUE,
  received |-> e.received, processed |-> e.processed, failed |-> e.failed,
  changed |-> e.changed ]

\* The row of an execution: the slot is set exactly while it is running.
ToModel(e) == [
  reprocessOf |-> e.reprocessOf, status |-> e.status,
  activeSlot |-> e.status = "running",
  received |-> e.received, processed |-> e.processed, failed |-> e.failed,
  changed |-> e.changed ]

-----------------------------------------------------------------------------
(* State predicates. *)

TotalChanged(e) ==
  e.changed["created"] + e.changed["updated"] + e.changed["unchanged"]

HoldsSlot(r) == row[r] # NoRow /\ row[r].activeSlot

SlotTaken == \E r \in Runs : HoldsSlot(r)

\* Between a successful acquire and the return of execute.
Working(r) == pc[r] \in Awaits

-----------------------------------------------------------------------------
Init ==
  /\ pc = [r \in Runs |-> "idle"]
  /\ exec = [r \in Runs |-> NewExecution(None)]
  /\ row = [r \in Runs |-> NoRow]
  /\ left = [r \in Runs |-> 0]
  /\ pages = [r \in Runs |-> 0]
  /\ outcome = [r \in Runs |-> "none"]
  /\ upserted = [r \in Runs |-> 0]

Goto(r, l) == pc' = [pc EXCEPT ![r] = l] /\ UNCHANGED outcome

Return(r, o) ==
  /\ pc' = [pc EXCEPT ![r] = "done"]
  /\ outcome' = [outcome EXCEPT ![r] = o]

\* The transaction of acquire and of save: the whole row from the aggregate.
WriteRow(r) == row' = [row EXCEPT ![r] = ToModel(exec[r])]

\* A transaction that raised: the driver may have lost a commit's reply.
WriteRowMaybe(r) == UNCHANGED row \/ (exec[r].storable /\ WriteRow(r))

SaveRaises(r) == "db" \in Faults \/ ~exec[r].storable

(* execute, up to acquire. *)

StartFresh(r) ==
  /\ pc[r] = "idle"
  /\ exec' = [exec EXCEPT ![r] = NewExecution(None)]
  /\ Goto(r, "acquire")
  /\ UNCHANGED <<row, left, pages, upserted>>

StartReprocess(r, previous) ==
  /\ pc[r] = "idle"
  /\ row[previous] # NoRow
  /\ exec' = [exec EXCEPT ![r] = NewExecution(previous)]
  /\ Goto(r, "acquire")
  /\ UNCHANGED <<row, left, pages, upserted>>

RejectUnknown(r, previous) ==
  /\ pc[r] = "idle"
  /\ row[previous] = NoRow
  /\ Return(r, "not_found")
  /\ UNCHANGED <<exec, row, left, pages, upserted>>

LookupRaises(r) ==
  /\ pc[r] = "idle"
  /\ "db" \in Faults
  /\ Return(r, "error")
  /\ UNCHANGED <<exec, row, left, pages, upserted>>

(* acquire: one insert; the unique active_slot makes it fail if taken. *)

\* Mutant: no unique constraint on active_slot.
AcquireUnguarded(r) ==
  /\ pc[r] = "acquire"
  /\ WriteRow(r)
  /\ Goto(r, "fetch")
  /\ UNCHANGED <<exec, left, pages, upserted>>

Acquire(r) ==
  /\ pc[r] = "acquire"
  /\ ~SlotTaken
  /\ WriteRow(r)
  /\ Goto(r, "fetch")
  /\ UNCHANGED <<exec, left, pages, upserted>>

AcquireRefused(r) ==
  /\ pc[r] = "acquire"
  /\ SlotTaken
  /\ Return(r, "already_running")
  /\ UNCHANGED <<exec, row, left, pages, upserted>>

\* Mutant: the lost insert does not respect the slot.
AcquireRaisesUnguarded(r) ==
  /\ pc[r] = "acquire"
  /\ "db" \in Faults
  /\ UNCHANGED row \/ WriteRow(r)
  /\ Return(r, "error")
  /\ UNCHANGED <<exec, left, pages, upserted>>

AcquireRaises(r) ==
  /\ pc[r] = "acquire"
  /\ "db" \in Faults
  /\ UNCHANGED row \/ (~SlotTaken /\ WriteRow(r))
  /\ Return(r, "error")
  /\ UNCHANGED <<exec, left, pages, upserted>>

(* The loop over pages and items. *)

ReceivePage(r, n) ==
  /\ pc[r] = "fetch"
  /\ pages[r] < MaxPages
  /\ pages' = [pages EXCEPT ![r] = @ + 1]
  /\ exec' = [exec EXCEPT ![r] = RegisterReceived(@, n)]
  /\ left' = [left EXCEPT ![r] = n]
  /\ Goto(r, IF n = 0 THEN "save" ELSE "items")
  /\ UNCHANGED <<row, upserted>>

\* Mutant: the page ends one item too late.
NextItemLate(r) ==
  /\ left' = [left EXCEPT ![r] = @ - 1]
  /\ Goto(r, IF left[r] = 0 THEN "save" ELSE "items")

\* Control after an item: the next one, or the save of the page.
NextItem(r) ==
  /\ left' = [left EXCEPT ![r] = @ - 1]
  /\ Goto(r, IF left[r] = 1 THEN "save" ELSE "items")

ItemProcessed(r, change) ==
  /\ pc[r] = "items"
  /\ upserted' = [upserted EXCEPT ![r] = @ + 1]
  /\ exec' = [exec EXCEPT ![r] = RegisterProcessed(@, change)]
  /\ NextItem(r)
  /\ UNCHANGED <<row, pages>>

\* The processor raised: with a lost reply the product was written anyway.
ItemFailed(r, fits) ==
  /\ pc[r] = "items"
  /\ fits \/ "poison" \in Faults
  /\ \/ UNCHANGED upserted
     \/ "db" \in Faults /\ upserted' = [upserted EXCEPT ![r] = @ + 1]
  /\ exec' = [exec EXCEPT ![r] = RegisterItemFailure(@, fits)]
  /\ NextItem(r)
  /\ UNCHANGED <<row, pages>>

\* Mutant: the execution is stored only when it is closed.
SavePageSkipped(r) ==
  /\ pc[r] = "save"
  /\ exec[r].storable
  /\ Goto(r, "fetch")
  /\ UNCHANGED <<exec, row, left, pages, upserted>>

SavePage(r) ==
  /\ pc[r] = "save"
  /\ exec[r].storable
  /\ WriteRow(r)
  /\ Goto(r, "fetch")
  /\ UNCHANGED <<exec, left, pages, upserted>>

\* except Exception, raised by the save of a page.
SavePageRaises(r) ==
  /\ pc[r] = "save"
  /\ SaveRaises(r)
  /\ WriteRowMaybe(r)
  /\ exec' = [exec EXCEPT ![r] = Fail(@)]
  /\ Goto(r, "saveFailed")
  /\ UNCHANGED <<left, pages, upserted>>

\* except Exception, raised by the source: an error of its own, or the page
\* after the last one the client accepts.
SourceRaises(r) ==
  /\ pc[r] = "fetch"
  /\ "source" \in Faults \/ pages[r] = MaxPages
  /\ exec' = [exec EXCEPT ![r] = Fail(@)]
  /\ Goto(r, "saveFailed")
  /\ UNCHANGED <<row, left, pages, upserted>>

\* The client yields at least one page before it returns.
SourceExhausted(r) ==
  /\ pc[r] = "fetch"
  /\ pages[r] > 0
  /\ exec' = [exec EXCEPT ![r] = Complete(@)]
  /\ Goto(r, "saveFinal")
  /\ UNCHANGED <<row, left, pages, upserted>>

(* Closing: neither save is inside the try block. *)

\* Mutant: the handler raises without saving the failed execution.
SaveFailedSkipped(r) ==
  /\ pc[r] = "saveFailed"
  /\ exec[r].storable
  /\ Return(r, "sync_failed")
  /\ UNCHANGED <<exec, row, left, pages, upserted>>

SaveFailed(r) ==
  /\ pc[r] = "saveFailed"
  /\ exec[r].storable
  /\ WriteRow(r)
  /\ Return(r, "sync_failed")
  /\ UNCHANGED <<exec, left, pages, upserted>>

SaveFinal(r) ==
  /\ pc[r] = "saveFinal"
  /\ exec[r].storable
  /\ WriteRow(r)
  /\ Return(r, "completed")
  /\ UNCHANGED <<exec, left, pages, upserted>>

\* Mutant: the closing save is retried until it succeeds.
ClosingSaveRetried(r) ==
  /\ pc[r] \in {"saveFailed", "saveFinal"}
  /\ SaveRaises(r)
  /\ WriteRowMaybe(r)
  /\ UNCHANGED <<pc, exec, left, pages, outcome, upserted>>

ClosingSaveRaises(r) ==
  /\ pc[r] \in {"saveFailed", "saveFinal"}
  /\ SaveRaises(r)
  /\ WriteRowMaybe(r)
  /\ Return(r, "error")
  /\ UNCHANGED <<exec, left, pages, upserted>>

(***************************************************************************)
(* CancelledError is not an Exception, so a cancelled task leaves execute  *)
(* exactly as a dead process does: no handler runs, the row stays.         *)
(***************************************************************************)
Crash(r) ==
  /\ "crash" \in Faults
  /\ pc[r] \in Awaits \cup {"acquire"}
  /\ Return(r, "crashed")
  /\ \/ UNCHANGED upserted
     \/ pc[r] = "items" /\ upserted' = [upserted EXCEPT ![r] = @ + 1]
  /\ UNCHANGED <<exec, row, left, pages>>

-----------------------------------------------------------------------------
Start(r) ==
  \/ StartFresh(r)
  \/ \E previous \in Runs : StartReprocess(r, previous)
                            \/ RejectUnknown(r, previous)
  \/ LookupRaises(r)

\* What the event loop owes a run that has started.
Step(r) ==
  \/ Acquire(r) \/ AcquireRefused(r) \/ AcquireRaises(r)
  \/ \E n \in PageSizes : ReceivePage(r, n)
  \/ \E change \in Changes : ItemProcessed(r, change)
  \/ \E fits \in BOOLEAN : ItemFailed(r, fits)
  \/ SavePage(r) \/ SavePageRaises(r)
  \/ SourceRaises(r) \/ SourceExhausted(r)
  \/ SaveFailed(r) \/ SaveFinal(r) \/ ClosingSaveRaises(r)

AllDone == (\A r \in Runs : pc[r] = "done") /\ UNCHANGED vars

Next == (\E r \in Runs : Start(r) \/ Step(r) \/ Crash(r)) \/ AllDone

Spec == Init /\ [][Next]_vars

\* The event loop resumes every task whose await has an answer; the pool and
\* the HTTP client have timeouts, so every await is answered.
Fairness == \A r \in Runs : WF_vars(Step(r))

FairSpec == Spec /\ Fairness

-----------------------------------------------------------------------------
(* Safety. *)

\* Every variable keeps its type: one state of execute, one aggregate and at
\* most one row per run.
TypeOK ==
  /\ pc \in [Runs -> Labels]
  /\ exec \in [Runs -> Execution]
  /\ row \in [Runs -> Row \cup {NoRow}]
  /\ left \in [Runs -> Nat]
  /\ pages \in [Runs -> Nat]
  /\ outcome \in [Runs -> Outcomes]
  /\ upserted \in [Runs -> Nat]

\* No two executions are ever inside the synchronization at once, whatever
\* fails: the unique active_slot is held from acquire to the last save.
SingleActiveRun ==
  \A r, s \in Runs : Working(r) /\ Working(s) => r = s

\* Every row ever stored accounts for all it received: each item was either
\* processed, with one kind of change, or recorded as failed, and the final
\* status tells whether there were failures.
StoredCountsBalance ==
  \A r \in Runs : row[r] # NoRow =>
    /\ row[r].received = row[r].processed + row[r].failed
    /\ row[r].processed = TotalChanged(row[r])
    /\ row[r].status = "completed" => row[r].failed = 0
    /\ row[r].status = "completed_with_failures" => row[r].failed > 0

\* Products are committed before their evidence, so a failure can lose
\* evidence, but never of more items than one page holds.
EvidenceLagsOnePage ==
  \A r \in Runs : upserted[r] > 0 =>
    /\ row[r] # NoRow
    /\ \E n \in PageSizes :
         upserted[r] <= row[r].processed + row[r].failed + n

\* What execute answered is what the database says, for ever after: a result
\* is the stored row, a failed execution is stored as failed, and a refused
\* one left no row.  Only a call that raised a bare error, or died, may leave
\* the slot held.
AnswerMatchesStore ==
  \A r \in Runs :
    /\ outcome[r] = "completed" =>
         /\ row[r] = ToModel(exec[r])
         /\ row[r].status \in {"completed", "completed_with_failures"}
    /\ outcome[r] = "sync_failed" =>
         row[r] # NoRow /\ row[r].status = "failed"
    /\ outcome[r] \in {"already_running", "not_found"} => row[r] = NoRow
    /\ HoldsSlot(r) /\ pc[r] = "done" => outcome[r] \in {"error", "crashed"}

\* The lookup of the execution to reprocess does not ask whether it is over;
\* still no stored execution reprocesses one that holds the slot.
ReprocessedIsClosed ==
  \A r, p \in Runs :
    row[r] # NoRow /\ row[r].reprocessOf = p => row[p] # NoRow /\ ~HoldsSlot(p)

(* Steps. *)

RowKeepsEvidence(r) ==
  row[r] # NoRow =>
    /\ row'[r] # NoRow
    /\ row'[r].reprocessOf = row[r].reprocessOf
    /\ row'[r].received >= row[r].received
    /\ row'[r].processed >= row[r].processed
    /\ row'[r].failed >= row[r].failed
    /\ row[r].status # "running" => row'[r] = row[r]

\* A save never takes back evidence an earlier save stored, and a row that
\* was closed is never written again.
EvidenceOnlyGrows == [][\A r \in Runs : RowKeepsEvidence(r)]_vars

(* Liveness, under FairSpec. *)

\* Whatever fails, a call that started is answered: no two executions wait
\* for each other and the pagination ends.
EveryCallAnswers == \A r \in Runs : pc[r] # "idle" ~> pc[r] = "done"

-----------------------------------------------------------------------------
(***************************************************************************)
(* The abstract slot.  An execution begins when its row is inserted and    *)
(* ends when the row gives the slot back; it is abandoned when its run is  *)
(* over and the row still holds the slot.                                  *)
(***************************************************************************)
PhaseOf(r) ==
  CASE row[r] = NoRow /\ pc[r] # "done" -> "new"
    [] HoldsSlot(r) /\ pc[r] # "done" -> "active"
    [] HoldsSlot(r) /\ pc[r] = "done" -> "abandoned"
    [] OTHER -> "ended"

Slot == INSTANCE SyncSlot WITH phase <- [r \in Runs |-> PhaseOf(r)]

\* The use case and its repository implement the abstract slot: only a free
\* slot is taken, only its holder gives it back, and it gives it back once.
ImplementsSlot == Slot!Spec

\* The docstring of CatalogSyncItemFailure: "Failure of a single item that
\* must not abort the remaining batch."  Read where nothing else fails.
ItemFailureKeepsBatch ==
  \A r \in Runs : outcome[r] \notin {"sync_failed", "error"}
=============================================================================
