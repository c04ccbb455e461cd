---------------------------- MODULE CatalogImport ----------------------------
(***************************************************************************)
(* The composition that bootstrap.py builds: StartCatalogSyncUseCase       *)
(* reads its pages from ProductApiClient.iter_pages and hands every item   *)
(* to the product pipeline.  CatalogSync leaves open which pages arrive    *)
(* and what an item changes; here both are what the client and the table   *)
(* of products say.                                                        *)
(*                                                                         *)
(* Each run makes an iterator of its own.  CatalogSync proves that no two  *)
(* runs work at once, so one set of client variables serves all of them:   *)
(* it belongs to the run that works and starts anew when a run acquires    *)
(* the slot.                                                               *)
(***************************************************************************)
EXTENDS Integers, Sequences, FiniteSets

CONSTANTS
  Runs, Faults, None, NoRow,                             \* of CatalogSync
  Configurations, Limit, MaxPages, Attempts, Backoff, MaxDelay, RetryAfters,
  NoHeader, NotANumber, StatusCodes, TransportFails, Tokens, ForeignLinks,
  MalformedLinks,                                        \* of ProductPages
  Items,       \* numbers of the items any server may send
  Tables       \* tables of products an import may begin with

\* What the table says of a product of the source: it has no row, a row of an
\* older snapshot, or the row of the snapshot the source sends now.
Versions == {"absent", "stale", "current"}

VARIABLES
  pc, exec, row, left, pages, outcome, upserted,         \* of CatalogSync
  settings, catalog, clientPc, request, last, seen, rounds, attempt, status,
  waited, yielded, result,                               \* of ProductPages
  products,    \* products[i]: the row of the product with external id i
  before       \* products when the working run acquired the slot

Sync == INSTANCE CatalogSync WITH PageSizes <- Nat

Client == INSTANCE ProductPages WITH pc <- clientPc

\* The iterator is iter_pages, and Items has room for every item of a server.
ASSUME ImportAssumption ==
  /\ Client!ConfigAssumption
  /\ Faults \subseteq Sync!FaultKinds /\ None \notin Runs /\ NoRow \notin Sync!Row
  /\ 0 \in Items /\ Items \subseteq Nat /\ IsFiniteSet(Items)
  /\ Tables \subseteq [Items -> Versions]
  /\ \A s \in Configurations :
       s.read = "pages" /\ 1..(s.size + s.growth) \subseteq Items

syncVars == <<pc, exec, row, left, pages, outcome, upserted>>

clientVars == <<settings, catalog, clientPc, request, last, seen, rounds,
                attempt, status, waited, yielded, result>>

tableVars == <<products, before>>

vars == <<syncVars, clientVars, tableVars>>

-----------------------------------------------------------------------------
Init ==
  /\ Sync!Init
  /\ Client!Init
  /\ products \in Tables
  /\ before = products

\* iter_pages is called: a new iterator, at its first request.
NewIterator ==
  /\ clientPc' = "ask" /\ result' = "none"
  /\ request' = Client!FirstRequest /\ last' = FALSE
  /\ seen' = {} /\ rounds' = 0
  /\ attempt' = 0 /\ status' = 0 /\ waited' = 0
  /\ yielded' = << >>
  /\ UNCHANGED <<settings, catalog>>

Acquire(r) ==
  /\ Sync!Acquire(r)
  /\ NewIterator
  /\ before' = products
  /\ UNCHANGED products

\* Mutant: an iteration that raised is taken for one that ended.
EndedAlwaysWell(r) == Sync!SourceExhausted(r)

\* The iteration is over: the loop ends, or raises.
Ended(r) ==
  IF result' = "whole" THEN Sync!SourceExhausted(r) ELSE Sync!SourceRaises(r)

\* The run waits for its iterator: a step of the client, which may yield a
\* page, end the iteration or raise.
Fetch(r) ==
  /\ pc[r] = "fetch"
  /\ Client!ClientStep
  /\ CASE clientPc' = "yield" ->
            Sync!ReceivePage(r, Len(yielded') - Len(yielded))
       [] clientPc' \in {"ask", "get"} -> UNCHANGED syncVars
       [] clientPc' = "end" -> Ended(r)
  /\ UNCHANGED tableVars

\* The item of the current page that the run is at.
CurrentItem(r) == yielded[Len(yielded) - left[r] + 1]

\* Mutant: an item that is already up to date counts as updated.
ChangeAlways(i) == IF products[i] = "absent" THEN "created" ELSE "updated"

\* What upsert_incremental answers for an item.
ChangeOf(i) ==
  CASE products[i] = "absent" -> "created"
    [] products[i] = "stale" -> "updated"
    [] products[i] = "current" -> "unchanged"

Upserted(i) == products' = [products EXCEPT ![i] = "current"]

ProcessItem(r) ==
  /\ pc[r] = "items"
  /\ Sync!ItemProcessed(r, ChangeOf(CurrentItem(r)))
  /\ Upserted(CurrentItem(r))
  /\ UNCHANGED <<clientVars, before>>

\* A step that may have committed the transaction of the item, or not.
MaybeUpserted(r) ==
  IF upserted' = upserted THEN UNCHANGED products ELSE Upserted(CurrentItem(r))

FailItem(r) ==
  /\ \E fits \in BOOLEAN : Sync!ItemFailed(r, fits)
  /\ MaybeUpserted(r)
  /\ UNCHANGED <<clientVars, before>>

\* The save of a page raises: execute leaves its loop and drops the iterator.
LeaveLoop(r) ==
  /\ Sync!SavePageRaises(r)
  /\ Client!Drop
  /\ UNCHANGED tableVars

Crash(r) ==
  /\ Sync!Crash(r)
  /\ MaybeUpserted(r)
  /\ UNCHANGED <<clientVars, before>>

\* The steps of execute that concern its own repository alone.
Alone(r) ==
  /\ \/ Sync!Start(r)
     \/ Sync!AcquireRefused(r) \/ Sync!AcquireRaises(r)
     \/ Sync!SavePage(r)
     \/ Sync!SaveFailed(r) \/ Sync!SaveFinal(r) \/ Sync!ClosingSaveRaises(r)
  /\ UNCHANGED <<clientVars, tableVars>>

\* The server gains an item.
Publish == Client!Publish /\ UNCHANGED <<syncVars, tableVars>>

-----------------------------------------------------------------------------
\* What the event loop owes a run that has started.
Step(r) ==
  \/ pc[r] # "idle" /\ Alone(r)
  \/ Acquire(r) \/ Fetch(r) \/ ProcessItem(r) \/ FailItem(r) \/ LeaveLoop(r)

AllDone == (\A r \in Runs : pc[r] = "done") /\ UNCHANGED vars

Next ==
  \/ \E r \in Runs : Step(r) \/ (pc[r] = "idle" /\ Alone(r)) \/ Crash(r)
  \/ Publish
  \/ AllDone

Spec == Init /\ [][Next]_vars

Fairness == \A r \in Runs : WF_vars(Step(r))

FairSpec == Spec /\ Fairness

-----------------------------------------------------------------------------
(* Safety. *)

Inside(r) == pc[r] \in {"fetch", "items", "save"}

\* Every item the client handed out is accounted for by the run that read it:
\* received once, in the page it came with, and then processed or failed.
EveryItemCounted ==
  \A r \in Runs : Inside(r) =>
    /\ exec[r].received = Len(yielded)
    /\ exec[r].processed + exec[r].failed + left[r] = Len(yielded)
    /\ pages[r] <= rounds /\ rounds <= pages[r] + 1

Turned(version) ==
  Cardinality({i \in Items : before[i] = version /\ products[i] = "current"})

\* The evidence says what happened to the table, also when the source sends
\* an item twice: as many rows created, and updated, as are counted, except
\* for items that failed after their transaction had committed.
EvidenceMatchesTable ==
  \A r \in Runs : Inside(r) \/ pc[r] = "saveFinal" =>
    LET counted == exec[r].changed
        made == Turned("absent") + Turned("stale")
    IN  /\ counted["created"] <= Turned("absent")
        /\ counted["updated"] <= Turned("stale")
        /\ made <= counted["created"] + counted["updated"] + exec[r].failed

\* An import that answers "completed" has brought the whole catalog of an
\* honest server to the table: the items that are not up to date are at most
\* those its row counts as failed.  It holds when execute closes the run, and
\* for ever after.
CompletedIsWhole ==
  \A r \in Runs :
    /\ outcome[r] = "completed"
    /\ settings.server = "honest" /\ Client!PagesAgree
    => Cardinality({i \in 1..settings.size : products[i] # "current"})
         <= row[r].failed

(* Liveness, under FairSpec. *)

\* Whatever the server answers, and whatever fails, a slot that is taken is
\* given back, unless its run died or ended in a bare error.
EverySlotReleased ==
  \A r \in Runs :
    Sync!HoldsSlot(r) ~>
      ~Sync!HoldsSlot(r) \/ outcome[r] \in {"error", "crashed"}
=============================================================================
