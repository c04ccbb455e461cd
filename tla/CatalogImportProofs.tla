------------------------ MODULE CatalogImportProofs ------------------------
(***************************************************************************)
(* Theorems about CatalogImport, for any runs, faults, settings, servers   *)
(* and tables: what an import counts is what its source sent and what      *)
(* became of the table.                                                    *)
(*                                                                         *)
(* The proofs of the two components are used as they are: S and P are      *)
(* instances of their proof modules, so that a step of the import keeps    *)
(* the invariants of both, and only the joint state needs an invariant of  *)
(* its own.                                                                *)
(***************************************************************************)
EXTENDS CatalogImport, FiniteSetTheorems, SequenceTheorems, TLAPS

S == INSTANCE CatalogSyncEvidence WITH PageSizes <- Nat

P == INSTANCE ProductPagesProofs WITH pc <- clientPc

-----------------------------------------------------------------------------
(* The invariant.                                                          *)

SyncInv == S!TypeInv /\ S!SlotInv /\ S!LocalInv

ClientInv == P!IInv /\ P!SkipInv /\ P!ItemsNamed

\* Since the working run acquired the slot, rows only became current.
TableInv ==
  /\ products \in [Items -> Versions] /\ before \in [Items -> Versions]
  /\ \A i \in Items : products[i] \in {before[i], "current"}

\* The run whose pages and items are those of the client and the table.
Importing(r) == Inside(r) \/ pc[r] = "saveFinal"

\* Before it acquires the slot, a run has counted nothing.
Fresh(r) ==
  pc[r] \in {"idle", "acquire"} =>
    /\ pages[r] = 0
    /\ \A change \in {"created", "updated", "unchanged"} :
         exec[r].changed[change] = 0

\* What a run received is what its iterator yielded, page by page; while it
\* handles a page the iterator rests at its yield.
Reading(r) ==
  Inside(r) =>
    /\ exec[r].received = Len(yielded)
    /\ clientPc \in IF pc[r] = "fetch" THEN {"ask", "get", "yield"}
                                       ELSE {"yield"}
    /\ rounds = IF clientPc = "get" THEN pages[r] + 1 ELSE pages[r]

\* The counted changes are those of the table, but for failed items.
Tallied(r) ==
  Importing(r) =>
    /\ exec[r].changed["created"] <= Turned("absent")
    /\ exec[r].changed["updated"] <= Turned("stale")
    /\ Turned("absent") + Turned("stale")
         <= exec[r].changed["created"] + exec[r].changed["updated"]
              + exec[r].failed

Handled(r) == {yielded[k] : k \in 1..(Len(yielded) - left[r])}

Lacking == {i \in Items : products[i] # "current"}

\* An item that was handled is up to date, or among the failed ones.
Missed(r) ==
  Inside(r) => Cardinality(Handled(r) \cap Lacking) <= exec[r].failed

\* An import about to complete, or completed, has brought the whole catalog.
Whole(r) ==
  /\ pc[r] = "saveFinal" \/ outcome[r] = "completed"
  /\ settings.server = "honest" /\ P!PagesAgree
  => Cardinality(P!Originals \cap Lacking) <= exec[r].failed

RunInv(r) == Fresh(r) /\ Reading(r) /\ Tallied(r) /\ Missed(r) /\ Whole(r)

JointInv ==
  SyncInv /\ ClientInv /\ TableInv /\ \A r \in Runs : RunInv(r)

-----------------------------------------------------------------------------
(* The components.                                                         *)

LEMMA PagesConfig == P!ConfigAssumption
BY ImportAssumption
   DEF Client!Configuration, P!Configuration, Client!Modes, P!Modes

LEMMA SyncConfig == S!ConfigAssumption
<1>1. Client!ConfigAssumption
  BY ImportAssumption
<1>2. MaxPages \in Nat \ {0}
  BY <1>1
<1> QED
  BY <1>2, ImportAssumption
     DEF Sync!FaultKinds, S!FaultKinds, Sync!Row, S!Row, Sync!Changes,
         S!Changes, Sync!Statuses, S!Statuses

\* What CatalogImport takes from a component is what its proofs speak of.
LEMMA SameClientStep == Client!ClientStep <=> P!ClientStep
BY DEF Client!ClientStep, Client!AskPage, Client!AskRefused,
       Client!AskStopped, Client!GetRaises, Client!AskObject,
       Client!GetFails, Client!GetRejected, Client!GetUnreadable,
       Client!GetObject, Client!GetPage, Client!Resume,
       Client!Envelopes, Client!EnterRound, Client!NotCycling,
       Client!Identity, Client!Sendable, Client!End, Client!Get,
       Client!LastAttempt, Client!Retry, Client!RetryAfter,
       Client!Slept, Client!SleptInAll, Client!RetryDelay,
       Client!RetryableStatusCodes,
       Client!Unnamed, Client!HasMore, Client!NextRequest,
       Client!HonestEnvelope, Client!ArbitraryEnvelopes, Client!Start,
       Client!PageLength, Client!FirstRequest, P!ClientStep, P!AskPage,
       P!AskRefused, P!AskStopped, P!GetRaises, P!AskObject,
       P!GetFails, P!GetRejected, P!GetUnreadable, P!GetObject,
       P!GetPage, P!Resume, P!Envelopes, P!EnterRound, P!NotCycling,
       P!Identity, P!Sendable, P!End, P!Get, P!LastAttempt, P!Retry,
       P!RetryAfter, P!Slept, P!SleptInAll, P!RetryDelay,
       P!RetryableStatusCodes,
       P!Unnamed, P!HasMore, P!NextRequest, P!HonestEnvelope,
       P!ArbitraryEnvelopes, P!Start, P!PageLength, P!FirstRequest

LEMMA SameClient ==
  /\ Client!Init <=> P!Init
  /\ Client!Publish <=> P!Publish
  /\ Client!Drop <=> P!Drop
  /\ NewIterator <=> P!Begins
  /\ Client!PagesAgree <=> P!PagesAgree
<1>1. Client!Init <=> P!Init
  BY DEF Client!Init, P!Init, Client!FirstRequest, P!FirstRequest
<1>2. Client!Publish <=> P!Publish
  BY DEF Client!Publish, P!Publish
<1>3. Client!Drop <=> P!Drop
  BY DEF Client!Drop, P!Drop, Client!End, P!End
<1>4. NewIterator <=> P!Begins
  BY DEF NewIterator, P!Begins, Client!FirstRequest, P!FirstRequest
<1>5. Client!PagesAgree <=> P!PagesAgree
  BY DEF Client!PagesAgree, P!PagesAgree, Client!Capped, P!Capped
<1> QED BY <1>1, <1>2, <1>3, <1>4, <1>5

LEMMA SameSyncState ==
  /\ Sync!Init <=> S!Init
  /\ \A r : Sync!HoldsSlot(r) <=> S!HoldsSlot(r)
<1>1. Sync!Init <=> S!Init
  BY DEF Sync!Init, S!Init, Sync!NewExecution, S!NewExecution, Sync!Changes,
         S!Changes
<1>2. ASSUME NEW r PROVE Sync!HoldsSlot(r) <=> S!HoldsSlot(r)
  BY DEF Sync!HoldsSlot, S!HoldsSlot
<1> QED BY <1>1, <1>2

LEMMA SameSyncSteps ==
  ASSUME NEW r
  PROVE  /\ Sync!Start(r) <=> S!Start(r)
         /\ Sync!Acquire(r) <=> S!Acquire(r)
         /\ Sync!AcquireRefused(r) <=> S!AcquireRefused(r)
         /\ Sync!AcquireRaises(r) <=> S!AcquireRaises(r)
         /\ \A n : Sync!ReceivePage(r, n) <=> S!ReceivePage(r, n)
         /\ \A c : Sync!ItemProcessed(r, c) <=> S!ItemProcessed(r, c)
         /\ \A fits : Sync!ItemFailed(r, fits) <=> S!ItemFailed(r, fits)
         /\ Sync!SavePage(r) <=> S!SavePage(r)
         /\ Sync!SavePageRaises(r) <=> S!SavePageRaises(r)
         /\ Sync!SourceRaises(r) <=> S!SourceRaises(r)
         /\ Sync!SourceExhausted(r) <=> S!SourceExhausted(r)
         /\ Sync!SaveFailed(r) <=> S!SaveFailed(r)
         /\ Sync!SaveFinal(r) <=> S!SaveFinal(r)
         /\ Sync!ClosingSaveRaises(r) <=> S!ClosingSaveRaises(r)
         /\ Sync!Crash(r) <=> S!Crash(r)
<1> USE DEF Sync!Goto, S!Goto, Sync!Return, S!Return, Sync!WriteRow,
        S!WriteRow, Sync!ToModel, S!ToModel
<1>1. Sync!Start(r) <=> S!Start(r)
  BY DEF Sync!Start, S!Start, Sync!StartFresh, S!StartFresh,
         Sync!StartReprocess, S!StartReprocess, Sync!RejectUnknown,
         S!RejectUnknown, Sync!LookupRaises, S!LookupRaises,
         Sync!NewExecution, S!NewExecution, Sync!Changes, S!Changes
<1>2. /\ Sync!Acquire(r) <=> S!Acquire(r)
      /\ Sync!AcquireRefused(r) <=> S!AcquireRefused(r)
      /\ Sync!AcquireRaises(r) <=> S!AcquireRaises(r)
  BY DEF Sync!Acquire, S!Acquire, Sync!AcquireRefused, S!AcquireRefused,
         Sync!AcquireRaises, S!AcquireRaises, Sync!SlotTaken, S!SlotTaken,
         Sync!HoldsSlot, S!HoldsSlot
<1>3. \A n : Sync!ReceivePage(r, n) <=> S!ReceivePage(r, n)
  BY DEF Sync!ReceivePage, S!ReceivePage, Sync!RegisterReceived,
         S!RegisterReceived
<1>4. \A c : Sync!ItemProcessed(r, c) <=> S!ItemProcessed(r, c)
  BY DEF Sync!ItemProcessed, S!ItemProcessed, Sync!NextItem, S!NextItem,
         Sync!RegisterProcessed, S!RegisterProcessed
<1>5. \A fits : Sync!ItemFailed(r, fits) <=> S!ItemFailed(r, fits)
  BY DEF Sync!ItemFailed, S!ItemFailed, Sync!NextItem, S!NextItem,
         Sync!RegisterItemFailure, S!RegisterItemFailure
<1>6. /\ Sync!SavePage(r) <=> S!SavePage(r)
      /\ Sync!SavePageRaises(r) <=> S!SavePageRaises(r)
      /\ Sync!SourceRaises(r) <=> S!SourceRaises(r)
      /\ Sync!SourceExhausted(r) <=> S!SourceExhausted(r)
  BY DEF Sync!SavePage, S!SavePage, Sync!SavePageRaises, S!SavePageRaises,
         Sync!SourceRaises, S!SourceRaises, Sync!SourceExhausted,
         S!SourceExhausted, Sync!SaveRaises, S!SaveRaises,
         Sync!WriteRowMaybe, S!WriteRowMaybe, Sync!Fail, S!Fail,
         Sync!Complete, S!Complete
<1>7. /\ Sync!SaveFailed(r) <=> S!SaveFailed(r)
      /\ Sync!SaveFinal(r) <=> S!SaveFinal(r)
      /\ Sync!ClosingSaveRaises(r) <=> S!ClosingSaveRaises(r)
      /\ Sync!Crash(r) <=> S!Crash(r)
  BY DEF Sync!SaveFailed, S!SaveFailed, Sync!SaveFinal, S!SaveFinal,
         Sync!ClosingSaveRaises, S!ClosingSaveRaises, Sync!SaveRaises,
         S!SaveRaises, Sync!WriteRowMaybe, S!WriteRowMaybe, Sync!Crash,
         S!Crash, Sync!Awaits, S!Awaits
<1> QED BY <1>1, <1>2, <1>3, <1>4, <1>5, <1>6, <1>7

-----------------------------------------------------------------------------
(* What the invariants of the components say of a run.                     *)

Kinds == {"created", "updated", "unchanged"}

\* The types and counts of a run.
LEMMA RunKnows ==
  ASSUME SyncInv, NEW r \in Runs
  PROVE  /\ exec[r] \in S!Execution
         /\ exec[r].received \in Nat /\ exec[r].processed \in Nat
         /\ exec[r].failed \in Nat /\ exec[r].changed \in [Kinds -> Nat]
         /\ left[r] \in Nat /\ pages[r] \in Nat
         /\ exec[r].received = exec[r].processed + exec[r].failed + left[r]
         /\ pc[r] \notin {"items", "done"} => left[r] = 0
         /\ pc[r] \in {"idle", "acquire"} =>
              exec[r].processed = 0 /\ exec[r].failed = 0
         /\ pc[r] = "items" => left[r] > 0
         /\ outcome[r] # "none" => pc[r] = "done"
         /\ Inside(r) => exec[r].status = "running"
<1>1. /\ exec[r] \in S!Execution /\ left[r] \in Nat /\ pages[r] \in Nat
      /\ pc[r] = "items" => left[r] > 0
  BY DEF SyncInv, S!TypeInv, S!TypeOK, S!ItemsLeft
<1>2. S!Sound(pc[r], exec[r], left[r], row[r], outcome[r], upserted[r])
  BY DEF SyncInv, S!LocalInv, S!Local
<1>3. /\ exec[r].received \in Nat /\ exec[r].processed \in Nat
      /\ exec[r].failed \in Nat /\ exec[r].changed \in [Kinds -> Nat]
  BY <1>1 DEF S!Execution, S!Changes, Kinds
<1> QED
  BY <1>1, <1>2, <1>3 DEF S!Sound, S!Ledger, S!Progress, S!Answer, Inside

\* What the operations of an execution do to its counts.
LEMMA CountsOf ==
  ASSUME NEW e \in S!Execution
  PROVE  /\ \A n \in Nat :
              LET f == S!RegisterReceived(e, n)
              IN  /\ f.received = e.received + n
                  /\ f.failed = e.failed /\ f.changed = e.changed
         /\ \A c \in Kinds :
              LET f == S!RegisterProcessed(e, c)
              IN  /\ f.received = e.received /\ f.failed = e.failed
                  /\ f.changed = [e.changed EXCEPT ![c] = e.changed[c] + 1]
         /\ \A fits \in BOOLEAN :
              LET f == S!RegisterItemFailure(e, fits)
              IN  /\ f.received = e.received /\ f.failed = e.failed + 1
                  /\ f.changed = e.changed
         /\ S!Complete(e).failed = e.failed
         /\ S!Complete(e).changed = e.changed
<1>0. \A n, h : LET f == [e EXCEPT !.processed = n, !.changed = h]
                IN  /\ f.received = e.received /\ f.failed = e.failed
                    /\ f.changed = h
  BY DEF S!Execution
<1>1. ASSUME NEW n \in Nat
      PROVE  LET f == S!RegisterReceived(e, n)
             IN  /\ f.received = e.received + n
                 /\ f.failed = e.failed /\ f.changed = e.changed
  BY DEF S!RegisterReceived, S!Execution
<1>2. ASSUME NEW c \in Kinds
      PROVE  LET f == S!RegisterProcessed(e, c)
             IN  /\ f.received = e.received /\ f.failed = e.failed
                 /\ f.changed = [e.changed EXCEPT ![c] = e.changed[c] + 1]
  <2> DEFINE g == [e.changed EXCEPT ![c] = e.changed[c] + 1]
  <2>1. S!RegisterProcessed(e, c)
          = [e EXCEPT !.processed = e.processed + 1, !.changed = g]
    BY DEF S!RegisterProcessed
  <2> HIDE DEF g
  <2>2. LET f == S!RegisterProcessed(e, c)
        IN  f.received = e.received /\ f.failed = e.failed /\ f.changed = g
    BY <1>0, <2>1
  <2> QED BY <2>2 DEF g
<1>3. ASSUME NEW fits \in BOOLEAN
      PROVE  LET f == S!RegisterItemFailure(e, fits)
             IN  /\ f.received = e.received /\ f.failed = e.failed + 1
                 /\ f.changed = e.changed
  <2> DEFINE b == e.storable /\ fits
  <2>1. S!RegisterItemFailure(e, fits)
          = [e EXCEPT !.failed = e.failed + 1, !.storable = b]
    BY Zenon DEF S!RegisterItemFailure
  <2>2. \A n, c : LET f == [e EXCEPT !.failed = n, !.storable = c]
                  IN  /\ f.received = e.received /\ f.failed = n
                      /\ f.changed = e.changed
    BY DEF S!Execution
  <2> HIDE DEF b
  <2> QED BY <2>1, <2>2
<1>4. S!Complete(e).failed = e.failed /\ S!Complete(e).changed = e.changed
  BY DEF S!Complete, S!Execution
<1> QED BY <1>1, <1>2, <1>3, <1>4

\* Only one run works, and so reads pages and changes products.
LEMMA WorksAlone ==
  ASSUME SyncInv, NEW r \in Runs, NEW s \in Runs, S!Working(r), S!Working(s)
  PROVE  r = s
BY DEF SyncInv, S!SlotInv, S!SlotUnique, S!WorkingHolds

LEMMA SlotIsFree ==
  ASSUME SyncInv, NEW r \in Runs, S!Acquire(r), NEW s \in Runs
  PROVE  ~S!Working(s)
BY DEF SyncInv, S!SlotInv, S!WorkingHolds, S!Acquire, S!SlotTaken

LEMMA ImportingWorks ==
  ASSUME NEW r, Importing(r)
  PROVE  S!Working(r)
BY DEF Importing, Inside, S!Working, S!Awaits

-----------------------------------------------------------------------------
(* The table.                                                              *)

TurnedItems(version) ==
  {i \in Items : before[i] = version /\ products[i] = "current"}

LEMMA ItemsFinite == IsFiniteSet(Items)
BY ImportAssumption

LEMMA TurnedIs ==
  ASSUME NEW version
  PROVE  /\ Turned(version) = Cardinality(TurnedItems(version))
         /\ IsFiniteSet(TurnedItems(version)) /\ Turned(version) \in Nat
<1>1. IsFiniteSet(TurnedItems(version))
  BY ItemsFinite, FS_Subset DEF TurnedItems
<1>2. Turned(version) = Cardinality(TurnedItems(version))
  BY DEF Turned, TurnedItems
<1> QED BY <1>1, <1>2, FS_CardinalityType

\* An upsert makes one row current, of the version it had.
LEMMA UpsertTurns ==
  ASSUME TableInv, NEW i \in Items, Upserted(i), UNCHANGED before,
         NEW version \in {"absent", "stale"}
  PROVE  Turned(version)' =
           IF products[i] = version THEN Turned(version) + 1
                                    ELSE Turned(version)
<1>1. /\ \A j \in Items : products'[j] = IF j = i THEN "current" ELSE products[j]
      /\ \A j \in Items : products[j] \in {before[j], "current"}
      /\ before' = before
  BY DEF Upserted, TableInv
<1>2. /\ Turned(version) = Cardinality(TurnedItems(version))
      /\ IsFiniteSet(TurnedItems(version)) /\ Turned(version) \in Nat
  BY TurnedIs
<1>3. Turned(version)' = Cardinality(TurnedItems(version)')
  BY DEF Turned, TurnedItems
<1>4. CASE products[i] = version
  <2>1. TurnedItems(version)' = TurnedItems(version) \cup {i}
    BY <1>1, <1>4 DEF TurnedItems
  <2>2. i \notin TurnedItems(version)
    BY <1>4 DEF TurnedItems
  <2> QED BY <1>2, <1>3, <1>4, <2>1, <2>2, FS_AddElement
<1>5. CASE products[i] # version
  <2>1. TurnedItems(version)' = TurnedItems(version)
    BY <1>1, <1>5 DEF TurnedItems
  <2> QED BY <1>2, <1>3, <1>5, <2>1
<1> QED BY <1>4, <1>5

LEMMA UpsertLacks ==
  ASSUME TableInv, NEW i \in Items, Upserted(i)
  PROVE  Lacking' = Lacking \ {i}
BY DEF TableInv, Upserted, Lacking

\* A step that makes a row current, or none, keeps the table's invariant.
LEMMA TableKept ==
  ASSUME TableInv, UNCHANGED before,
         UNCHANGED products \/ \E i \in Items : Upserted(i)
  PROVE  TableInv' /\ Lacking' \subseteq Lacking
<1>1. CASE UNCHANGED products
  BY <1>1 DEF TableInv, Lacking
<1>2. ASSUME NEW i \in Items, Upserted(i) PROVE TableInv'
  BY <1>2 DEF TableInv, Upserted, Versions
<1>3. ASSUME NEW i \in Items, Upserted(i) PROVE Lacking' \subseteq Lacking
  BY <1>3, UpsertLacks
<1> QED BY <1>1, <1>2, <1>3

LEMMA LackingFinite ==
  ASSUME NEW set
  PROVE  /\ IsFiniteSet(set \cap Lacking)
         /\ Cardinality(set \cap Lacking) \in Nat
<1>1. set \cap Lacking \subseteq Items
  BY DEF Lacking
<1> QED BY <1>1, ItemsFinite, FS_Subset, FS_CardinalityType

\* Fewer of a smaller set lack.
LEMMA FewerLack ==
  ASSUME NEW set, NEW less, NEW lacking, less \subseteq set,
         lacking \subseteq Lacking
  PROVE  Cardinality(less \cap lacking) <= Cardinality(set \cap Lacking)
<1>1. less \cap lacking \subseteq set \cap Lacking
  OBVIOUS
<1> QED BY <1>1, LackingFinite, FS_Subset

-----------------------------------------------------------------------------
(* Steps of the components.                                                *)

\* A step of a run is one of the synchronization: it keeps the invariants
\* that are proved of it, and touches no other run.
StepBy(r) == S!Start(r) \/ S!Step(r) \/ S!Crash(r)

LEMMA SyncKept ==
  ASSUME SyncInv, NEW r \in Runs, StepBy(r)
  PROVE  SyncInv' /\ \A s \in Runs \ {r} : S!Apart(r, s)
<1>1. S!Next
  BY DEF StepBy, S!Next
<1>2. S!TypeInv'
  BY <1>1, S!TypeInvNext, SyncConfig DEF SyncInv
<1>3. S!SlotInv'
  BY <1>1, S!SlotInvNext, SyncConfig DEF SyncInv
<1>4. S!LocalInv'
  BY <1>1, S!LocalInvNext, SyncConfig DEF SyncInv
<1>5. S!TypeOK
  BY DEF SyncInv, S!TypeInv
<1>6. \A s \in Runs \ {r} : S!Apart(r, s)
  BY <1>5, S!StepsApart, SyncConfig DEF StepBy
<1> QED BY <1>2, <1>3, <1>4, <1>6 DEF SyncInv

LEMMA SyncStays ==
  ASSUME SyncInv, UNCHANGED syncVars
  PROVE  SyncInv'
<1>1. UNCHANGED S!vars
  BY DEF syncVars, S!vars
<1>2. S!TypeInv'
  BY <1>1, S!TypeInvNext, SyncConfig DEF SyncInv
<1>3. S!SlotInv'
  BY <1>1, S!SlotInvNext, SyncConfig DEF SyncInv
<1>4. S!LocalInv'
  BY <1>1, S!LocalInvNext, SyncConfig DEF SyncInv
<1> QED BY <1>2, <1>3, <1>4 DEF SyncInv

LEMMA ClientKept ==
  ASSUME ClientInv,
         \/ P!ClientStep \/ P!Publish \/ P!Drop \/ P!Begins
         \/ UNCHANGED clientVars
  PROVE  ClientInv'
<1>1. CASE P!Begins
  <2>1. P!IInv' /\ P!SkipInv'
    BY <1>1, P!BeginsSound, PagesConfig DEF ClientInv
  <2>2. P!ItemsNamed'
    BY <1>1 DEF P!Begins, ClientInv, P!ItemsNamed, P!Named
  <2> QED BY <2>1, <2>2 DEF ClientInv
<1>2. ASSUME [P!Next]_(P!vars) PROVE ClientInv'
  <2>1. P!IInv'
    BY <1>2, P!IInvNext, PagesConfig DEF ClientInv
  <2>2. P!SkipInv'
    BY <1>2, P!SkipInvNext, PagesConfig DEF ClientInv
  <2>3. P!ItemsNamed'
    BY <1>2, P!ItemsNamedNext, PagesConfig DEF ClientInv
  <2> QED BY <2>1, <2>2, <2>3 DEF ClientInv
<1>3. P!ClientStep \/ P!Publish \/ P!Drop => P!Next
  BY DEF P!Next
<1>4. UNCHANGED clientVars => UNCHANGED P!vars
  BY DEF clientVars, P!vars
<1> QED BY <1>1, <1>2, <1>3, <1>4

\* Every item the client handed out has a product.
LEMMA ItemsKnown ==
  ASSUME ClientInv
  PROVE  /\ settings.read = "pages" /\ yielded \in Seq(Nat)
         /\ Len(yielded) \in Nat /\ rounds \in Nat
         /\ \A k \in 1..Len(yielded) : yielded[k] \in Items
         /\ P!Originals \subseteq Items
<1>1. /\ settings \in Configurations /\ yielded \in Seq(Nat) /\ rounds \in Nat
      /\ \A k \in 1..Len(yielded) : yielded[k] \in P!Named
  BY DEF ClientInv, P!IInv, P!DataTyped, P!Counted, P!ItemsNamed
<1>2. /\ settings.read = "pages" /\ 0 \in Items
      /\ 1..(settings.size + settings.growth) \subseteq Items
  BY <1>1, ImportAssumption
<1>3. settings.size \in Nat /\ settings.growth \in Nat
  BY <1>1, P!SettingsType, PagesConfig
<1>4. P!Named \subseteq Items
  BY <1>2 DEF P!Named
<1>5. P!Originals \subseteq Items
  BY <1>2, <1>3 DEF P!Originals
<1> QED BY <1>1, <1>2, <1>4, <1>5

-----------------------------------------------------------------------------
(* Runs that take no part in a step.                                       *)

\* What RunInv says of a run holds on, if the run stands still and, where it
\* imports, so do its client and its table.
LEMMA RunKept ==
  ASSUME SyncInv, NEW s \in Runs, RunInv(s),
         pc'[s] = pc[s], exec'[s] = exec[s], left'[s] = left[s],
         outcome'[s] = outcome[s], pages'[s] = pages[s],
         UNCHANGED settings, Lacking' \subseteq Lacking,
         Importing(s) => UNCHANGED <<clientPc, yielded, rounds, tableVars>>
  PROVE  RunInv(s)'
<1>1. Inside(s)' = Inside(s) /\ Importing(s)' = Importing(s)
  BY DEF Inside, Importing
<1>2. Fresh(s)'
  BY DEF RunInv, Fresh
<1>3. Reading(s)' /\ Tallied(s)'
  BY <1>1 DEF RunInv, Reading, Tallied, Turned, tableVars, Importing
<1>4. Missed(s)'
  BY <1>1 DEF RunInv, Missed, Handled, Lacking, tableVars, Importing
<1>5. Whole(s)'
  <2>1. P!PagesAgree' = P!PagesAgree /\ P!Originals' = P!Originals
    BY DEF P!PagesAgree, P!Capped, P!Originals
  <2>2. ASSUME Cardinality(P!Originals \cap Lacking) <= exec[s].failed
        PROVE  Cardinality(P!Originals' \cap Lacking') <= exec[s].failed
    <3> DEFINE now == Lacking'
    <3>1. now \subseteq Lacking
      OBVIOUS
    <3>2. exec[s].failed \in Nat
      BY RunKnows
    <3> HIDE DEF now
    <3>3. /\ Cardinality(P!Originals \cap now)
               <= Cardinality(P!Originals \cap Lacking)
          /\ Cardinality(P!Originals \cap Lacking) \in Nat
      BY <3>1, FewerLack, LackingFinite
    <3>4. P!Originals \cap now \subseteq P!Originals \cap Lacking
      BY <3>1
    <3>5. Cardinality(P!Originals \cap now) \in Nat
      BY <3>4, LackingFinite, FS_Subset, FS_CardinalityType
    <3>6. Cardinality(P!Originals \cap now) <= exec[s].failed
      BY <2>2, <3>2, <3>3, <3>5
    <3> QED BY <2>1, <3>6 DEF now
  <2> QED BY <2>1, <2>2 DEF RunInv, Whole
<1> QED BY <1>2, <1>3, <1>4, <1>5 DEF RunInv

\* A step of one run keeps the others, if none of them imports or nothing of
\* the client and the table changes.
LEMMA OthersKept ==
  ASSUME JointInv, NEW r \in Runs, StepBy(r),
         UNCHANGED settings, Lacking' \subseteq Lacking,
         \/ UNCHANGED <<clientVars, tableVars>>
         \/ S!Working(r)
         \/ S!Acquire(r)
  PROVE  \A s \in Runs \ {r} : RunInv(s)'
<1> SUFFICES ASSUME NEW s \in Runs \ {r} PROVE RunInv(s)'
  OBVIOUS
<1>1. SyncInv /\ RunInv(s)
  BY DEF JointInv
<1>2. S!Apart(r, s)
  BY <1>1, SyncKept
<1>3. Importing(s) => UNCHANGED <<clientVars, tableVars>>
  BY <1>1, WorksAlone, SlotIsFree, ImportingWorks
<1>4. Importing(s) => UNCHANGED <<clientPc, yielded, rounds, tableVars>>
  BY <1>3 DEF clientVars
<1> QED BY <1>1, <1>2, <1>4, RunKept DEF S!Apart

-----------------------------------------------------------------------------
(* The steps of a run, and its own invariant.                              *)

\* A run that is not reading, not closing and not completed has nothing to say.
LEMMA Silent ==
  ASSUME NEW r, pc'[r] \in {"saveFailed", "done"}, outcome'[r] # "completed"
  PROVE  RunInv(r)'
BY DEF RunInv, Fresh, Reading, Tallied, Missed, Whole, Inside, Importing

\* The steps that concern the executions alone.
LEMMA AloneRun ==
  ASSUME JointInv, NEW r \in Runs, UNCHANGED <<clientVars, tableVars>>,
         \/ S!Start(r) \/ S!AcquireRefused(r) \/ S!AcquireRaises(r)
         \/ S!SavePage(r) \/ S!SaveFailed(r) \/ S!SaveFinal(r)
         \/ S!ClosingSaveRaises(r)
  PROVE  RunInv(r)'
<1>0. /\ SyncInv /\ RunInv(r) /\ S!TypeOK
      /\ outcome[r] # "none" => pc[r] = "done"
  BY RunKnows DEF JointInv, SyncInv, S!TypeInv
<1> USE <1>0 DEF S!TypeOK, S!Goto, S!Return
<1>1. ASSUME NEW previous \in Runs \cup {None}, pc[r] = "idle",
             exec' = [exec EXCEPT ![r] = S!NewExecution(previous)],
             pc'[r] = "acquire", UNCHANGED <<outcome, pages>>
      PROVE  RunInv(r)'
  <2>1. exec'[r] = S!NewExecution(previous)
    BY <1>1
  <2>2. \A c \in Kinds : exec'[r].changed[c] = 0
    BY <2>1 DEF S!NewExecution, S!Changes, Kinds
  <2>3. pages'[r] = 0 /\ outcome'[r] # "completed"
    BY <1>1 DEF RunInv, Fresh
  <2> QED BY <1>1, <2>2, <2>3
          DEF RunInv, Fresh, Reading, Tallied, Missed, Whole, Inside,
              Importing, Kinds
<1>2. CASE S!Start(r)
  <2>1. CASE S!StartFresh(r)
    BY <1>1, <2>1 DEF S!StartFresh
  <2>2. ASSUME NEW previous \in Runs, S!StartReprocess(r, previous)
        PROVE  RunInv(r)'
    BY <1>1, <2>2 DEF S!StartReprocess
  <2>3. CASE S!LookupRaises(r) \/ \E previous \in Runs :
               S!RejectUnknown(r, previous)
    BY <2>3, Silent DEF S!LookupRaises, S!RejectUnknown
  <2> QED BY <1>2, <2>1, <2>2, <2>3 DEF S!Start
<1>3. CASE S!AcquireRefused(r) \/ S!AcquireRaises(r)
  BY <1>3, Silent DEF S!AcquireRefused, S!AcquireRaises
<1>4. CASE S!SavePage(r)
  <2>1. /\ pc[r] = "save" /\ pc'[r] = "fetch"
        /\ UNCHANGED <<exec, left, pages, outcome>>
    BY <1>4 DEF S!SavePage
  <2>2. Reading(r)'
    BY <2>1 DEF RunInv, Reading, Inside, clientVars
  <2>3. Tallied(r)'
    BY <2>1 DEF RunInv, Tallied, Importing, Inside, Turned, tableVars
  <2>4. Missed(r)'
    BY <2>1 DEF RunInv, Missed, Inside, Handled, Lacking, clientVars, tableVars
  <2> QED BY <2>1, <2>2, <2>3, <2>4 DEF RunInv, Fresh, Whole
<1>5. CASE S!SaveFailed(r) \/ S!ClosingSaveRaises(r)
  BY <1>5, Silent DEF S!SaveFailed, S!ClosingSaveRaises
<1>6. CASE S!SaveFinal(r)
  <2>1. /\ pc[r] = "saveFinal" /\ pc'[r] = "done"
        /\ UNCHANGED <<exec, settings, products>>
    BY <1>6 DEF S!SaveFinal, clientVars, tableVars
  <2>2. Whole(r)'
    BY <2>1 DEF RunInv, Whole, P!PagesAgree, P!Capped, P!Originals, Lacking
  <2> QED BY <2>1, <2>2
          DEF RunInv, Fresh, Reading, Tallied, Missed, Inside, Importing
<1> QED BY <1>2, <1>3, <1>4, <1>5, <1>6

\* A run that acquires the slot has received nothing, and changed nothing.
LEMMA AcquireRun ==
  ASSUME JointInv, NEW r \in Runs, S!Acquire(r), P!Begins,
         UNCHANGED products, before' = products
  PROVE  RunInv(r)' /\ TableInv' /\ Lacking' = Lacking
<1>1. /\ pc[r] = "acquire" /\ pc'[r] = "fetch"
      /\ UNCHANGED <<exec, left, pages, outcome>>
      /\ clientPc' = "ask" /\ rounds' = 0 /\ yielded' = << >>
  BY DEF S!Acquire, S!Goto, P!Begins, JointInv, SyncInv, S!TypeInv, S!TypeOK
<1>2. /\ exec[r].received = 0 /\ exec[r].failed = 0 /\ outcome[r] = "none"
      /\ left[r] = 0 /\ pages[r] = 0
      /\ exec[r].changed["created"] = 0 /\ exec[r].changed["updated"] = 0
  <2>1. SyncInv /\ Fresh(r)
    BY DEF JointInv, RunInv
  <2>2. /\ exec[r].received = exec[r].processed + exec[r].failed + left[r]
        /\ exec[r].processed = 0 /\ exec[r].failed = 0 /\ left[r] = 0
        /\ outcome[r] = "none"
    BY <1>1, <2>1, RunKnows
  <2> QED BY <1>1, <2>1, <2>2 DEF Fresh
<1>3. ASSUME NEW version \in {"absent", "stale"} PROVE Turned(version)' = 0
  <2>1. Turned(version)' =
          Cardinality({i \in Items : products[i] = version
                                     /\ products[i] = "current"})
    BY DEF Turned
  <2>2. {i \in Items : products[i] = version /\ products[i] = "current"} = {}
    OBVIOUS
  <2> QED BY <2>1, <2>2, FS_EmptySet
<1>4. Reading(r)'
  BY <1>1, <1>2 DEF Reading, Inside
<1>5. Tallied(r)'
  BY <1>1, <1>2, <1>3 DEF Tallied
<1>6. Missed(r)'
  <2>1. Handled(r)' = {}
    BY <1>1, <1>2 DEF Handled
  <2> QED BY <1>1, <1>2, <2>1, FS_EmptySet DEF Missed
<1>7. TableInv'
  BY DEF JointInv, TableInv
<1> QED BY <1>1, <1>2, <1>4, <1>5, <1>6, <1>7
        DEF RunInv, Fresh, Whole, Lacking

\* The iterator yields a page, and the run receives all of it.
LEMMA PageRun ==
  ASSUME JointInv, NEW r \in Runs, NEW env \in P!Envelopes, P!PageStep(env),
         S!ReceivePage(r, Len(yielded') - Len(yielded)),
         rounds' = rounds, UNCHANGED tableVars
  PROVE  RunInv(r)'
<1> DEFINE n == Len(env.items)
<1>0. P!DataTyped
  BY DEF JointInv, ClientInv, P!IInv
<1>1. /\ n \in Nat /\ Len(yielded) \in Nat
      /\ Len(yielded') = Len(yielded) + n
      /\ \A i \in 1..Len(yielded) : yielded'[i] = yielded[i]
      /\ clientPc = "get" /\ clientPc' = "yield"
  BY <1>0, P!PageGrows, PagesConfig, ItemsKnown
     DEF P!PageStep, JointInv
<1>2. Len(yielded') - Len(yielded) = n
  BY <1>1
<1> HIDE DEF n
<1>3. S!ReceivePage(r, n)
  BY <1>2
<1>4. /\ pc[r] = "fetch" /\ pc'[r] \in {"save", "items"}
      /\ pages'[r] = pages[r] + 1 /\ left'[r] = n
      /\ exec'[r] = S!RegisterReceived(exec[r], n)
      /\ UNCHANGED outcome
  BY <1>3 DEF S!ReceivePage, S!Goto, JointInv, SyncInv, S!TypeInv, S!TypeOK
<1>5. /\ exec[r] \in S!Execution /\ left[r] = 0 /\ outcome[r] = "none"
      /\ Inside(r) /\ SyncInv /\ RunInv(r)
  BY <1>4, RunKnows DEF JointInv, Inside
<1>6. /\ exec'[r].received = exec[r].received + n
      /\ exec'[r].failed = exec[r].failed /\ exec'[r].changed = exec[r].changed
  BY <1>1, <1>4, <1>5, CountsOf
<1>7. Reading(r)'
  BY <1>1, <1>4, <1>5, <1>6 DEF Reading, RunInv, Inside
<1>8. Tallied(r)'
  BY <1>5, <1>6 DEF Tallied, RunInv, Importing, Turned, tableVars
<1>9. Missed(r)'
  <2>1. Handled(r)' = Handled(r)
    <3>0. /\ Len(yielded') = Len(yielded) + n /\ Len(yielded) \in Nat
          /\ n \in Nat /\ left'[r] = n /\ left[r] = 0
      BY <1>1, <1>4, <1>5
    <3>1. /\ Len(yielded') - left'[r] = Len(yielded)
          /\ Len(yielded) - left[r] = Len(yielded)
      BY <3>0
    <3> QED BY <1>1, <3>1 DEF Handled
  <2>2. Lacking' = Lacking
    BY DEF Lacking, tableVars
  <2> QED BY <1>5, <1>6, <2>1, <2>2 DEF Missed, RunInv
<1> QED BY <1>4, <1>5, <1>7, <1>8, <1>9 DEF RunInv, Fresh, Whole

\* The iterator ends well, and so does the loop: all that an honest server
\* held at the beginning was handed out, and so was handled.
LEMMA EndRun ==
  ASSUME JointInv, ClientInv', NEW r \in Runs, S!SourceExhausted(r),
         result' = "whole", UNCHANGED <<yielded, settings, tableVars>>
  PROVE  RunInv(r)'
<1>1. /\ pc[r] = "fetch" /\ pc'[r] = "saveFinal"
      /\ exec'[r] = S!Complete(exec[r]) /\ UNCHANGED <<left, outcome>>
  BY DEF S!SourceExhausted, S!Goto, JointInv, SyncInv, S!TypeInv, S!TypeOK
<1>2. /\ exec[r] \in S!Execution /\ exec[r].failed \in Nat /\ left[r] = 0
      /\ Inside(r) /\ RunInv(r)
  BY <1>1, RunKnows DEF JointInv, Inside
<1>3. exec'[r].failed = exec[r].failed /\ exec'[r].changed = exec[r].changed
  BY <1>1, <1>2, CountsOf
<1>4. Tallied(r)'
  BY <1>2, <1>3 DEF Tallied, RunInv, Importing, Turned, tableVars
<1>5. Whole(r)'
  <2> SUFFICES ASSUME settings.server = "honest", P!PagesAgree
               PROVE  Cardinality(P!Originals \cap Lacking) <= exec[r].failed
    BY <1>3 DEF Whole, P!PagesAgree, P!Capped, P!Originals, Lacking, tableVars
  <2>1. P!SkipInv'
    BY DEF ClientInv
  <2>2. \A x \in P!Originals : \E k \in 1..Len(yielded) : yielded[k] = x
    BY <2>1 DEF P!SkipInv, P!Finished, P!PagesAgree, P!Capped, P!Originals,
                P!IsHanded
  <2>3. Len(yielded) - left[r] = Len(yielded)
    BY <1>2, ItemsKnown DEF JointInv
  <2>4. P!Originals \subseteq Handled(r)
    BY <2>2, <2>3 DEF Handled
  <2>5. /\ Cardinality(P!Originals \cap Lacking)
             <= Cardinality(Handled(r) \cap Lacking)
        /\ Cardinality(P!Originals \cap Lacking) \in Nat
        /\ Cardinality(Handled(r) \cap Lacking) \in Nat
    BY <2>4, FewerLack, LackingFinite
  <2> QED BY <1>2, <2>5 DEF RunInv, Missed
<1> QED BY <1>1, <1>4, <1>5 DEF RunInv, Fresh, Reading, Missed, Inside

\* The item a run is at was handed out, and has a product.
LEMMA CurrentKnown ==
  ASSUME JointInv, NEW r \in Runs, pc[r] = "items"
  PROVE  /\ left[r] \in 1..Len(yielded) /\ Len(yielded) \in Nat
         /\ CurrentItem(r) \in Items
<1>1. /\ left[r] \in Nat /\ left[r] > 0 /\ exec[r].received = Len(yielded)
      /\ exec[r].processed \in Nat /\ exec[r].failed \in Nat
      /\ exec[r].received = exec[r].processed + exec[r].failed + left[r]
  BY RunKnows DEF JointInv, RunInv, Reading, Inside
<1>2. /\ Len(yielded) \in Nat
      /\ \A k \in 1..Len(yielded) : yielded[k] \in Items
  BY ItemsKnown DEF JointInv
<1>3. left[r] \in 1..Len(yielded)
  BY <1>1, <1>2
<1>4. Len(yielded) - left[r] + 1 \in 1..Len(yielded)
  BY <1>2, <1>3
<1> QED BY <1>2, <1>3, <1>4 DEF CurrentItem

\* After an item, one more is handled, and the run reads on.
LEMMA ItemHandled ==
  ASSUME JointInv, NEW r \in Runs, pc[r] = "items", UNCHANGED clientVars,
         S!NextItem(r), UNCHANGED pages, exec'[r].received = exec[r].received
  PROVE  /\ Reading(r)' /\ Inside(r)' /\ outcome'[r] = "none"
         /\ Handled(r)' \subseteq Handled(r) \cup {CurrentItem(r)}
<1>1. /\ left[r] \in 1..Len(yielded) /\ Len(yielded) \in Nat
      /\ yielded' = yielded /\ clientPc' = clientPc /\ rounds' = rounds
  BY CurrentKnown DEF clientVars
<1>2. /\ pc'[r] \in {"save", "items"} /\ left'[r] = left[r] - 1
      /\ outcome' = outcome
  BY DEF S!NextItem, S!Goto, JointInv, SyncInv, S!TypeInv, S!TypeOK
<1>3. outcome[r] = "none"
  BY RunKnows DEF JointInv
<1>4. Reading(r)'
  BY <1>1, <1>2 DEF JointInv, RunInv, Reading, Inside
<1>5. ASSUME NEW k \in 1..(Len(yielded) - left'[r])
      PROVE  yielded[k] \in Handled(r) \cup {CurrentItem(r)}
  <2>1. \/ k \in 1..(Len(yielded) - left[r])
        \/ k = Len(yielded) - left[r] + 1
    BY <1>1, <1>2
  <2> QED BY <2>1 DEF Handled, CurrentItem
<1>6. Handled(r)' \subseteq Handled(r) \cup {CurrentItem(r)}
  BY <1>1, <1>5 DEF Handled
<1> QED BY <1>2, <1>3, <1>4, <1>6 DEF Inside

LEMMA ProcessRun ==
  ASSUME JointInv, NEW r \in Runs,
         S!ItemProcessed(r, ChangeOf(CurrentItem(r))),
         Upserted(CurrentItem(r)), UNCHANGED <<clientVars, before>>
  PROVE  RunInv(r)'
<1> DEFINE i == CurrentItem(r)
           c == ChangeOf(CurrentItem(r))
<1>0. /\ pc[r] = "items" /\ S!NextItem(r) /\ UNCHANGED pages
      /\ exec'[r] = S!RegisterProcessed(exec[r], c)
  BY DEF S!ItemProcessed, JointInv, SyncInv, S!TypeInv, S!TypeOK
<1>1. i \in Items /\ TableInv /\ RunInv(r) /\ Inside(r) /\ SyncInv
  BY <1>0, CurrentKnown DEF JointInv, Inside
<1> HIDE DEF i
<1>2. /\ c \in Kinds /\ products[i] \in Versions
      /\ c = "created" <=> products[i] = "absent"
      /\ c = "updated" <=> products[i] = "stale"
  BY <1>1 DEF i, ChangeOf, Kinds, TableInv, Versions
<1>3. /\ exec[r] \in S!Execution /\ exec[r].changed \in [Kinds -> Nat]
      /\ exec[r].failed \in Nat
  BY <1>1, RunKnows
<1> HIDE DEF c
<1>4. /\ exec'[r].received = exec[r].received
      /\ exec'[r].failed = exec[r].failed
      /\ exec'[r].changed = [exec[r].changed EXCEPT ![c] = exec[r].changed[c] + 1]
  BY <1>0, <1>2, <1>3, CountsOf
<1>5. /\ Reading(r)' /\ Inside(r)' /\ outcome'[r] = "none"
      /\ Handled(r)' \subseteq Handled(r) \cup {i}
  BY <1>0, <1>4, ItemHandled DEF i
<1>6. Tallied(r)'
  <2> DEFINE old == exec[r].changed
             new == exec'[r].changed
             a == Turned("absent")
             s == Turned("stale")
  <2>1. /\ a' = IF products[i] = "absent" THEN a + 1 ELSE a
        /\ s' = IF products[i] = "stale" THEN s + 1 ELSE s
        /\ a \in Nat /\ s \in Nat
    BY <1>1, UpsertTurns, TurnedIs DEF i
  <2>2. /\ new["created"] =
             IF c = "created" THEN old["created"] + 1 ELSE old["created"]
        /\ new["updated"] =
             IF c = "updated" THEN old["updated"] + 1 ELSE old["updated"]
        /\ old["created"] \in Nat /\ old["updated"] \in Nat
    BY <1>2, <1>3, <1>4 DEF Kinds
  <2>3. /\ old["created"] <= a /\ old["updated"] <= s
        /\ a + s <= old["created"] + old["updated"] + exec[r].failed
    BY <1>1 DEF RunInv, Tallied, Importing
  <2> HIDE DEF old, new, a, s
  <2>4. /\ new["created"] <= a' /\ new["updated"] <= s'
        /\ a' + s' <= new["created"] + new["updated"] + exec'[r].failed
    BY <1>2, <1>3, <1>4, <2>1, <2>2, <2>3
  <2> QED BY <2>4 DEF Tallied, new, a, s
<1>7. Missed(r)'
  <2>1. Lacking' = Lacking \ {i}
    BY <1>1, UpsertLacks DEF i
  <2> DEFINE left1 == Handled(r)' \cap Lacking'
  <2>2. left1 \subseteq Handled(r) \cap Lacking
    BY <1>5, <2>1
  <2> HIDE DEF left1
  <2>3. /\ Cardinality(left1) <= Cardinality(Handled(r) \cap Lacking)
        /\ IsFiniteSet(left1)
    BY <2>2, LackingFinite, FS_Subset
  <2>4. /\ Cardinality(left1) \in Nat
        /\ Cardinality(Handled(r) \cap Lacking) \in Nat
        /\ Cardinality(Handled(r) \cap Lacking) <= exec[r].failed
    BY <1>1, <2>3, LackingFinite, FS_CardinalityType DEF RunInv, Missed
  <2>5. Cardinality(left1) <= exec'[r].failed
    BY <1>3, <1>4, <2>3, <2>4
  <2> QED BY <2>5 DEF Missed, left1
<1> QED BY <1>5, <1>6, <1>7 DEF RunInv, Fresh, Whole, Inside

\* A failed item is counted as one, and at most one row changes unreported.
LEMMA FailRun ==
  ASSUME JointInv, NEW r \in Runs, NEW fits \in BOOLEAN,
         S!ItemFailed(r, fits),
         UNCHANGED products \/ Upserted(CurrentItem(r)),
         UNCHANGED <<clientVars, before>>
  PROVE  RunInv(r)'
<1> DEFINE i == CurrentItem(r)
<1>0. /\ pc[r] = "items" /\ S!NextItem(r) /\ UNCHANGED pages
      /\ exec'[r] = S!RegisterItemFailure(exec[r], fits)
  BY DEF S!ItemFailed, JointInv, SyncInv, S!TypeInv, S!TypeOK
<1>1. i \in Items /\ TableInv /\ RunInv(r) /\ Inside(r) /\ SyncInv
  BY <1>0, CurrentKnown DEF JointInv, Inside
<1> HIDE DEF i
<1>2. /\ exec[r] \in S!Execution /\ exec[r].changed \in [Kinds -> Nat]
      /\ exec[r].failed \in Nat
  BY <1>1, RunKnows
<1>3. /\ exec'[r].received = exec[r].received
      /\ exec'[r].failed = exec[r].failed + 1
      /\ exec'[r].changed = exec[r].changed
  BY <1>0, <1>2, CountsOf
<1>4. /\ Reading(r)' /\ Inside(r)' /\ outcome'[r] = "none"
      /\ Handled(r)' \subseteq Handled(r) \cup {i}
  BY <1>0, <1>3, ItemHandled DEF i
<1>5. Tallied(r)'
  <2> DEFINE old == exec[r].changed
             new == exec'[r].changed
             a == Turned("absent")
             s == Turned("stale")
  <2>1. a \in Nat /\ s \in Nat
    BY TurnedIs
  <2>2. \/ a' = a /\ s' = s
        \/ a' = a + 1 /\ s' = s
        \/ a' = a /\ s' = s + 1
    <3>1. CASE UNCHANGED products
      BY <3>1 DEF Turned
    <3>2. CASE Upserted(i)
      <4>1. /\ a' = IF products[i] = "absent" THEN a + 1 ELSE a
            /\ s' = IF products[i] = "stale" THEN s + 1 ELSE s
        BY <1>1, <3>2, UpsertTurns
      <4> QED BY <4>1
    <3> QED BY <3>1, <3>2 DEF i
  <2>3. /\ old["created"] \in Nat /\ old["updated"] \in Nat /\ new = old
    BY <1>2, <1>3 DEF Kinds
  <2>4. /\ old["created"] <= a /\ old["updated"] <= s
        /\ a + s <= old["created"] + old["updated"] + exec[r].failed
    BY <1>1 DEF RunInv, Tallied, Importing
  <2> HIDE DEF old, new, a, s
  <2>5. /\ new["created"] <= a' /\ new["updated"] <= s'
        /\ a' + s' <= new["created"] + new["updated"] + exec'[r].failed
    BY <1>2, <1>3, <2>1, <2>2, <2>3, <2>4
  <2> QED BY <2>5 DEF Tallied, new, a, s
<1>6. Missed(r)'
  <2> DEFINE then == Handled(r) \cap Lacking
             now == Handled(r)' \cap Lacking'
  <2>1. Lacking' \subseteq Lacking
    BY <1>1, TableKept DEF i
  <2>2. now \subseteq then \cup {i}
    BY <1>4, <2>1
  <2>3. /\ IsFiniteSet(then) /\ Cardinality(then) \in Nat
        /\ Cardinality(then) <= exec[r].failed
    BY <1>1, LackingFinite DEF RunInv, Missed
  <2> HIDE DEF then, now
  <2>4. /\ IsFiniteSet(then \cup {i})
        /\ Cardinality(then \cup {i}) \in {Cardinality(then), Cardinality(then) + 1}
    BY <2>3, FS_AddElement
  <2>5. /\ IsFiniteSet(now) /\ Cardinality(now) \in Nat
        /\ Cardinality(now) <= Cardinality(then \cup {i})
    BY <2>2, <2>4, FS_Subset, FS_CardinalityType
  <2>6. Cardinality(now) <= exec'[r].failed
    BY <1>2, <1>3, <2>3, <2>4, <2>5
  <2> QED BY <2>6 DEF Missed, now
<1> QED BY <1>4, <1>5, <1>6 DEF RunInv, Fresh, Whole, Inside

-----------------------------------------------------------------------------
(* The steps of the import.                                                *)

\* The step of one run, from what it does to the run and to the components.
LEMMA JointStep ==
  ASSUME JointInv, NEW r \in Runs, StepBy(r), ClientInv', TableInv',
         RunInv(r)', UNCHANGED settings, Lacking' \subseteq Lacking,
         \/ UNCHANGED <<clientVars, tableVars>>
         \/ S!Working(r)
         \/ S!Acquire(r)
  PROVE  JointInv'
<1>1. SyncInv'
  BY SyncKept DEF JointInv
<1>2. \A s \in Runs \ {r} : RunInv(s)'
  BY OthersKept
<1> QED BY <1>1, <1>2 DEF JointInv

LEMMA AloneKept ==
  ASSUME JointInv, NEW r \in Runs, Alone(r)
  PROVE  JointInv'
<1>1. /\ \/ S!Start(r) \/ S!AcquireRefused(r) \/ S!AcquireRaises(r)
         \/ S!SavePage(r) \/ S!SaveFailed(r) \/ S!SaveFinal(r)
         \/ S!ClosingSaveRaises(r)
      /\ UNCHANGED <<clientVars, tableVars>>
  BY SameSyncSteps DEF Alone
<1>2. StepBy(r)
  BY <1>1 DEF StepBy, S!Step
<1>3. RunInv(r)'
  BY <1>1, AloneRun
<1>4. ClientInv' /\ UNCHANGED settings
  BY <1>1, ClientKept DEF JointInv, clientVars
<1>5. TableInv' /\ Lacking' \subseteq Lacking
  BY <1>1, TableKept DEF JointInv, tableVars
<1> QED BY <1>1, <1>2, <1>3, <1>4, <1>5, JointStep

LEMMA AcquireKept ==
  ASSUME JointInv, NEW r \in Runs, Acquire(r)
  PROVE  JointInv'
<1>1. S!Acquire(r) /\ P!Begins /\ before' = products /\ UNCHANGED products
  BY SameSyncSteps, SameClient DEF Acquire
<1>2. StepBy(r)
  BY <1>1 DEF StepBy, S!Step
<1>3. RunInv(r)' /\ TableInv' /\ Lacking' = Lacking
  BY <1>1, AcquireRun
<1>4. ClientInv' /\ UNCHANGED settings
  BY <1>1, ClientKept DEF JointInv, P!Begins
<1> QED BY <1>1, <1>2, <1>3, <1>4, JointStep

LEMMA ItemKept ==
  ASSUME JointInv, NEW r \in Runs, ProcessItem(r) \/ FailItem(r)
  PROVE  JointInv'
<1>1. /\ pc[r] = "items" /\ UNCHANGED clientVars /\ before' = before
      /\ S!ItemProcessed(r, ChangeOf(CurrentItem(r)))
           \/ \E fits \in BOOLEAN : S!ItemFailed(r, fits)
      /\ UNCHANGED products \/ Upserted(CurrentItem(r))
  BY SameSyncSteps
     DEF ProcessItem, FailItem, MaybeUpserted, S!ItemFailed
<1>2. CurrentItem(r) \in Items /\ TableInv
  BY <1>1, CurrentKnown DEF JointInv
<1>3. ChangeOf(CurrentItem(r)) \in S!Changes
  BY <1>2 DEF ChangeOf, TableInv, Versions, S!Changes
<1>4. StepBy(r) /\ S!Working(r)
  BY <1>1, <1>3 DEF StepBy, S!Step, S!Working, S!Awaits
<1>5. RunInv(r)'
  <2>1. CASE ProcessItem(r)
    BY <1>1, <2>1, SameSyncSteps, ProcessRun DEF ProcessItem
  <2>2. CASE FailItem(r)
    <3>1. PICK fits \in BOOLEAN : S!ItemFailed(r, fits)
      BY <2>2, SameSyncSteps DEF FailItem
    <3> QED BY <1>1, <3>1, FailRun
  <2> QED BY <2>1, <2>2
<1>6. ClientInv' /\ UNCHANGED settings
  BY <1>1, ClientKept DEF JointInv, clientVars
<1>7. TableInv' /\ Lacking' \subseteq Lacking
  BY <1>1, <1>2, TableKept
<1> QED BY <1>4, <1>5, <1>6, <1>7, JointStep

\* Leaving the loop by an error, or dying in it.
LEMMA BrokenKept ==
  ASSUME JointInv, NEW r \in Runs, LeaveLoop(r) \/ Crash(r)
  PROVE  JointInv'
<1>0. S!TypeOK /\ SyncInv /\ TableInv /\ ClientInv
      /\ (outcome[r] # "none" => pc[r] = "done")
  BY RunKnows DEF JointInv, SyncInv, S!TypeInv
<1>1. CASE LeaveLoop(r)
  <2>1. S!SavePageRaises(r) /\ P!Drop /\ UNCHANGED tableVars
    BY <1>1, SameSyncSteps, SameClient DEF LeaveLoop
  <2>2. /\ pc[r] = "save" /\ pc'[r] = "saveFailed" /\ outcome'[r] = outcome[r]
    BY <1>0, <2>1 DEF S!SavePageRaises, S!Goto, S!TypeOK
  <2>3. StepBy(r) /\ S!Working(r)
    BY <2>1, <2>2 DEF StepBy, S!Step, S!Working, S!Awaits
  <2>4. RunInv(r)'
    BY <1>0, <2>2, Silent
  <2>5. ClientInv' /\ UNCHANGED settings
    BY <1>0, <2>1, ClientKept DEF P!Drop
  <2>6. TableInv' /\ Lacking' \subseteq Lacking
    BY <1>0, <2>1, TableKept DEF tableVars
  <2> QED BY <2>3, <2>4, <2>5, <2>6, JointStep
<1>2. CASE Crash(r)
  <2>1. S!Crash(r) /\ MaybeUpserted(r) /\ UNCHANGED <<clientVars, before>>
    BY <1>2, SameSyncSteps DEF Crash
  <2>2. /\ pc'[r] = "done" /\ outcome'[r] = "crashed"
        /\ UNCHANGED upserted \/ pc[r] = "items"
    BY <1>0, <2>1 DEF S!Crash, S!Return, S!TypeOK
  <2>3. StepBy(r)
    BY <2>1 DEF StepBy
  <2>4. RunInv(r)'
    BY <2>2, Silent
  <2>5. ClientInv' /\ UNCHANGED settings
    BY <1>0, <2>1, ClientKept DEF clientVars
  <2>6. CASE UNCHANGED products
    <3>1. TableInv' /\ Lacking' \subseteq Lacking
      BY <1>0, <2>1, <2>6, TableKept
    <3> QED BY <2>1, <2>3, <2>4, <2>5, <2>6, <3>1, JointStep DEF tableVars
  <2>7. CASE pc[r] = "items" /\ Upserted(CurrentItem(r))
    <3>1. CurrentItem(r) \in Items
      BY <2>7, CurrentKnown
    <3>2. TableInv' /\ Lacking' \subseteq Lacking
      BY <1>0, <2>1, <2>7, <3>1, TableKept
    <3>3. S!Working(r)
      BY <2>7 DEF S!Working, S!Awaits
    <3> QED BY <2>3, <2>4, <2>5, <3>2, <3>3, JointStep
  <2> QED BY <2>1, <2>2, <2>6, <2>7 DEF MaybeUpserted
<1> QED BY <1>1, <1>2

LEMMA FetchKept ==
  ASSUME JointInv, NEW r \in Runs, Fetch(r)
  PROVE  JointInv'
<1>0. /\ SyncInv /\ ClientInv /\ TableInv /\ RunInv(r)
      /\ outcome[r] # "none" => pc[r] = "done"
  BY RunKnows DEF JointInv
<1>1. pc[r] = "fetch" /\ P!ClientStep /\ UNCHANGED tableVars
  BY SameClientStep DEF Fetch
<1>2. /\ clientPc \in {"ask", "get", "yield"} /\ UNCHANGED settings
      /\ clientPc' \in {"ask", "get", "yield", "end"}
      /\ clientPc' = "get" =>
           rounds' = IF clientPc = "ask" THEN rounds + 1 ELSE rounds
      /\ clientPc' = "ask" => clientPc = "yield" /\ rounds' = rounds
      /\ clientPc' = "yield" => clientPc = "get" /\ rounds' = rounds
      /\ clientPc = "yield" => clientPc' # "get"
      /\ clientPc' # "yield" => yielded' = yielded
  BY <1>0, <1>1, ItemsKnown, P!StepSeen, PagesConfig DEF ClientInv
<1>3. ClientInv'
  BY <1>0, <1>1, ClientKept
<1>4. TableInv' /\ Lacking' \subseteq Lacking
  BY <1>0, <1>1, TableKept DEF tableVars
<1>5. S!Working(r) /\ Inside(r)
  BY <1>1 DEF S!Working, S!Awaits, Inside
<1>6. CASE clientPc' = "yield"
  <2>1. PICK env \in P!Envelopes : P!PageStep(env)
    BY <1>1, <1>6, P!StepKinds, PagesConfig
       DEF P!QuietStep, P!Resume, P!End
  <2>2. S!ReceivePage(r, Len(yielded') - Len(yielded))
    BY <1>6, SameSyncSteps DEF Fetch
  <2>3. Len(yielded') - Len(yielded) \in Nat
    <3>1. /\ Len(env.items) \in Nat /\ Len(yielded) \in Nat
          /\ Len(yielded') = Len(yielded) + Len(env.items)
      BY <1>0, <2>1, P!PageGrows, PagesConfig, ItemsKnown
         DEF ClientInv, P!IInv
    <3> QED BY <3>1
  <2>4. StepBy(r)
    BY <2>2, <2>3 DEF StepBy, S!Step
  <2>5. RunInv(r)'
    BY <1>1, <1>2, <1>6, <2>1, <2>2, PageRun
  <2> QED BY <1>2, <1>3, <1>4, <1>5, <2>4, <2>5, JointStep
<1>7. CASE clientPc' \in {"ask", "get"}
  <2>1. UNCHANGED syncVars /\ yielded' = yielded
    BY <1>2, <1>7 DEF Fetch
  <2>2. SyncInv'
    BY <1>0, <2>1, SyncStays
  <2>3. Reading(r)'
    <3>1. rounds \in Nat /\ pages[r] \in Nat
      BY <1>0, ItemsKnown, RunKnows
    <3>2. rounds' = IF clientPc' = "get" THEN pages[r] + 1 ELSE pages[r]
      BY <1>0, <1>2, <1>5, <1>7, <3>1 DEF RunInv, Reading
    <3> QED BY <1>0, <1>1, <1>5, <1>7, <2>1, <3>2
            DEF RunInv, Reading, Inside, syncVars
  <2>4. Tallied(r)' /\ Missed(r)'
    BY <1>0, <1>1, <2>1 DEF RunInv, Tallied, Missed, Importing, Inside, Turned,
       Handled, Lacking, syncVars, tableVars
  <2>5. RunInv(r)'
    BY <1>0, <1>1, <2>1, <2>3, <2>4 DEF RunInv, Fresh, Whole, syncVars
  <2>6. ASSUME NEW s \in Runs \ {r} PROVE RunInv(s)'
    <3>1. ~Importing(s) /\ RunInv(s)
      BY <1>0, <1>5, WorksAlone, ImportingWorks DEF JointInv
    <3> QED BY <1>0, <1>2, <1>4, <2>1, <3>1, RunKept DEF syncVars
  <2> QED BY <1>3, <1>4, <2>2, <2>5, <2>6 DEF JointInv
<1>8. CASE clientPc' = "end"
  <2>1. IF result' = "whole" THEN S!SourceExhausted(r) ELSE S!SourceRaises(r)
    BY <1>8, SameSyncSteps DEF Fetch, Ended
  <2>2. StepBy(r)
    BY <2>1 DEF StepBy, S!Step
  <2>3. CASE result' = "whole"
    <3>1. RunInv(r)'
      BY <1>1, <1>2, <1>3, <1>8, <2>1, <2>3, EndRun
    <3> QED BY <1>2, <1>3, <1>4, <1>5, <2>2, <3>1, JointStep
  <2>4. CASE result' # "whole"
    <3>1. pc'[r] = "saveFailed" /\ outcome'[r] = outcome[r]
      BY <1>0, <2>1, <2>4
         DEF S!SourceRaises, S!Goto, SyncInv, S!TypeInv, S!TypeOK
    <3>2. RunInv(r)'
      BY <1>0, <1>1, <3>1, Silent
    <3> QED BY <1>2, <1>3, <1>4, <1>5, <2>2, <3>2, JointStep
  <2> QED BY <2>3, <2>4
<1> QED BY <1>2, <1>6, <1>7, <1>8

LEMMA JointInvInit == Init => JointInv
<1> SUFFICES ASSUME Init PROVE JointInv
  OBVIOUS
<1>1. S!Init /\ P!Init /\ products \in Tables /\ before = products
  BY SameSyncState, SameClient DEF Init
<1>2. SyncInv
  BY <1>1, S!TypeInvInit, S!SlotInvInit, S!LocalInvInit, SyncConfig DEF SyncInv
<1>3. ClientInv
  BY <1>1, P!IInvInit, P!SkipInvInit, P!ItemsNamedInit, PagesConfig
     DEF ClientInv
<1>4. TableInv
  BY <1>1, ImportAssumption DEF TableInv
<1>5. ASSUME NEW r \in Runs PROVE RunInv(r)
  <2>1. /\ pc[r] = "idle" /\ pages[r] = 0 /\ outcome[r] = "none"
        /\ exec[r] = S!NewExecution(None)
    BY <1>1 DEF S!Init
  <2>2. \A c \in Kinds : exec[r].changed[c] = 0
    BY <2>1 DEF S!NewExecution, S!Changes, Kinds
  <2> QED BY <2>1, <2>2 DEF RunInv, Fresh, Reading, Tallied, Missed, Whole,
                           Inside, Importing, Kinds
<1> QED BY <1>2, <1>3, <1>4, <1>5 DEF JointInv

LEMMA JointInvNext == JointInv /\ [Next]_vars => JointInv'
<1> SUFFICES ASSUME JointInv, [Next]_vars PROVE JointInv'
  OBVIOUS
<1>1. ASSUME UNCHANGED <<syncVars, tableVars>>,
             P!Publish \/ UNCHANGED clientVars
      PROVE  JointInv'
  <2>1. SyncInv' /\ ClientInv'
    BY <1>1, SyncStays, ClientKept DEF JointInv
  <2>2. TableInv' /\ Lacking' \subseteq Lacking
    BY <1>1, TableKept DEF JointInv, tableVars
  <2>3. UNCHANGED <<settings, clientPc, yielded, rounds>>
    BY <1>1 DEF P!Publish, clientVars
  <2>4. ASSUME NEW s \in Runs PROVE RunInv(s)'
    BY <1>1, <2>2, <2>3, RunKept DEF JointInv, syncVars
  <2> QED BY <2>1, <2>2, <2>4 DEF JointInv
<1>2. ASSUME NEW r \in Runs, Step(r) \/ Alone(r) \/ Crash(r) PROVE JointInv'
  BY <1>2, AloneKept, AcquireKept, ItemKept, BrokenKept, FetchKept DEF Step
<1>3. CASE Publish
  BY <1>1, <1>3, SameClient DEF Publish
<1>4. CASE UNCHANGED vars
  BY <1>1, <1>4 DEF vars
<1> QED BY <1>2, <1>3, <1>4 DEF Next, AllDone

LEMMA JointInvariant == Spec => []JointInv
BY JointInvInit, JointInvNext, PTL DEF Spec

-----------------------------------------------------------------------------
(* Theorems. *)

\* Every item the client hands out is received once by the run that reads it,
\* and then processed, failed or still to come, for any pages and any faults.
THEOREM ItemsAreCounted == Spec => []EveryItemCounted
<1>1. JointInv => EveryItemCounted
  <2> SUFFICES ASSUME JointInv, NEW r \in Runs, Inside(r)
               PROVE  /\ exec[r].received = Len(yielded)
                      /\ exec[r].processed + exec[r].failed + left[r]
                           = Len(yielded)
                      /\ pages[r] <= rounds /\ rounds <= pages[r] + 1
    BY DEF EveryItemCounted
  <2>1. Reading(r) /\ SyncInv /\ ClientInv
    BY DEF JointInv, RunInv
  <2>2. /\ pages[r] \in Nat
        /\ exec[r].received = exec[r].processed + exec[r].failed + left[r]
    BY <2>1, RunKnows
  <2> QED BY <2>1, <2>2 DEF Reading
<1> QED BY <1>1, JointInvariant, PTL

\* The changes an import counts are those it made to the table, but for items
\* that failed after their commit, for any source and any table.
THEOREM EvidenceIsTrue == Spec => []EvidenceMatchesTable
<1>1. JointInv => EvidenceMatchesTable
  BY DEF JointInv, RunInv, Tallied, Importing, EvidenceMatchesTable
<1> QED BY <1>1, JointInvariant, PTL

\* An import that answers "completed" has brought every item an honest server
\* held at its beginning to the table, but for those its row counts as failed,
\* however its catalog grew meanwhile and whatever runs before or after.
THEOREM CompletedImports == Spec => []CompletedIsWhole
<1>1. JointInv => CompletedIsWhole
  <2> SUFFICES ASSUME JointInv, NEW r \in Runs, outcome[r] = "completed",
                      settings.server = "honest", Client!PagesAgree
               PROVE  Cardinality({i \in 1..settings.size :
                                     products[i] # "current"})
                        <= row[r].failed
    BY DEF CompletedIsWhole
  <2>1. Cardinality(P!Originals \cap Lacking) <= exec[r].failed
    BY SameClient DEF JointInv, RunInv, Whole
  <2>2. P!Originals \cap Lacking
          = {i \in 1..settings.size : products[i] # "current"}
    BY ItemsKnown DEF JointInv, P!Originals, Lacking
  <2>3. row[r] = S!ToModel(exec[r])
    BY DEF JointInv, SyncInv, S!LocalInv, S!Local, S!Sound, S!Answer
  <2>4. S!ToModel(exec[r]).failed = exec[r].failed
    BY Zenon DEF S!ToModel
  <2>5. row[r].failed = exec[r].failed
    BY <2>3, <2>4
  <2> QED BY <2>1, <2>2, <2>5
<1> QED BY <1>1, JointInvariant, PTL
=============================================================================
