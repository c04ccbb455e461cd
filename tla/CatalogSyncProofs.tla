------------------------- MODULE CatalogSyncProofs -------------------------
(***************************************************************************)
(* Theorems about CatalogSync, for any number of runs, any page sizes, any *)
(* page limit and any set of faults.                                       *)
(***************************************************************************)
EXTENDS CatalogSync, TLAPS

\* The aggregate's operations stay inside the type of an execution, and its
\* row inside the type of a row.
LEMMA OperationTypes ==
  /\ \A p \in Runs \cup {None} : NewExecution(p) \in Execution
  /\ \A e \in Execution :
       /\ \A n \in Nat : RegisterReceived(e, n) \in Execution
       /\ \A c \in Changes : RegisterProcessed(e, c) \in Execution
       /\ \A f \in BOOLEAN : RegisterItemFailure(e, f) \in Execution
       /\ Complete(e) \in Execution
       /\ Fail(e) \in Execution
       /\ ToModel(e) \in Row
<1>1. ASSUME NEW p \in Runs \cup {None} PROVE NewExecution(p) \in Execution
  BY DEF NewExecution, Execution, Statuses
<1>2. ASSUME NEW e \in Execution, NEW n \in Nat
      PROVE  RegisterReceived(e, n) \in Execution
  BY <1>2 DEF RegisterReceived, Execution
<1>3. ASSUME NEW e \in Execution, NEW c \in Changes
      PROVE  RegisterProcessed(e, c) \in Execution
  <2>1. e.processed + 1 \in Nat /\ e.changed \in [Changes -> Nat]
    BY DEF Execution
  <2>2. [e.changed EXCEPT ![c] = @ + 1] \in [Changes -> Nat]
    BY <2>1
  <2>3. RegisterProcessed(e, c) = [e EXCEPT !.processed = e.processed + 1,
                          !.changed = [e.changed EXCEPT ![c] = @ + 1]]
    BY DEF RegisterProcessed
  <2>4. \A n \in Nat, f \in [Changes -> Nat] :
          [e EXCEPT !.processed = n, !.changed = f] \in Execution
    BY DEF Execution
  <2> QED BY <2>1, <2>2, <2>3, <2>4
<1>4. ASSUME NEW e \in Execution, NEW f \in BOOLEAN
      PROVE  RegisterItemFailure(e, f) \in Execution
  <2>1. e.failed + 1 \in Nat
    BY DEF Execution
  <2>2. (e.storable /\ f) \in BOOLEAN
    BY Zenon
  <2>3. \A n \in Nat, b \in BOOLEAN :
          [e EXCEPT !.failed = n, !.storable = b] \in Execution
    BY DEF Execution
  <2>4. RegisterItemFailure(e, f)
          = [e EXCEPT !.failed = e.failed + 1, !.storable = e.storable /\ f]
    BY Zenon DEF RegisterItemFailure
  <2> QED BY <2>1, <2>2, <2>3, <2>4
<1>5. ASSUME NEW e \in Execution
      PROVE  Complete(e) \in Execution /\ Fail(e) \in Execution
  BY <1>5 DEF Complete, Fail, Execution, Statuses
<1>6. ASSUME NEW e \in Execution PROVE ToModel(e) \in Row
  BY <1>6 DEF ToModel, Execution, Row
<1> QED BY <1>1, <1>2, <1>3, <1>4, <1>5, <1>6

-----------------------------------------------------------------------------
LEMMA PageSizeType == \A n \in PageSizes : n \in Nat
  BY ConfigAssumption

\* After an item, the items left are a number again, and there is one more
\* wherever the run goes on to the next.
LEMMA NextItemTypes ==
  ASSUME TypeOK, NEW r \in Runs, left[r] > 0, NextItem(r)
  PROVE  /\ left' \in [Runs -> Nat]
         /\ pc' \in [Runs -> Labels]
         /\ outcome' = outcome
         /\ pc'[r] = "items" => left'[r] > 0
         /\ \A s \in Runs \ {r} : pc'[s] = pc[s] /\ left'[s] = left[s]
<1>1. left[r] \in Nat /\ left[r] - 1 \in Nat
  BY DEF TypeOK
<1>2. left' = [left EXCEPT ![r] = left[r] - 1] /\ left \in [Runs -> Nat]
  BY DEF NextItem, TypeOK
<1>3. pc' = [pc EXCEPT ![r] = IF left[r] = 1 THEN "save" ELSE "items"]
  BY DEF NextItem, Goto
<1> QED BY <1>1, <1>2, <1>3 DEF NextItem, Goto, TypeOK, Labels, Awaits

\* A run that waits for an item has one: what makes TypeOK inductive, since
\* the count of items left goes down by one with each of them.
ItemsLeft == \A r \in Runs : pc[r] = "items" => left[r] > 0

TypeInv == TypeOK /\ ItemsLeft

LEMMA TypeInvInit == Init => TypeInv
  BY OperationTypes DEF Init, TypeInv, TypeOK, ItemsLeft, Labels, Outcomes

LEMMA TypeInvNext == TypeInv /\ [Next]_vars => TypeInv'
<1> SUFFICES ASSUME TypeInv, [Next]_vars PROVE TypeInv'
  OBVIOUS
<1> USE OperationTypes
    DEF TypeInv, TypeOK, ItemsLeft, Labels, Awaits, Outcomes, Goto, Return
<1>1. ASSUME NEW r \in Runs, StartFresh(r) PROVE TypeInv'
  BY <1>1 DEF StartFresh
<1>2. ASSUME NEW r \in Runs, NEW p \in Runs, StartReprocess(r, p)
      PROVE  TypeInv'
  BY <1>2 DEF StartReprocess
<1>3. ASSUME NEW r \in Runs, NEW p \in Runs, RejectUnknown(r, p)
      PROVE  TypeInv'
  BY <1>3 DEF RejectUnknown
<1>4. ASSUME NEW r \in Runs, LookupRaises(r) PROVE TypeInv'
  BY <1>4 DEF LookupRaises
<1>5. ASSUME NEW r \in Runs, Acquire(r) PROVE TypeInv'
  BY <1>5 DEF Acquire, WriteRow
<1>6. ASSUME NEW r \in Runs, AcquireRefused(r) PROVE TypeInv'
  BY <1>6 DEF AcquireRefused
<1>7. ASSUME NEW r \in Runs, AcquireRaises(r) PROVE TypeInv'
  BY <1>7 DEF AcquireRaises, WriteRow
<1>8. ASSUME NEW r \in Runs, NEW n \in PageSizes, ReceivePage(r, n)
      PROVE  TypeInv'
  <2>1. n \in Nat /\ exec[r] \in Execution
    BY PageSizeType
  <2>2. RegisterReceived(exec[r], n) \in Execution
    BY <2>1
  <2>3. exec' \in [Runs -> Execution] /\ left' \in [Runs -> Nat]
    BY <1>8, <2>1, <2>2 DEF ReceivePage
  <2>4. pages' \in [Runs -> Nat]
    BY <1>8 DEF ReceivePage
  <2>5. pc'[r] = "items" => left'[r] > 0
    BY <1>8, <2>1 DEF ReceivePage
  <2> QED BY <1>8, <2>3, <2>4, <2>5 DEF ReceivePage
<1>9. ASSUME NEW r \in Runs, NEW c \in Changes, ItemProcessed(r, c)
      PROVE  TypeInv'
  <2>1. left[r] > 0 /\ NextItem(r)
    BY <1>9 DEF ItemProcessed
  <2>2. RegisterProcessed(exec[r], c) \in Execution
    OBVIOUS
  <2>3. exec' \in [Runs -> Execution]
    BY <1>9, <2>2 DEF ItemProcessed
  <2>4. upserted' \in [Runs -> Nat]
    BY <1>9 DEF ItemProcessed
  <2> QED BY <1>9, <2>1, <2>3, <2>4, NextItemTypes DEF ItemProcessed
<1>10. ASSUME NEW r \in Runs, NEW f \in BOOLEAN, ItemFailed(r, f)
       PROVE  TypeInv'
  <2>1. left[r] > 0 /\ NextItem(r)
    BY <1>10 DEF ItemFailed
  <2>2. RegisterItemFailure(exec[r], f) \in Execution
    OBVIOUS
  <2>3. exec' \in [Runs -> Execution]
    BY <1>10, <2>2 DEF ItemFailed
  <2>4. upserted' \in [Runs -> Nat]
    BY <1>10 DEF ItemFailed
  <2> QED BY <1>10, <2>1, <2>3, <2>4, NextItemTypes DEF ItemFailed
<1>11. ASSUME NEW r \in Runs, SavePage(r) PROVE TypeInv'
  BY <1>11 DEF SavePage, WriteRow
<1>12. ASSUME NEW r \in Runs, SavePageRaises(r) PROVE TypeInv'
  BY <1>12 DEF SavePageRaises, WriteRowMaybe, WriteRow
<1>13. ASSUME NEW r \in Runs, SourceRaises(r) PROVE TypeInv'
  BY <1>13 DEF SourceRaises
<1>14. ASSUME NEW r \in Runs, SourceExhausted(r) PROVE TypeInv'
  BY <1>14 DEF SourceExhausted
<1>15. ASSUME NEW r \in Runs, SaveFailed(r) PROVE TypeInv'
  BY <1>15 DEF SaveFailed, WriteRow
<1>16. ASSUME NEW r \in Runs, SaveFinal(r) PROVE TypeInv'
  BY <1>16 DEF SaveFinal, WriteRow
<1>17. ASSUME NEW r \in Runs, ClosingSaveRaises(r) PROVE TypeInv'
  BY <1>17 DEF ClosingSaveRaises, WriteRowMaybe, WriteRow
<1>18. ASSUME NEW r \in Runs, Crash(r) PROVE TypeInv'
  BY <1>18 DEF Crash
<1>19. ASSUME UNCHANGED vars PROVE TypeInv'
  BY <1>19 DEF vars
<1> QED
  BY <1>1, <1>2, <1>3, <1>4, <1>5, <1>6, <1>7, <1>8, <1>9, <1>10, <1>11,
     <1>12, <1>13, <1>14, <1>15, <1>16, <1>17, <1>18, <1>19
     DEF Next, Start, Step, AllDone

LEMMA TypeInvariant == Spec => []TypeInv
  BY TypeInvInit, TypeInvNext, PTL DEF Spec

\* Spec keeps every variable in its type, for every choice of the constants.
THEOREM TypeCorrect == Spec => []TypeOK
<1>1. TypeInv => TypeOK
  BY DEF TypeInv
<1> QED BY <1>1, TypeInvariant, PTL

-----------------------------------------------------------------------------
\* The slot is held by one execution; whoever works holds it; and an aggregate
\* that is stored before it is closed still says it is running.
SlotUnique == \A r, s \in Runs : HoldsSlot(r) /\ HoldsSlot(s) => r = s

WorkingHolds == \A r \in Runs : Working(r) => HoldsSlot(r)

OpenIsRunning ==
  \A r \in Runs :
    pc[r] \in {"acquire", "fetch", "items", "save"} => exec[r].status = "running"

SlotInv == SlotUnique /\ WorkingHolds /\ OpenIsRunning

\* A stored aggregate is a row, and it holds the slot while it is running.
LEMMA StoredModel ==
  ASSUME NEW e \in Execution
  PROVE  /\ ToModel(e) # NoRow
         /\ ToModel(e).activeSlot <=> e.status = "running"
<1>1. ToModel(e) # NoRow
  BY OperationTypes, ConfigAssumption
<1>2. ToModel(e).activeSlot <=> e.status = "running"
  BY Zenon DEF ToModel
<1> QED BY <1>1, <1>2

\* Only Fail and Complete change the status of an aggregate.
LEMMA OperationStatus ==
  /\ \A p \in Runs \cup {None} : NewExecution(p).status = "running"
  /\ \A e \in Execution :
       /\ \A n \in Nat : RegisterReceived(e, n).status = e.status
       /\ \A c \in Changes : RegisterProcessed(e, c).status = e.status
       /\ \A f \in BOOLEAN : RegisterItemFailure(e, f).status = e.status
<1>1. \A p \in Runs \cup {None} : NewExecution(p).status = "running"
  BY DEF NewExecution
<1>2. ASSUME NEW e \in Execution, NEW n \in Nat
      PROVE  RegisterReceived(e, n).status = e.status
  BY DEF RegisterReceived, Execution
<1>3. ASSUME NEW e \in Execution, NEW c \in Changes
      PROVE  RegisterProcessed(e, c).status = e.status
  BY DEF RegisterProcessed, Execution
<1>4. ASSUME NEW e \in Execution, NEW f \in BOOLEAN
      PROVE  RegisterItemFailure(e, f).status = e.status
  BY DEF RegisterItemFailure, Execution
<1> QED BY <1>1, <1>2, <1>3, <1>4

\* Storing the aggregate of r moves the slot of no other run.
LEMMA WriteRowSlot ==
  ASSUME TypeOK, NEW r \in Runs, WriteRow(r)
  PROVE  /\ HoldsSlot(r)' <=> exec[r].status = "running"
         /\ \A s \in Runs \ {r} : row'[s] = row[s]
<1>1. exec[r] \in Execution /\ row'[r] = ToModel(exec[r])
  BY DEF TypeOK, WriteRow
<1>2. \A s \in Runs \ {r} : row'[s] = row[s]
  BY DEF TypeOK, WriteRow
<1>3. HoldsSlot(r)' <=> exec[r].status = "running"
  BY <1>1, StoredModel, Zenon DEF HoldsSlot
<1> QED BY <1>2, <1>3

LEMMA SlotInvInit == Init => SlotInv
  BY OperationStatus
     DEF Init, SlotInv, SlotUnique, WorkingHolds, OpenIsRunning, HoldsSlot,
         Working, Awaits

\* A step of r that stores nothing keeps SlotInv, if r goes to another await
\* only from one where it already holds the slot.
LEMMA SlotInvKeepsRow ==
  ASSUME TypeOK, SlotInv, NEW r \in Runs, UNCHANGED row,
         \A s \in Runs \ {r} : pc'[s] = pc[s] /\ exec'[s] = exec[s],
         Working(r)' => Working(r),
         pc'[r] \in {"acquire", "fetch", "items", "save"}
           => exec'[r].status = "running"
  PROVE  SlotInv'
<1>1. \A s \in Runs : HoldsSlot(s)' <=> HoldsSlot(s)
  BY DEF HoldsSlot
<1>2. SlotUnique'
  BY <1>1 DEF SlotInv, SlotUnique
<1>3. WorkingHolds'
  BY <1>1 DEF SlotInv, WorkingHolds, Working
<1>4. OpenIsRunning'
  BY DEF SlotInv, OpenIsRunning
<1> QED BY <1>2, <1>3, <1>4 DEF SlotInv

\* A step of r that stores its aggregate keeps SlotInv, if r holds the slot
\* or nobody does, and r goes on only while its aggregate is running.
LEMMA SlotInvWritesRow ==
  ASSUME TypeOK, SlotInv, NEW r \in Runs, WriteRow(r),
         HoldsSlot(r) \/ ~SlotTaken,
         \A s \in Runs \ {r} : pc'[s] = pc[s] /\ exec'[s] = exec[s],
         Working(r)' => exec[r].status = "running",
         pc'[r] \in {"acquire", "fetch", "items", "save"}
           => exec'[r].status = "running"
  PROVE  SlotInv'
<1>1. \A s \in Runs \ {r} : HoldsSlot(s)' <=> HoldsSlot(s)
  BY WriteRowSlot DEF HoldsSlot
<1>2. HoldsSlot(r)' <=> exec[r].status = "running"
  BY WriteRowSlot
<1>3. SlotUnique'
  <2>1. \A s \in Runs \ {r} : ~HoldsSlot(s)
    BY DEF SlotInv, SlotUnique, SlotTaken
  <2> QED BY <1>1, <2>1 DEF SlotUnique
<1>4. WorkingHolds'
  BY <1>1, <1>2 DEF SlotInv, WorkingHolds, Working
<1>5. OpenIsRunning'
  BY DEF SlotInv, OpenIsRunning
<1> QED BY <1>3, <1>4, <1>5 DEF SlotInv

LEMMA SlotInvNext == TypeInv /\ SlotInv /\ [Next]_vars => SlotInv'
<1> SUFFICES ASSUME TypeInv, SlotInv, [Next]_vars PROVE SlotInv'
  OBVIOUS
<1> USE DEF TypeInv
<1>1. ASSUME NEW r \in Runs, Start(r) PROVE SlotInv'
  <2>1. UNCHANGED row /\ ~Working(r)'
    BY <1>1 DEF Start, StartFresh, StartReprocess, RejectUnknown,
       LookupRaises, Goto, Return, Working, Awaits, TypeOK
  <2>2. \A s \in Runs \ {r} : pc'[s] = pc[s] /\ exec'[s] = exec[s]
    BY <1>1 DEF Start, StartFresh, StartReprocess, RejectUnknown,
       LookupRaises, Goto, Return, TypeOK
  <2>3. pc'[r] \in {"acquire", "fetch", "items", "save"}
          => exec'[r].status = "running"
    BY <1>1, OperationStatus DEF Start, StartFresh, StartReprocess,
       RejectUnknown, LookupRaises, Goto, Return, TypeOK
  <2> QED BY <2>1, <2>2, <2>3, SlotInvKeepsRow
<1>2. ASSUME NEW r \in Runs, Acquire(r) PROVE SlotInv'
  <2>1. exec[r].status = "running" /\ exec' = exec
    BY <1>2 DEF Acquire, SlotInv, OpenIsRunning
  <2>2. \A s \in Runs \ {r} : pc'[s] = pc[s]
    BY <1>2 DEF Acquire, Goto, TypeOK
  <2> QED BY <1>2, <2>1, <2>2, SlotInvWritesRow DEF Acquire
<1>3. ASSUME NEW r \in Runs, AcquireRefused(r) PROVE SlotInv'
  BY <1>3, SlotInvKeepsRow
     DEF AcquireRefused, Return, Working, Awaits, TypeOK
<1>4. ASSUME NEW r \in Runs, AcquireRaises(r) PROVE SlotInv'
  <2>1. /\ exec' = exec /\ pc'[r] = "done"
        /\ \A s \in Runs \ {r} : pc'[s] = pc[s]
    BY <1>4 DEF AcquireRaises, Return, TypeOK
  <2>2. CASE UNCHANGED row
    BY <2>1, <2>2, SlotInvKeepsRow DEF Working, Awaits
  <2>3. CASE ~SlotTaken /\ WriteRow(r)
    BY <2>1, <2>3, SlotInvWritesRow DEF Working, Awaits
  <2> QED BY <1>4, <2>2, <2>3 DEF AcquireRaises
<1>5. ASSUME NEW r \in Runs, NEW n \in PageSizes, ReceivePage(r, n)
      PROVE  SlotInv'
  <2>1. exec[r].status = "running" /\ exec[r] \in Execution
    BY <1>5 DEF ReceivePage, SlotInv, OpenIsRunning, TypeOK
  <2>2. exec'[r].status = "running"
    BY <1>5, <2>1, OperationStatus, PageSizeType DEF ReceivePage, TypeOK
  <2>3. UNCHANGED row /\ Working(r)
    BY <1>5 DEF ReceivePage, Working, Awaits
  <2>4. \A s \in Runs \ {r} : pc'[s] = pc[s] /\ exec'[s] = exec[s]
    BY <1>5 DEF ReceivePage, Goto, TypeOK
  <2> QED BY <2>2, <2>3, <2>4, SlotInvKeepsRow
<1>6. ASSUME NEW r \in Runs, NEW c \in Changes, ItemProcessed(r, c)
      PROVE  SlotInv'
  <2>1. exec[r].status = "running" /\ exec[r] \in Execution
    BY <1>6 DEF ItemProcessed, SlotInv, OpenIsRunning, TypeOK
  <2>2. exec'[r].status = "running"
    BY <1>6, <2>1, OperationStatus DEF ItemProcessed, TypeOK
  <2>3. UNCHANGED row /\ Working(r)
    BY <1>6 DEF ItemProcessed, Working, Awaits
  <2>4. \A s \in Runs \ {r} : pc'[s] = pc[s] /\ exec'[s] = exec[s]
    BY <1>6 DEF ItemProcessed, NextItem, Goto, TypeOK
  <2> QED BY <2>2, <2>3, <2>4, SlotInvKeepsRow
<1>7. ASSUME NEW r \in Runs, NEW f \in BOOLEAN, ItemFailed(r, f)
      PROVE  SlotInv'
  <2>1. exec[r].status = "running" /\ exec[r] \in Execution
    BY <1>7 DEF ItemFailed, SlotInv, OpenIsRunning, TypeOK
  <2>2. RegisterItemFailure(exec[r], f).status = "running"
    BY <2>1, OperationStatus
  <2>3. exec'[r].status = "running"
    BY <1>7, <2>2 DEF ItemFailed, TypeOK
  <2>4. UNCHANGED row /\ Working(r)
    BY <1>7 DEF ItemFailed, Working, Awaits
  <2>5. \A s \in Runs \ {r} : pc'[s] = pc[s] /\ exec'[s] = exec[s]
    BY <1>7 DEF ItemFailed, NextItem, Goto, TypeOK
  <2> QED BY <2>3, <2>4, <2>5, SlotInvKeepsRow
<1>8. ASSUME NEW r \in Runs, SavePage(r) PROVE SlotInv'
  <2>1. exec[r].status = "running" /\ HoldsSlot(r) /\ exec' = exec
    BY <1>8 DEF SavePage, SlotInv, OpenIsRunning, WorkingHolds, Working,
       Awaits
  <2>2. \A s \in Runs \ {r} : pc'[s] = pc[s]
    BY <1>8 DEF SavePage, Goto, TypeOK
  <2> QED BY <1>8, <2>1, <2>2, SlotInvWritesRow DEF SavePage
<1>9. ASSUME NEW r \in Runs, SavePageRaises(r) PROVE SlotInv'
  <2>1. exec[r].status = "running" /\ HoldsSlot(r) /\ Working(r)
    BY <1>9 DEF SavePageRaises, SlotInv, OpenIsRunning, WorkingHolds,
       Working, Awaits
  <2>2. /\ pc'[r] = "saveFailed"
        /\ \A s \in Runs \ {r} : pc'[s] = pc[s] /\ exec'[s] = exec[s]
    BY <1>9 DEF SavePageRaises, Goto, TypeOK
  <2>3. CASE UNCHANGED row
    BY <2>1, <2>2, <2>3, SlotInvKeepsRow
  <2>4. CASE WriteRow(r)
    BY <2>1, <2>2, <2>4, SlotInvWritesRow
  <2> QED BY <1>9, <2>3, <2>4 DEF SavePageRaises, WriteRowMaybe
<1>10. ASSUME NEW r \in Runs, SourceRaises(r) \/ SourceExhausted(r)
       PROVE  SlotInv'
  <2>1. /\ UNCHANGED row /\ Working(r)
        /\ pc'[r] \in {"saveFailed", "saveFinal"}
    BY <1>10 DEF SourceRaises, SourceExhausted, Goto, Working, Awaits, TypeOK
  <2>2. \A s \in Runs \ {r} : pc'[s] = pc[s] /\ exec'[s] = exec[s]
    BY <1>10 DEF SourceRaises, SourceExhausted, Goto, TypeOK
  <2> QED BY <2>1, <2>2, SlotInvKeepsRow
<1>11. ASSUME NEW r \in Runs,
              SaveFailed(r) \/ SaveFinal(r) \/ ClosingSaveRaises(r)
       PROVE  SlotInv'
  <2>1. HoldsSlot(r) /\ exec' = exec /\ pc'[r] = "done"
    BY <1>11 DEF SaveFailed, SaveFinal, ClosingSaveRaises, SlotInv,
       WorkingHolds, Working, Awaits, Return, TypeOK
  <2>2. \A s \in Runs \ {r} : pc'[s] = pc[s]
    BY <1>11 DEF SaveFailed, SaveFinal, ClosingSaveRaises, Return, TypeOK
  <2>3. CASE UNCHANGED row
    BY <2>1, <2>2, <2>3, SlotInvKeepsRow DEF Working, Awaits
  <2>4. CASE WriteRow(r)
    BY <2>1, <2>2, <2>4, SlotInvWritesRow DEF Working, Awaits
  <2> QED BY <1>11, <2>3, <2>4
          DEF SaveFailed, SaveFinal, ClosingSaveRaises, WriteRowMaybe
<1>12. ASSUME NEW r \in Runs, Crash(r) PROVE SlotInv'
  BY <1>12, SlotInvKeepsRow DEF Crash, Return, Working, Awaits, TypeOK
<1>13. ASSUME UNCHANGED vars PROVE SlotInv'
  BY <1>13 DEF vars, SlotInv, SlotUnique, WorkingHolds, OpenIsRunning,
     HoldsSlot, Working
<1> QED
  BY <1>1, <1>2, <1>3, <1>4, <1>5, <1>6, <1>7, <1>8, <1>9, <1>10, <1>11,
     <1>12, <1>13 DEF Next, Step, AllDone

LEMMA SlotInvariant == Spec => []SlotInv
  BY TypeInvariant, SlotInvInit, SlotInvNext, PTL DEF Spec

\* No two executions are ever inside the synchronization at once: not with
\* any number of callers, nor with any combination of the faults.
THEOREM MutualExclusion == Spec => []SingleActiveRun
<1>1. SlotInv => SingleActiveRun
  BY DEF SlotInv, SlotUnique, WorkingHolds, SingleActiveRun
<1> QED BY <1>1, SlotInvariant, PTL
=============================================================================
