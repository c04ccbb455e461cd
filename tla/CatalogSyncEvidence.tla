------------------------ MODULE CatalogSyncEvidence ------------------------
(***************************************************************************)
(* Theorems about what CatalogSync leaves in the database, for any number  *)
(* of runs, any page sizes, any page limit and any set of faults: the      *)
(* ledger of a stored execution, the evidence it may lack, what an answer  *)
(* says of it, and the executions it reprocesses.                          *)
(***************************************************************************)
EXTENDS CatalogSyncProofs

\* Each processed item is counted under one kind of change, and the final
\* status is that of the failures.
Balanced(e) ==
  /\ e.processed = TotalChanged(e)
  /\ e.status = "completed" => e.failed = 0
  /\ e.status = "completed_with_failures" => e.failed > 0

\* w is the present state of the execution e, or an earlier one.
Precedes(w, e) ==
  /\ w \in Row /\ Balanced(w)
  /\ w.received = w.processed + w.failed
  /\ w.activeSlot <=> w.status = "running"
  /\ w.reprocessOf = e.reprocessOf
  /\ w.received <= e.received /\ w.processed <= e.processed
  /\ w.failed <= e.failed

\* The items of the page at hand are those received and not yet counted.
\* p, e, n, w, o and u stand for the state of one run: its pc, its execution,
\* the items left, its row, its outcome and the products written for it.
Ledger(p, e, n, w) ==
  /\ e.received = e.processed + e.failed + n
  /\ Balanced(e)
  /\ p \notin {"items", "done"} => n = 0
  /\ w # NoRow => Precedes(w, e)

\* The await a run is at says what is stored and how its execution stands.
Progress(p, e, w, u) ==
  /\ p \in {"idle", "acquire"} =>
       w = NoRow /\ u = 0 /\ e.processed = 0 /\ e.failed = 0
  /\ p \in Awaits => w # NoRow
  /\ p \in {"acquire", "fetch", "items", "save"} => e.status = "running"
  /\ p = "saveFailed" => e.status = "failed"
  /\ p = "saveFinal" => e.status \in {"completed", "completed_with_failures"}

\* What the caller was told is what is stored.
Answer(p, e, w, o) ==
  /\ o # "none" => p = "done"
  /\ o = "completed" =>
       w = ToModel(e) /\ e.status \in {"completed", "completed_with_failures"}
  /\ o = "sync_failed" => w # NoRow /\ w.status = "failed"
  /\ o \in {"already_running", "not_found"} => w = NoRow
  /\ p = "done" =>
       w = NoRow \/ w.status # "running" \/ o \in {"error", "crashed"}

\* The row accounts for n items, but for those of one page.
Within(n, w) ==
  \/ n <= w.processed + w.failed
  \/ \E size \in PageSizes : n <= w.processed + w.failed + size

\* What was written for a run is counted by its execution, and all but a page
\* of it by its row.
Evidence(p, e, n, w, u) ==
  /\ p # "done" => u <= e.processed + e.failed
  /\ p = "fetch" => e.processed + e.failed <= w.processed + w.failed
  /\ p \in Awaits => Within(e.processed + e.failed + n, w)
  /\ u > 0 => w # NoRow /\ Within(u, w) /\ PageSizes # {}
  /\ p = "items" => PageSizes # {}

Sound(p, e, n, w, o, u) ==
  /\ Ledger(p, e, n, w) /\ Progress(p, e, w, u)
  /\ Answer(p, e, w, o) /\ Evidence(p, e, n, w, u)

Local(r) == Sound(pc[r], exec[r], left[r], row[r], outcome[r], upserted[r])

-----------------------------------------------------------------------------
(* The operations. *)

LEMMA NewIs ==
  ASSUME NEW p \in Runs \cup {None}
  PROVE  LET e == NewExecution(p)
         IN  /\ e \in Execution /\ e.received = 0 /\ e.processed = 0
             /\ e.failed = 0 /\ e.status = "running" /\ e.reprocessOf = p
             /\ Balanced(e)
<1>1. NewExecution(p) \in Execution
  BY OperationTypes
<1> QED BY <1>1 DEF NewExecution, Balanced, TotalChanged, Changes

\* What each operation does to the counts of an execution.
SameButCounts(f, e) ==
  f \in Execution /\ f.status = e.status /\ f.reprocessOf = e.reprocessOf

LEMMA ReceivedIs ==
  ASSUME NEW e \in Execution, NEW n \in Nat
  PROVE  LET f == RegisterReceived(e, n)
         IN  /\ SameButCounts(f, e) /\ f.received = e.received + n
             /\ f.processed = e.processed /\ f.failed = e.failed
             /\ Balanced(e) => Balanced(f)
<1>1. RegisterReceived(e, n) \in Execution
  BY OperationTypes
<1>2. RegisterReceived(e, n) = [e EXCEPT !.received = e.received + n]
  BY DEF RegisterReceived
<1> QED BY <1>1, <1>2 DEF Execution, SameButCounts, Balanced, TotalChanged

LEMMA ProcessedIs ==
  ASSUME NEW e \in Execution, NEW c \in Changes
  PROVE  LET f == RegisterProcessed(e, c)
         IN  /\ SameButCounts(f, e) /\ f.received = e.received
             /\ f.processed = e.processed + 1 /\ f.failed = e.failed
             /\ Balanced(e) => Balanced(f)
<1>1. RegisterProcessed(e, c) \in Execution
  BY OperationTypes
<1> DEFINE g == [e.changed EXCEPT ![c] = @ + 1]
<1>2. RegisterProcessed(e, c)
        = [e EXCEPT !.processed = e.processed + 1, !.changed = g]
  BY DEF RegisterProcessed
<1>3. e.changed \in [Changes -> Nat] /\ e.processed \in Nat
  BY DEF Execution
<1>4. g["created"] + g["updated"] + g["unchanged"] = TotalChanged(e) + 1
  BY <1>3 DEF TotalChanged, Changes
<1> HIDE DEF g
<1>5. \A n, h : LET f == [e EXCEPT !.processed = n, !.changed = h]
                IN  /\ f.status = e.status /\ f.reprocessOf = e.reprocessOf
                    /\ f.received = e.received /\ f.failed = e.failed
                    /\ f.processed = n /\ f.changed = h
  BY DEF Execution
<1>6. LET f == RegisterProcessed(e, c)
      IN  /\ f.status = e.status /\ f.reprocessOf = e.reprocessOf
          /\ f.received = e.received /\ f.failed = e.failed
          /\ f.processed = e.processed + 1 /\ f.changed = g
  BY <1>2, <1>5
<1> QED BY <1>1, <1>4, <1>6 DEF SameButCounts, Balanced, TotalChanged

LEMMA FailureIs ==
  ASSUME NEW e \in Execution, NEW fits \in BOOLEAN, e.status = "running"
  PROVE  LET f == RegisterItemFailure(e, fits)
         IN  /\ SameButCounts(f, e) /\ f.received = e.received
             /\ f.processed = e.processed /\ f.failed = e.failed + 1
             /\ Balanced(e) => Balanced(f)
<1>1. RegisterItemFailure(e, fits) \in Execution
  BY OperationTypes
<1>2. \A n, b : LET f == [e EXCEPT !.failed = n, !.storable = b]
                IN  /\ f.status = e.status /\ f.reprocessOf = e.reprocessOf
                    /\ f.received = e.received /\ f.failed = n
                    /\ f.processed = e.processed /\ f.changed = e.changed
  BY DEF Execution
<1> DEFINE b == e.storable /\ fits
<1>3. RegisterItemFailure(e, fits)
        = [e EXCEPT !.failed = e.failed + 1, !.storable = b]
  BY Zenon DEF RegisterItemFailure
<1> HIDE DEF b
<1>4. LET f == RegisterItemFailure(e, fits)
      IN  /\ f.status = e.status /\ f.reprocessOf = e.reprocessOf
          /\ f.received = e.received /\ f.failed = e.failed + 1
          /\ f.processed = e.processed /\ f.changed = e.changed
  BY <1>2, <1>3
<1> QED BY <1>1, <1>4 DEF SameButCounts, Balanced, TotalChanged

\* Closing an execution changes none of its counts.
LEMMA ClosedIs ==
  ASSUME NEW e \in Execution, NEW f \in {Complete(e), Fail(e)}
  PROVE  /\ f \in Execution /\ f.reprocessOf = e.reprocessOf
         /\ f.received = e.received /\ f.processed = e.processed
         /\ f.failed = e.failed
         /\ f = Fail(e) => f.status = "failed"
         /\ f = Complete(e) =>
              f.status = IF e.failed > 0 THEN "completed_with_failures"
                                         ELSE "completed"
         /\ Balanced(e) => Balanced(f)
<1>1. f \in Execution
  BY OperationTypes
<1>2. e.failed \in Nat
  BY DEF Execution
<1>3. \A x : LET g == [e EXCEPT !.status = x]
            IN  /\ g.status = x /\ g.reprocessOf = e.reprocessOf
                /\ g.received = e.received /\ g.processed = e.processed
                /\ g.failed = e.failed /\ g.changed = e.changed
  BY DEF Execution
<1> DEFINE x == IF e.failed > 0 THEN "completed_with_failures"
                                ELSE "completed"
<1>4. CASE f = Fail(e)
  <2>1. f = [e EXCEPT !.status = "failed"]
    BY <1>4 DEF Fail
  <2>2. f.status = "failed" /\ f.changed = e.changed
    BY <1>3, <2>1
  <2>3. f # Complete(e)
    BY <1>3, <2>2 DEF Complete
  <2> QED BY <1>1, <1>3, <2>1, <2>2, <2>3 DEF Balanced, TotalChanged
<1>5. CASE f = Complete(e)
  <2>1. f = [e EXCEPT !.status = x]
    BY <1>5 DEF Complete
  <2> HIDE DEF x
  <2>2. f.status = x /\ f.changed = e.changed
    BY <1>3, <2>1
  <2>3. f # Fail(e)
    BY <1>3, <2>2 DEF Fail, x
  <2>4. f.reprocessOf = e.reprocessOf /\ f.received = e.received
        /\ f.processed = e.processed /\ f.failed = e.failed
    BY <1>3, <2>1
  <2> QED BY <1>1, <1>2, <2>2, <2>3, <2>4 DEF Balanced, TotalChanged, x
<1> QED BY <1>4, <1>5

\* The row written from an execution is its present state.
LEMMA ModelIs ==
  ASSUME NEW e \in Execution, Balanced(e), e.received = e.processed + e.failed
  PROVE  /\ Precedes(ToModel(e), e) /\ ToModel(e) # NoRow
         /\ ToModel(e).status = e.status
         /\ ToModel(e).processed = e.processed /\ ToModel(e).failed = e.failed
<1> DEFINE w == ToModel(e)
<1>1. /\ w.received = e.received /\ w.processed = e.processed
      /\ w.failed = e.failed /\ w.changed = e.changed /\ w.status = e.status
      /\ w.reprocessOf = e.reprocessOf
  BY Zenon DEF ToModel
<1>2. w \in Row /\ w # NoRow /\ (w.activeSlot <=> w.status = "running")
  BY <1>1, OperationTypes, StoredModel
<1>3. e.received \in Nat /\ e.processed \in Nat /\ e.failed \in Nat
  BY DEF Execution
<1> HIDE DEF w
<1>4. Balanced(w)
  BY <1>1 DEF Balanced, TotalChanged
<1>5. /\ w.received <= e.received /\ w.processed <= e.processed
      /\ w.failed <= e.failed /\ w.received = w.processed + w.failed
  BY <1>1, <1>3
<1> QED BY <1>1, <1>2, <1>4, <1>5, Zenon DEF Precedes, w

-----------------------------------------------------------------------------
(* The row and its evidence. *)

\* The counts of executions and rows are numbers.
LEMMA Counts ==
  /\ \A e \in Execution :
       e.received \in Nat /\ e.processed \in Nat /\ e.failed \in Nat
  /\ \A w \in Row :
       w.received \in Nat /\ w.processed \in Nat /\ w.failed \in Nat
  BY DEF Execution, Row

\* A row that precedes an execution precedes what it goes on to be.
LEMMA PrecedesMore ==
  ASSUME NEW e \in Execution, NEW f \in Execution, NEW w, Precedes(w, e),
         f.reprocessOf = e.reprocessOf, f.received >= e.received,
         f.processed >= e.processed, f.failed >= e.failed
  PROVE  Precedes(w, f)
<1>1. w \in Row /\ w.received <= e.received /\ w.processed <= e.processed
      /\ w.failed <= e.failed
  BY DEF Precedes
<1>2. /\ w.received <= f.received /\ w.processed <= f.processed
      /\ w.failed <= f.failed
  BY <1>1, Counts
<1> QED BY <1>2, Zenon DEF Precedes

\* A row accounts for fewer items than any it accounts for, and for those of
\* a page more than it counts.
LEMMA WithinLess ==
  ASSUME NEW m \in Nat, NEW n \in Nat, NEW w \in Row, m <= n, Within(n, w)
  PROVE  Within(m, w)
<1>1. \A size \in PageSizes : size \in Nat
  BY PageSizeType
<1> QED BY <1>1, Counts DEF Within

LEMMA WithinPage ==
  ASSUME NEW n \in Nat, NEW w \in Row, NEW size \in PageSizes,
         n <= w.processed + w.failed
  PROVE  Within(n + size, w)
<1>1. size \in Nat
  BY PageSizeType
<1>2. n + size <= w.processed + w.failed + size
  BY <1>1, Counts
<1> QED BY <1>2 DEF Within

\* A row just written from an execution accounts for all it counts.
LEMMA WithinModel ==
  ASSUME NEW e \in Execution, Balanced(e), e.received = e.processed + e.failed,
         NEW n \in Nat, n <= e.processed + e.failed
  PROVE  Within(n, ToModel(e))
  BY ModelIs DEF Within

-----------------------------------------------------------------------------
(* The steps of one run keep its state sound. *)

Typed(e, n, w, u) ==
  e \in Execution /\ n \in Nat /\ w \in Row \cup {NoRow} /\ u \in Nat

\* Away from the items of a page, the row written is the execution's state.
LEMMA Written ==
  ASSUME NEW p, NEW e, NEW n, NEW w, NEW u, Typed(e, n, w, u),
         Ledger(p, e, n, w), p \notin {"items", "done"}
  PROVE  /\ n = 0 /\ e.received = e.processed + e.failed
         /\ ToModel(e) # NoRow /\ Precedes(ToModel(e), e)
         /\ ToModel(e).status = e.status
         /\ ToModel(e).processed = e.processed /\ ToModel(e).failed = e.failed
         /\ \A m \in Nat : m <= e.processed + e.failed => Within(m, ToModel(e))
<1>1. n = 0 /\ e.received = e.processed + e.failed /\ Balanced(e)
  BY Counts DEF Typed, Ledger
<1> QED BY <1>1, ModelIs, WithinModel DEF Typed

\* An execution that is made, and one that has nothing stored.
LEMMA SoundNew ==
  ASSUME NEW q \in Runs \cup {None}, NEW p \in {"idle", "acquire"}
  PROVE  Sound(p, NewExecution(q), 0, NoRow, "none", 0)
<1>1. Ledger(p, NewExecution(q), 0, NoRow)
  BY NewIs DEF Ledger
<1>2. Progress(p, NewExecution(q), NoRow, 0)
  BY NewIs DEF Progress, Awaits
<1>3. Answer(p, NewExecution(q), NoRow, "none")
  BY DEF Answer
<1>4. Evidence(p, NewExecution(q), 0, NoRow, 0)
  BY NewIs DEF Evidence, Awaits
<1> QED BY <1>1, <1>2, <1>3, <1>4 DEF Sound

LEMMA SoundRefused ==
  ASSUME NEW p \in {"idle", "acquire"}, NEW e, NEW n, NEW w, NEW o, NEW u,
         Typed(e, n, w, u), Sound(p, e, n, w, o, u),
         NEW q \in {"already_running", "not_found", "error", "crashed"}
  PROVE  Sound("done", e, n, w, q, u)
<1>1. w = NoRow /\ u = 0
  BY DEF Sound, Progress
<1>2. Ledger("done", e, n, w)
  BY DEF Sound, Ledger
<1>3. Progress("done", e, w, u)
  BY DEF Progress, Awaits
<1>4. Answer("done", e, w, q)
  BY <1>1 DEF Answer
<1>5. Evidence("done", e, n, w, u)
  BY <1>1 DEF Evidence, Awaits
<1> QED BY <1>2, <1>3, <1>4, <1>5 DEF Sound

\* The row written when the slot is acquired, or when a page is over.
LEMMA SoundStored ==
  ASSUME NEW p \in {"acquire", "save"}, NEW e, NEW n, NEW w, NEW o, NEW u,
         Typed(e, n, w, u), Sound(p, e, n, w, o, u)
  PROVE  Sound("fetch", e, n, ToModel(e), o, u)
<1> DEFINE v == ToModel(e)
<1>1. /\ n = 0 /\ v # NoRow /\ Precedes(v, e)
      /\ v.processed = e.processed /\ v.failed = e.failed
      /\ \A m \in Nat : m <= e.processed + e.failed => Within(m, v)
  BY Written DEF Sound
<1>2. e.processed \in Nat /\ e.failed \in Nat /\ u \in Nat
  BY Counts DEF Typed
<1> HIDE DEF v
<1>3. Ledger("fetch", e, n, v)
  BY <1>1 DEF Sound, Ledger
<1>4. Progress("fetch", e, v, u)
  BY <1>1 DEF Sound, Progress, Awaits
<1>5. Answer("fetch", e, v, o)
  BY DEF Sound, Answer
<1>6. u <= e.processed + e.failed /\ Within(e.processed + e.failed + n, v)
      /\ Within(u, v)
  BY <1>1, <1>2 DEF Sound, Evidence
<1>7. Evidence("fetch", e, n, v, u)
  BY <1>1, <1>2, <1>6 DEF Sound, Evidence
<1> QED BY <1>3, <1>4, <1>5, <1>7 DEF Sound, v

\* The insert whose reply was lost.
LEMMA SoundInsertLost ==
  ASSUME NEW e, NEW n, NEW w, NEW o, NEW u,
         Typed(e, n, w, u), Sound("acquire", e, n, w, o, u)
  PROVE  Sound("done", e, n, ToModel(e), "error", u)
<1> DEFINE v == ToModel(e)
<1>1. v # NoRow /\ Precedes(v, e) /\ u = 0
  BY Written DEF Sound, Progress
<1> HIDE DEF v
<1>2. Ledger("done", e, n, v)
  BY <1>1 DEF Sound, Ledger
<1>3. Progress("done", e, v, u)
  BY DEF Progress, Awaits
<1>4. Answer("done", e, v, "error")
  BY DEF Answer
<1>5. Evidence("done", e, n, v, u)
  BY <1>1 DEF Evidence, Awaits
<1> QED BY <1>2, <1>3, <1>4, <1>5 DEF Sound, v

LEMMA SoundReceived ==
  ASSUME NEW e, NEW n, NEW w, NEW o, NEW u,
         Typed(e, n, w, u), Sound("fetch", e, n, w, o, u),
         NEW size \in PageSizes
  PROVE  Sound(IF size = 0 THEN "save" ELSE "items",
               RegisterReceived(e, size), size, w, o, u)
<1> DEFINE f == RegisterReceived(e, size)
           p == IF size = 0 THEN "save" ELSE "items"
<1>1. size \in Nat
  BY PageSizeType
<1>2. /\ f \in Execution /\ f.status = e.status
      /\ f.reprocessOf = e.reprocessOf /\ f.received = e.received + size
      /\ f.processed = e.processed /\ f.failed = e.failed
      /\ Balanced(e) => Balanced(f)
  BY <1>1, ReceivedIs DEF Typed, SameButCounts
<1>3. /\ p \in {"save", "items"} /\ (p # "items" => size = 0)
      /\ n = 0 /\ w # NoRow /\ w \in Row
  BY DEF Sound, Ledger, Progress, Awaits, Typed
<1>4. /\ e.received \in Nat /\ e.processed \in Nat /\ e.failed \in Nat
      /\ u \in Nat
  BY Counts DEF Typed
<1> HIDE DEF f, p
<1>5. Ledger(p, f, size, w)
  <2>1. f.received = f.processed + f.failed + size /\ Balanced(f)
    BY <1>1, <1>2, <1>3, <1>4 DEF Sound, Ledger
  <2>2. Precedes(w, f)
    BY <1>1, <1>2, <1>3, <1>4, PrecedesMore DEF Sound, Ledger, Typed
  <2> QED BY <1>3, <2>1, <2>2 DEF Ledger
<1>6. Progress(p, f, w, u)
  BY <1>2, <1>3 DEF Sound, Progress, Awaits
<1>7. Answer(p, f, w, o)
  BY <1>3 DEF Sound, Answer
<1>8. Evidence(p, f, size, w, u)
  <2>1. e.processed + e.failed <= w.processed + w.failed
    BY DEF Sound, Evidence
  <2>2. Within(e.processed + e.failed + size, w)
    BY <1>3, <1>4, <2>1, WithinPage
  <2>3. u <= e.processed + e.failed
    BY DEF Sound, Evidence
  <2> QED BY <1>2, <1>3, <2>2, <2>3 DEF Sound, Evidence
<1> QED BY <1>5, <1>6, <1>7, <1>8 DEF Sound, f, p

\* An item more is counted, as processed or as failed, and at most one
\* product more is written.
LEMMA SoundItem ==
  ASSUME NEW e, NEW n, NEW w, NEW o, NEW u,
         Typed(e, n, w, u), Sound("items", e, n, w, o, u), n > 0,
         NEW f, SameButCounts(f, e), f.received = e.received,
         Balanced(f), e.status = "running",
         \/ f.processed = e.processed + 1 /\ f.failed = e.failed
         \/ f.processed = e.processed /\ f.failed = e.failed + 1,
         NEW v \in {u, u + 1}
  PROVE  Sound(IF n = 1 THEN "save" ELSE "items", f, n - 1, w, o, v)
<1> DEFINE p == IF n = 1 THEN "save" ELSE "items"
<1>1. /\ f \in Execution /\ f.status = "running"
      /\ f.reprocessOf = e.reprocessOf
  BY DEF SameButCounts
<1>2. /\ p \in {"save", "items"} /\ (p # "items" => n - 1 = 0)
      /\ w # NoRow /\ w \in Row /\ PageSizes # {}
  BY DEF Sound, Progress, Awaits, Evidence, Typed
<1>3. /\ e.received \in Nat /\ e.processed \in Nat /\ e.failed \in Nat
      /\ u \in Nat /\ n \in Nat /\ e \in Execution
  BY Counts DEF Typed
<1>4. /\ f.processed + f.failed = e.processed + e.failed + 1
      /\ f.processed >= e.processed /\ f.failed >= e.failed
      /\ f.processed \in Nat /\ f.failed \in Nat
  BY <1>3
<1>5. /\ e.received = e.processed + e.failed + n
      /\ Precedes(w, e) /\ u <= e.processed + e.failed
      /\ Within(e.processed + e.failed + n, w)
  BY <1>2 DEF Sound, Ledger, Evidence, Awaits
<1> HIDE DEF p
<1>6. Ledger(p, f, n - 1, w)
  <2>1. f.received = f.processed + f.failed + (n - 1)
    BY <1>3, <1>4, <1>5
  <2>2. Precedes(w, f)
    BY <1>1, <1>3, <1>4, <1>5, PrecedesMore
  <2> QED BY <1>2, <2>1, <2>2 DEF Ledger
<1>7. Progress(p, f, w, v)
  BY <1>1, <1>2 DEF Progress, Awaits
<1>8. Answer(p, f, w, o)
  BY <1>2 DEF Sound, Answer
<1>9. Evidence(p, f, n - 1, w, v)
  <2>1. v \in Nat /\ v <= f.processed + f.failed
    BY <1>3, <1>4, <1>5
  <2>2. f.processed + f.failed + (n - 1) = e.processed + e.failed + n
    BY <1>3, <1>4
  <2>3. Within(f.processed + f.failed + (n - 1), w)
    BY <1>5, <2>2
  <2>4. Within(v, w)
    BY <1>2, <1>3, <1>4, <2>1, <2>2, <1>5, WithinLess
  <2> QED BY <1>2, <2>1, <2>3, <2>4 DEF Evidence
<1> QED BY <1>6, <1>7, <1>8, <1>9 DEF Sound, p

\* The execution is closed as failed, by the source or by a save that may
\* have written its row.
LEMMA SoundAborted ==
  ASSUME NEW p \in {"fetch", "save"}, NEW e, NEW n, NEW w, NEW o, NEW u,
         Typed(e, n, w, u), Sound(p, e, n, w, o, u),
         NEW v \in {w, ToModel(e)}
  PROVE  Sound("saveFailed", Fail(e), n, v, o, u)
<1> DEFINE f == Fail(e)
<1>1. /\ f \in Execution /\ f.reprocessOf = e.reprocessOf
      /\ f.received = e.received /\ f.processed = e.processed
      /\ f.failed = e.failed /\ f.status = "failed"
      /\ Balanced(e) => Balanced(f)
  BY ClosedIs DEF Typed
<1>2. e.processed \in Nat /\ e.failed \in Nat /\ e.received \in Nat
      /\ u \in Nat /\ e \in Execution
  BY Counts DEF Typed
<1>3. /\ n = 0 /\ w # NoRow /\ Precedes(w, e)
      /\ Within(e.processed + e.failed + n, w)
  BY DEF Sound, Ledger, Progress, Evidence, Awaits
<1>4. /\ ToModel(e) # NoRow /\ Precedes(ToModel(e), e)
      /\ \A m \in Nat : m <= e.processed + e.failed => Within(m, ToModel(e))
  BY Written DEF Sound
<1>5. u <= e.processed + e.failed /\ (u > 0 => Within(u, w) /\ PageSizes # {})
  BY DEF Sound, Evidence
<1>6. /\ v # NoRow /\ Precedes(v, e)
      /\ Within(e.processed + e.failed + n, v) /\ (u > 0 => Within(u, v))
  BY <1>2, <1>3, <1>4, <1>5
<1> HIDE DEF f
<1>7. Ledger("saveFailed", f, n, v)
  <2>1. Precedes(v, f)
    BY <1>1, <1>2, <1>6, PrecedesMore
  <2> QED BY <1>1, <1>3, <2>1 DEF Sound, Ledger
<1>8. Progress("saveFailed", f, v, u)
  BY <1>1, <1>6 DEF Progress, Awaits
<1>9. Answer("saveFailed", f, v, o)
  BY DEF Sound, Answer
<1>10. Evidence("saveFailed", f, n, v, u)
  BY <1>1, <1>5, <1>6 DEF Evidence
<1> QED BY <1>7, <1>8, <1>9, <1>10 DEF Sound, f

\* The source has no more pages: the execution is completed.
LEMMA SoundCompleted ==
  ASSUME NEW e, NEW n, NEW w, NEW o, NEW u,
         Typed(e, n, w, u), Sound("fetch", e, n, w, o, u)
  PROVE  Sound("saveFinal", Complete(e), n, w, o, u)
<1> DEFINE f == Complete(e)
<1>1. /\ f \in Execution /\ f.reprocessOf = e.reprocessOf
      /\ f.received = e.received /\ f.processed = e.processed
      /\ f.failed = e.failed
      /\ f.status \in {"completed", "completed_with_failures"}
      /\ Balanced(e) => Balanced(f)
  BY ClosedIs DEF Typed
<1>2. e.processed \in Nat /\ e.failed \in Nat /\ e.received \in Nat
      /\ u \in Nat /\ e \in Execution
  BY Counts DEF Typed
<1>3. /\ n = 0 /\ w # NoRow /\ Precedes(w, e)
  BY DEF Sound, Ledger, Progress, Awaits
<1> HIDE DEF f
<1>4. Ledger("saveFinal", f, n, w)
  <2>1. Precedes(w, f)
    BY <1>1, <1>2, <1>3, PrecedesMore
  <2> QED BY <1>1, <1>3, <2>1 DEF Sound, Ledger
<1>5. Progress("saveFinal", f, w, u)
  BY <1>1, <1>3 DEF Progress, Awaits
<1>6. Answer("saveFinal", f, w, o)
  BY DEF Sound, Answer
<1>7. Evidence("saveFinal", f, n, w, u)
  BY <1>1 DEF Sound, Evidence, Awaits
<1> QED BY <1>4, <1>5, <1>6, <1>7 DEF Sound, f

\* The last save, and what the caller is told of it.
LEMMA SoundClosed ==
  ASSUME NEW p \in {"saveFailed", "saveFinal"}, NEW e, NEW n, NEW w, NEW o,
         NEW u, Typed(e, n, w, u), Sound(p, e, n, w, o, u)
  PROVE  Sound("done", e, n, ToModel(e),
               IF p = "saveFinal" THEN "completed" ELSE "sync_failed", u)
<1> DEFINE v == ToModel(e)
           q == IF p = "saveFinal" THEN "completed" ELSE "sync_failed"
<1>1. /\ v # NoRow /\ Precedes(v, e) /\ v.status = e.status
      /\ \A m \in Nat : m <= e.processed + e.failed => Within(m, v)
  BY Written DEF Sound
<1>2. u \in Nat /\ u <= e.processed + e.failed /\ (u > 0 => PageSizes # {})
  BY DEF Sound, Evidence, Typed
<1>3. /\ p = "saveFailed" => e.status = "failed"
      /\ p = "saveFinal" =>
           e.status \in {"completed", "completed_with_failures"}
  BY DEF Sound, Progress
<1>4. Ledger("done", e, n, v)
  BY <1>1 DEF Sound, Ledger
<1>5. Progress("done", e, v, u)
  BY DEF Progress, Awaits
<1>6. Answer("done", e, v, q)
  BY <1>1, <1>3 DEF Answer
<1>7. Evidence("done", e, n, v, u)
  BY <1>1, <1>2 DEF Evidence, Awaits
<1> QED BY <1>4, <1>5, <1>6, <1>7 DEF Sound

\* A call that ends without an answer: its last save may have been stored,
\* and so may the product it was writing.
LEMMA SoundEnded ==
  ASSUME NEW p \in Awaits, NEW e, NEW n, NEW w, NEW o, NEW u,
         Typed(e, n, w, u), Sound(p, e, n, w, o, u),
         NEW q \in {"error", "crashed"}, NEW v, NEW x \in {u, u + 1},
         \/ v = w
         \/ v = ToModel(e) /\ p \in {"saveFailed", "saveFinal"},
         x = u \/ (p = "items" /\ n > 0)
  PROVE  Sound("done", e, n, v, q, x)
<1>1. /\ w # NoRow /\ Precedes(w, e) /\ u <= e.processed + e.failed
      /\ Within(e.processed + e.failed + n, w)
      /\ u > 0 => Within(u, w) /\ PageSizes # {}
      /\ p = "items" => PageSizes # {}
  BY DEF Sound, Ledger, Progress, Evidence, Awaits
<1>2. e.processed \in Nat /\ e.failed \in Nat /\ u \in Nat /\ n \in Nat
      /\ w \in Row
  BY <1>1, Counts DEF Typed
<1>3. v # NoRow /\ Precedes(v, e)
  BY <1>1, Written DEF Sound
<1>4. x > 0 => Within(x, v) /\ PageSizes # {}
  <2>1. CASE v = w /\ x = u
    BY <1>1, <2>1
  <2>2. CASE v = w /\ x = u + 1 /\ p = "items" /\ n > 0
    <3>1. /\ x \in Nat /\ e.processed + e.failed + n \in Nat
          /\ x <= e.processed + e.failed + n
      BY <1>1, <1>2, <2>2
    <3> QED BY <1>1, <1>2, <2>2, <3>1, WithinLess
  <2>3. CASE v = ToModel(e) /\ p \in {"saveFailed", "saveFinal"}
    <3>1. x = u
      BY <2>3
    <3>2. Within(u, ToModel(e))
      BY <1>1, <1>2, <2>3, Written DEF Sound
    <3> QED BY <1>1, <2>3, <3>1, <3>2
  <2> QED BY <2>1, <2>2, <2>3
<1>5. Ledger("done", e, n, v)
  BY <1>3 DEF Sound, Ledger
<1>6. Progress("done", e, v, x)
  BY DEF Progress, Awaits
<1>7. Answer("done", e, v, q)
  BY DEF Answer
<1>8. Evidence("done", e, n, v, x)
  BY <1>3, <1>4 DEF Evidence, Awaits
<1> QED BY <1>5, <1>6, <1>7, <1>8 DEF Sound

-----------------------------------------------------------------------------
(* Every step keeps every run sound. *)

LocalInv == \A r \in Runs : Local(r)

\* A step of one run touches nothing of the others.
Apart(r, s) ==
  /\ pc'[s] = pc[s] /\ exec'[s] = exec[s] /\ left'[s] = left[s]
  /\ row'[s] = row[s] /\ outcome'[s] = outcome[s]
  /\ upserted'[s] = upserted[s] /\ pages'[s] = pages[s]

LEMMA StepsApart ==
  ASSUME TypeOK, NEW r \in Runs, Start(r) \/ Step(r) \/ Crash(r),
         NEW s \in Runs \ {r}
  PROVE  Apart(r, s)
<1> USE DEF TypeOK, Goto, Return, WriteRow, Apart
<1>1. CASE Start(r)
  BY <1>1 DEF Start, StartFresh, StartReprocess, RejectUnknown, LookupRaises
<1>2. CASE Acquire(r) \/ AcquireRefused(r) \/ AcquireRaises(r)
  BY <1>2 DEF Acquire, AcquireRefused, AcquireRaises
<1>3. ASSUME NEW n \in PageSizes, ReceivePage(r, n) PROVE Apart(r, s)
  BY <1>3 DEF ReceivePage
<1>4. ASSUME NEW c \in Changes, ItemProcessed(r, c) PROVE Apart(r, s)
  BY <1>4 DEF ItemProcessed, NextItem
<1>5. ASSUME NEW f \in BOOLEAN, ItemFailed(r, f) PROVE Apart(r, s)
  BY <1>5 DEF ItemFailed, NextItem
<1>6. CASE SavePage(r) \/ SavePageRaises(r)
  BY <1>6 DEF SavePage, SavePageRaises, WriteRowMaybe
<1>7. CASE SourceRaises(r) \/ SourceExhausted(r)
  BY <1>7 DEF SourceRaises, SourceExhausted
<1>8. CASE SaveFailed(r) \/ SaveFinal(r) \/ ClosingSaveRaises(r)
  BY <1>8 DEF SaveFailed, SaveFinal, ClosingSaveRaises, WriteRowMaybe
<1>9. CASE Crash(r)
  BY <1>9 DEF Crash
<1> QED BY <1>1, <1>2, <1>3, <1>4, <1>5, <1>6, <1>7, <1>8, <1>9 DEF Step

LEMMA LocalInvInit == Init => LocalInv
<1> SUFFICES ASSUME Init, NEW r \in Runs PROVE Local(r)
  BY DEF LocalInv
<1>1. Sound("idle", NewExecution(None), 0, NoRow, "none", 0)
  BY SoundNew
<1> QED BY <1>1 DEF Init, Local

\* A step of r leaves r sound.
LEMMA LocalStep ==
  ASSUME TypeInv, NEW r \in Runs, Local(r), Start(r) \/ Step(r) \/ Crash(r)
  PROVE  Local(r)'
<1> DEFINE e == exec[r]  n == left[r]  w == row[r]  o == outcome[r]
           u == upserted[r]
<1>1. Typed(e, n, w, u) /\ Sound(pc[r], e, n, w, o, u)
  BY DEF TypeInv, TypeOK, Typed, Local
<1>2. pc[r] = "idle" => w = NoRow /\ n = 0 /\ u = 0 /\ o = "none"
  BY <1>1 DEF Sound, Ledger, Progress, Answer
<1> USE DEF TypeInv, TypeOK, Goto, Return, WriteRow, Local
<1>3. CASE Start(r)
  <2>1. CASE StartFresh(r)
    <3>1. Sound("acquire", NewExecution(None), 0, NoRow, "none", 0)
      BY SoundNew
    <3> QED BY <1>2, <2>1, <3>1 DEF StartFresh
  <2>2. ASSUME NEW q \in Runs, StartReprocess(r, q) PROVE Local(r)'
    <3>1. Sound("acquire", NewExecution(q), 0, NoRow, "none", 0)
      BY SoundNew
    <3> QED BY <1>2, <2>2, <3>1 DEF StartReprocess
  <2>3. CASE LookupRaises(r) \/ \E q \in Runs : RejectUnknown(r, q)
    BY <1>1, <2>3, SoundRefused DEF LookupRaises, RejectUnknown
  <2> QED BY <1>3, <2>1, <2>2, <2>3 DEF Start
<1>4. CASE Acquire(r) \/ SavePage(r)
  BY <1>1, <1>4, SoundStored DEF Acquire, SavePage
<1>5. CASE AcquireRefused(r)
  BY <1>1, <1>5, SoundRefused DEF AcquireRefused
<1>6. CASE AcquireRaises(r)
  BY <1>1, <1>6, SoundRefused, SoundInsertLost DEF AcquireRaises
<1>7. ASSUME NEW size \in PageSizes, ReceivePage(r, size) PROVE Local(r)'
  BY <1>1, <1>7, SoundReceived DEF ReceivePage
<1>8. ASSUME NEW c \in Changes, ItemProcessed(r, c) PROVE Local(r)'
  <2> DEFINE f == RegisterProcessed(e, c)
  <2>1. /\ pc[r] = "items" /\ n > 0 /\ e.status = "running"
        /\ Balanced(e) /\ e \in Execution
    BY <1>1, <1>8 DEF ItemProcessed, ItemsLeft, Sound, Ledger, Progress
  <2>2. /\ SameButCounts(f, e) /\ f.received = e.received /\ Balanced(f)
        /\ f.processed = e.processed + 1 /\ f.failed = e.failed
    BY <2>1, ProcessedIs
  <2>3. /\ exec'[r] = f /\ left'[r] = n - 1 /\ row'[r] = w
        /\ outcome'[r] = o /\ upserted'[r] = u + 1
        /\ pc'[r] = IF n = 1 THEN "save" ELSE "items"
    BY <1>8 DEF ItemProcessed, NextItem
  <2> HIDE DEF f
  <2>4. Sound(IF n = 1 THEN "save" ELSE "items", f, n - 1, w, o, u + 1)
    BY <1>1, <2>1, <2>2, SoundItem
  <2> QED BY <2>3, <2>4
<1>9. ASSUME NEW fits \in BOOLEAN, ItemFailed(r, fits) PROVE Local(r)'
  <2> DEFINE f == RegisterItemFailure(e, fits)
  <2>1. /\ pc[r] = "items" /\ n > 0 /\ e.status = "running"
        /\ Balanced(e) /\ e \in Execution
    BY <1>1, <1>9 DEF ItemFailed, ItemsLeft, Sound, Ledger, Progress
  <2>2. /\ SameButCounts(f, e) /\ f.received = e.received /\ Balanced(f)
        /\ f.processed = e.processed /\ f.failed = e.failed + 1
    BY <2>1, FailureIs
  <2>3. /\ exec'[r] = f /\ left'[r] = n - 1 /\ row'[r] = w
        /\ outcome'[r] = o /\ upserted'[r] \in {u, u + 1}
        /\ pc'[r] = IF n = 1 THEN "save" ELSE "items"
    BY <1>9 DEF ItemFailed, NextItem
  <2> HIDE DEF f
  <2>4. Sound(IF n = 1 THEN "save" ELSE "items", f, n - 1, w, o, upserted'[r])
    BY <1>1, <2>1, <2>2, <2>3, SoundItem
  <2> QED BY <2>3, <2>4
<1>10. CASE SavePageRaises(r) \/ SourceRaises(r)
  <2>1. /\ pc[r] \in {"fetch", "save"} /\ pc'[r] = "saveFailed"
        /\ exec'[r] = Fail(e) /\ row'[r] \in {w, ToModel(e)}
        /\ left'[r] = n /\ outcome'[r] = o /\ upserted'[r] = u
    BY <1>10 DEF SavePageRaises, SourceRaises, WriteRowMaybe
  <2> QED BY <1>1, <2>1, SoundAborted
<1>11. CASE SourceExhausted(r)
  BY <1>1, <1>11, SoundCompleted DEF SourceExhausted
<1>12. CASE SaveFailed(r) \/ SaveFinal(r)
  BY <1>1, <1>12, SoundClosed DEF SaveFailed, SaveFinal
<1>13. CASE ClosingSaveRaises(r)
  <2>1. /\ pc[r] \in {"saveFailed", "saveFinal"} /\ pc'[r] = "done"
        /\ row'[r] \in {w, ToModel(e)} /\ outcome'[r] = "error"
        /\ exec'[r] = e /\ left'[r] = n /\ upserted'[r] = u
    BY <1>13 DEF ClosingSaveRaises, WriteRowMaybe
  <2>2. pc[r] \in Awaits
    BY <2>1 DEF Awaits
  <2> QED BY <1>1, <2>1, <2>2, SoundEnded
<1>14. CASE Crash(r)
  <2>1. /\ pc'[r] = "done" /\ row'[r] = w /\ outcome'[r] = "crashed"
        /\ exec'[r] = e /\ left'[r] = n /\ upserted'[r] \in {u, u + 1}
        /\ upserted'[r] = u \/ (pc[r] = "items" /\ n > 0)
    BY <1>14 DEF Crash, ItemsLeft
  <2>2. CASE pc[r] = "acquire"
    BY <1>1, <2>1, <2>2, SoundRefused
  <2>3. CASE pc[r] \in Awaits
    BY <1>1, <2>1, <2>3, SoundEnded
  <2> QED BY <1>14, <2>2, <2>3 DEF Crash
<1> QED
  BY <1>3, <1>4, <1>5, <1>6, <1>7, <1>8, <1>9, <1>10, <1>11, <1>12, <1>13,
     <1>14 DEF Step

LEMMA LocalInvNext == TypeInv /\ LocalInv /\ [Next]_vars => LocalInv'
<1> SUFFICES ASSUME TypeInv, LocalInv, [Next]_vars, NEW s \in Runs
             PROVE  Local(s)'
  BY DEF LocalInv
<1>1. Local(s)
  BY DEF LocalInv
<1>2. CASE UNCHANGED vars
  BY <1>1, <1>2 DEF vars, Local
<1>3. ASSUME NEW r \in Runs, Start(r) \/ Step(r) \/ Crash(r)
      PROVE  Local(s)'
  <2>1. CASE r = s
    BY <1>1, <1>3, <2>1, LocalStep
  <2>2. CASE r # s
    <3>1. Apart(r, s)
      BY <1>3, <2>2, StepsApart DEF TypeInv
    <3> QED BY <1>1, <3>1 DEF Apart, Local
  <2> QED BY <2>1, <2>2
<1> QED BY <1>2, <1>3 DEF Next, AllDone

LEMMA LocalInvariant == Spec => []LocalInv
  BY TypeInvariant, LocalInvInit, LocalInvNext, PTL DEF Spec

\* Every row ever stored accounts for all its execution received, for any
\* sizes of the pages and any faults.
THEOREM LedgerBalances == Spec => []StoredCountsBalance
<1>1. LocalInv => StoredCountsBalance
  BY DEF LocalInv, Local, Sound, Ledger, Precedes, Balanced,
     StoredCountsBalance
<1> QED BY <1>1, LocalInvariant, PTL

\* However large the pages, the products written without evidence are those
\* of one page.
THEOREM OnePageOfEvidence == Spec => []EvidenceLagsOnePage
<1>1. TypeOK /\ LocalInv => EvidenceLagsOnePage
  <2> SUFFICES ASSUME TypeOK, LocalInv, NEW r \in Runs, upserted[r] > 0
               PROVE  /\ row[r] # NoRow
                      /\ \E n \in PageSizes :
                           upserted[r] <= row[r].processed + row[r].failed + n
    BY DEF EvidenceLagsOnePage
  <2>1. row[r] # NoRow /\ Within(upserted[r], row[r]) /\ PageSizes # {}
    BY DEF LocalInv, Local, Sound, Evidence
  <2>2. row[r] \in Row /\ upserted[r] \in Nat
    BY <2>1 DEF TypeOK
  <2>3. CASE upserted[r] <= row[r].processed + row[r].failed
    <3>1. PICK n \in PageSizes : n \in Nat
      BY <2>1, PageSizeType
    <3>2. upserted[r] <= row[r].processed + row[r].failed + n
      BY <2>2, <2>3, <3>1, Counts
    <3> QED BY <2>1, <3>2
  <2> QED BY <2>1, <2>3 DEF Within
<1> QED BY <1>1, LocalInvariant, TypeCorrect, PTL

\* Whatever else happens after an answer was given, the database says what
\* it said.
THEOREM AnswersAreStored == Spec => []AnswerMatchesStore
<1>1. TypeOK /\ LocalInv => AnswerMatchesStore
  <2> SUFFICES ASSUME TypeOK, LocalInv, NEW r \in Runs
               PROVE
    /\ outcome[r] = "completed" =>
         /\ row[r] = ToModel(exec[r])
         /\ row[r].status \in {"completed", "completed_with_failures"}
    /\ outcome[r] = "sync_failed" =>
         row[r] # NoRow /\ row[r].status = "failed"
    /\ outcome[r] \in {"already_running", "not_found"} => row[r] = NoRow
    /\ HoldsSlot(r) /\ pc[r] = "done" => outcome[r] \in {"error", "crashed"}
    BY DEF AnswerMatchesStore
  <2>1. /\ Answer(pc[r], exec[r], row[r], outcome[r])
        /\ row[r] # NoRow => Precedes(row[r], exec[r])
    BY DEF LocalInv, Local, Sound, Ledger
  <2>2. ToModel(exec[r]).status = exec[r].status
    BY Zenon DEF ToModel
  <2>3. HoldsSlot(r) => row[r] # NoRow /\ row[r].status = "running"
    BY <2>1, Zenon DEF HoldsSlot, Precedes
  <2> QED BY <2>1, <2>2, <2>3 DEF Answer
<1> QED BY <1>1, LocalInvariant, TypeCorrect, PTL

-----------------------------------------------------------------------------
(* The rows, written only from their executions. *)

\* The row of a run changes only into the present state of its execution:
\* when it takes the free slot, or at a save while it works.
RowWritten(r) ==
  /\ row'[r] = ToModel(exec[r])
  /\ \/ pc[r] = "acquire" /\ ~SlotTaken
     \/ pc[r] \in {"save", "saveFailed", "saveFinal"}

LEMMA RowsWritten ==
  ASSUME TypeOK, [Next]_vars, NEW r \in Runs
  PROVE  row'[r] = row[r] \/ RowWritten(r)
<1>1. CASE UNCHANGED vars
  BY <1>1 DEF vars
<1>2. ASSUME NEW s \in Runs, s # r, Start(s) \/ Step(s) \/ Crash(s)
      PROVE  row'[r] = row[r]
  BY <1>2, StepsApart DEF Apart
<1>3. CASE Start(r) \/ Crash(r)
  BY <1>3 DEF Start, StartFresh, StartReprocess, RejectUnknown, LookupRaises,
     Crash
<1>4. CASE Step(r)
  BY <1>4
     DEF TypeOK, Step, Acquire, AcquireRefused, AcquireRaises, ReceivePage,
         ItemProcessed, ItemFailed, SavePage, SavePageRaises, SourceRaises,
         SourceExhausted, SaveFailed, SaveFinal, ClosingSaveRaises,
         WriteRowMaybe, WriteRow, RowWritten
<1> QED BY <1>1, <1>2, <1>3, <1>4 DEF Next, AllDone

\* No save takes back what an earlier one stored, and a row that was closed
\* is never written again.
THEOREM EvidenceIsKept == Spec => EvidenceOnlyGrows
<1>1. TypeOK /\ SlotInv /\ LocalInv /\ [Next]_vars
        => [\A r \in Runs : RowKeepsEvidence(r)]_vars
  <2> SUFFICES ASSUME TypeOK, SlotInv, LocalInv, [Next]_vars, NEW r \in Runs,
                      row[r] # NoRow
               PROVE  /\ row'[r] # NoRow
                      /\ row'[r].reprocessOf = row[r].reprocessOf
                      /\ row'[r].received >= row[r].received
                      /\ row'[r].processed >= row[r].processed
                      /\ row'[r].failed >= row[r].failed
                      /\ row[r].status # "running" => row'[r] = row[r]
    BY DEF RowKeepsEvidence
  <2>1. row[r] \in Row /\ exec[r] \in Execution
    BY DEF TypeOK
  <2>2. Precedes(row[r], exec[r]) /\ (pc[r] = "acquire" => row[r] = NoRow)
    BY DEF LocalInv, Local, Sound, Ledger, Progress
  <2>3. CASE row'[r] = row[r]
    BY <2>1, <2>3, Counts
  <2>4. CASE RowWritten(r)
    <3>1. pc[r] \in Awaits /\ row'[r] = ToModel(exec[r])
      BY <2>2, <2>4 DEF RowWritten, Awaits
    <3>2. row[r].status = "running"
      BY <2>2, <3>1, Zenon
         DEF SlotInv, WorkingHolds, Working, HoldsSlot, Precedes
    <3>3. /\ ToModel(exec[r]).received = exec[r].received
          /\ ToModel(exec[r]).processed = exec[r].processed
          /\ ToModel(exec[r]).failed = exec[r].failed
          /\ ToModel(exec[r]).reprocessOf = exec[r].reprocessOf
      BY Zenon DEF ToModel
    <3>4. ToModel(exec[r]) # NoRow
      BY <2>1, StoredModel
    <3> QED BY <2>1, <2>2, <3>1, <3>2, <3>3, <3>4, Counts DEF Precedes
  <2> QED BY <2>3, <2>4, RowsWritten
<1> QED BY <1>1, TypeCorrect, SlotInvariant, LocalInvariant, PTL
         DEF Spec, EvidenceOnlyGrows

-----------------------------------------------------------------------------
(* The execution a run reprocesses. *)

\* Who reprocesses an execution found its row, and once it has a row itself
\* that execution gave the slot back.
Linked ==
  \A r, p \in Runs : exec[r].reprocessOf = p =>
    row[p] # NoRow /\ (row[r] # NoRow => ~HoldsSlot(p))

LEMMA LinkedInit == Init => Linked
<1>1. NewExecution(None).reprocessOf = None
  BY NewIs
<1> QED BY <1>1, ConfigAssumption DEF Init, Linked

\* No operation changes the execution that is reprocessed, once it is made.
LEMMA LinksKept ==
  ASSUME TypeInv, LocalInv, [Next]_vars, NEW r \in Runs
  PROVE  \/ exec'[r].reprocessOf = exec[r].reprocessOf
         \/ /\ row'[r] = NoRow
            /\ \/ exec'[r].reprocessOf = None
               \/ row[exec'[r].reprocessOf] # NoRow
<1>1. CASE UNCHANGED vars
  BY <1>1 DEF vars
<1>2. ASSUME NEW s \in Runs, s # r, Start(s) \/ Step(s) \/ Crash(s)
      PROVE  exec'[r] = exec[r]
  BY <1>2, StepsApart DEF Apart, TypeInv
<1>3. CASE Start(r)
  <2>1. pc[r] = "idle" /\ row' = row /\ row[r] = NoRow
    BY <1>3 DEF Start, StartFresh, StartReprocess, RejectUnknown,
       LookupRaises, LocalInv, Local, Sound, Progress
  <2> QED BY <1>3, <2>1, NewIs
          DEF Start, StartFresh, StartReprocess, RejectUnknown, LookupRaises,
              TypeInv, TypeOK
<1>4. CASE Step(r) \/ Crash(r)
  <2>1. exec[r] \in Execution
    BY DEF TypeInv, TypeOK
  <2>2. ASSUME NEW n \in PageSizes, ReceivePage(r, n)
        PROVE  exec'[r].reprocessOf = exec[r].reprocessOf
    BY <2>1, <2>2, PageSizeType, ReceivedIs
       DEF ReceivePage, TypeInv, TypeOK, SameButCounts
  <2>3. ASSUME NEW c \in Changes, ItemProcessed(r, c)
        PROVE  exec'[r].reprocessOf = exec[r].reprocessOf
    BY <2>1, <2>3, ProcessedIs
       DEF ItemProcessed, TypeInv, TypeOK, SameButCounts
  <2>4. ASSUME NEW f \in BOOLEAN, ItemFailed(r, f)
        PROVE  exec'[r].reprocessOf = exec[r].reprocessOf
    <3>1. exec[r].status = "running"
      BY <2>4 DEF ItemFailed, LocalInv, Local, Sound, Progress
    <3> QED BY <2>1, <2>4, <3>1, FailureIs
            DEF ItemFailed, TypeInv, TypeOK, SameButCounts
  <2>5. CASE SavePageRaises(r) \/ SourceRaises(r) \/ SourceExhausted(r)
    BY <2>1, <2>5, ClosedIs
       DEF SavePageRaises, SourceRaises, SourceExhausted, TypeInv, TypeOK
  <2>6. CASE exec' = exec
    BY <2>6
  <2> QED BY <1>4, <2>2, <2>3, <2>4, <2>5, <2>6
          DEF Step, Crash, Acquire, AcquireRefused, AcquireRaises, SavePage,
              SaveFailed, SaveFinal, ClosingSaveRaises
<1> QED BY <1>1, <1>2, <1>3, <1>4 DEF Next, AllDone

\* A row is never deleted, and a row that gave the slot back does not hold it
\* again.
LEMMA RowsLast ==
  ASSUME TypeInv, SlotInv, LocalInv, [Next]_vars, NEW p \in Runs,
         row[p] # NoRow
  PROVE  row'[p] # NoRow /\ (HoldsSlot(p)' => HoldsSlot(p))
<1>1. CASE row'[p] = row[p]
  BY <1>1 DEF HoldsSlot
<1>2. CASE RowWritten(p)
  <2>1. row'[p] = ToModel(exec[p]) /\ exec[p] \in Execution
    BY <1>2 DEF RowWritten, TypeInv, TypeOK
  <2>2. pc[p] # "acquire"
    BY DEF LocalInv, Local, Sound, Progress
  <2>3. HoldsSlot(p)
    BY <1>2, <2>2 DEF RowWritten, SlotInv, WorkingHolds, Working, Awaits
  <2> QED BY <2>1, <2>3, StoredModel
<1> QED BY <1>1, <1>2, RowsWritten DEF TypeInv

LEMMA LinkedNext ==
  TypeInv /\ SlotInv /\ LocalInv /\ Linked /\ [Next]_vars => Linked'
<1> SUFFICES ASSUME TypeInv, SlotInv, LocalInv, Linked, [Next]_vars,
                    NEW r \in Runs, NEW p \in Runs,
                    exec'[r].reprocessOf = p
             PROVE  row'[p] # NoRow /\ (row'[r] # NoRow => ~HoldsSlot(p)')
  BY DEF Linked, HoldsSlot
<1>1. row[p] # NoRow
  BY LinksKept, ConfigAssumption DEF Linked
<1>2. row'[p] # NoRow /\ (HoldsSlot(p)' => HoldsSlot(p))
  BY <1>1, RowsLast
<1>3. ASSUME row'[r] # NoRow PROVE ~HoldsSlot(p)
  <2>1. exec[r].reprocessOf = p
    BY <1>3, LinksKept
  <2>2. CASE row[r] # NoRow
    BY <2>1, <2>2 DEF Linked
  <2>3. CASE row[r] = NoRow
    <3>1. RowWritten(r) /\ pc[r] \notin Awaits
      BY <1>3, <2>3, RowsWritten
         DEF TypeInv, LocalInv, Local, Sound, Progress
    <3>2. ~SlotTaken
      BY <3>1 DEF RowWritten, Awaits
    <3> QED BY <3>2 DEF SlotTaken
  <2> QED BY <2>2, <2>3
<1> QED BY <1>2, <1>3

LEMMA LinkedInvariant == Spec => []Linked
  BY TypeInvariant, SlotInvariant, LocalInvariant, LinkedInit, LinkedNext, PTL
     DEF Spec

\* No stored execution reprocesses one that still holds the slot, although
\* nothing asks whether it is over.
THEOREM ReprocessesTheClosed == Spec => []ReprocessedIsClosed
<1>1. LocalInv /\ Linked => ReprocessedIsClosed
  BY DEF LocalInv, Local, Sound, Ledger, Precedes, Linked, ReprocessedIsClosed
<1> QED BY <1>1, LocalInvariant, LinkedInvariant, PTL
=============================================================================
