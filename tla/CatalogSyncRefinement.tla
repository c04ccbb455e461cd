----------------------- MODULE CatalogSyncRefinement -----------------------
(***************************************************************************)
(* The synchronization implements its abstract slot, SyncSlot, for any     *)
(* number of runs, any pages and any faults: every step of a run maps to   *)
(* one step of the slot, or to none.                                       *)
(***************************************************************************)
EXTENDS CatalogSyncEvidence

Inv == TypeInv /\ SlotInv /\ LocalInv

\* What the phases say of a row and of its run.
LEMMA PhaseIs ==
  ASSUME NEW r
  PROVE  /\ row[r] = NoRow /\ pc[r] # "done" => PhaseOf(r) = "new"
         /\ HoldsSlot(r) /\ pc[r] # "done" => PhaseOf(r) = "active"
         /\ HoldsSlot(r) /\ pc[r] = "done" => PhaseOf(r) = "abandoned"
         /\ ~HoldsSlot(r) /\ pc[r] = "done" => PhaseOf(r) = "ended"
         /\ PhaseOf(r) \in {"active", "abandoned"} => HoldsSlot(r)
<1>1. HoldsSlot(r) => row[r] # NoRow
  BY DEF HoldsSlot
<1> QED BY <1>1 DEF PhaseOf

\* The same of the next state.
LEMMA NextPhaseIs ==
  ASSUME NEW r
  PROVE  /\ row'[r] = NoRow /\ pc'[r] # "done" => PhaseOf(r)' = "new"
         /\ HoldsSlot(r)' /\ pc'[r] # "done" => PhaseOf(r)' = "active"
         /\ HoldsSlot(r)' /\ pc'[r] = "done" => PhaseOf(r)' = "abandoned"
         /\ ~HoldsSlot(r)' /\ pc'[r] = "done" => PhaseOf(r)' = "ended"
<1>1. HoldsSlot(r)' => row'[r] # NoRow
  BY DEF HoldsSlot
<1> QED BY <1>1 DEF PhaseOf

\* What a step of a run does to its phase.
Moves(r) ==
  \/ PhaseOf(r)' = PhaseOf(r)
  \/ PhaseOf(r) = "new" /\ PhaseOf(r)' = "ended"
  \/ /\ PhaseOf(r) = "new" /\ ~SlotTaken
     /\ PhaseOf(r)' \in {"active", "abandoned"}
  \/ PhaseOf(r) = "active" /\ PhaseOf(r)' \in {"ended", "abandoned"}

LEMMA StepMoves ==
  ASSUME Inv, NEW r \in Runs, Start(r) \/ Step(r) \/ Crash(r)
  PROVE  Moves(r)
<1>1. /\ pc[r] \in {"idle", "acquire"} => row[r] = NoRow /\ ~HoldsSlot(r)
      /\ pc[r] \in Awaits => HoldsSlot(r)
      /\ pc[r] = "acquire" => exec[r].status = "running"
      /\ pc[r] = "save" => exec[r].status = "running"
      /\ pc[r] \in {"saveFailed", "saveFinal"} => exec[r].status # "running"
  BY DEF Inv, SlotInv, WorkingHolds, Working, LocalInv, Local, Sound, Progress,
     HoldsSlot
<1>2. WriteRow(r) => (HoldsSlot(r)' <=> exec[r].status = "running")
  BY WriteRowSlot DEF Inv, TypeInv
<1>3. row' = row => row'[r] = row[r] /\ (HoldsSlot(r)' <=> HoldsSlot(r))
  BY DEF HoldsSlot
<1> USE DEF Inv, TypeInv, TypeOK, Goto, Return, Moves
<1>4. CASE Start(r)
  <2>1. /\ PhaseOf(r) = "new" /\ row' = row /\ row[r] = NoRow
        /\ ~HoldsSlot(r)
    BY <1>1, <1>4, PhaseIs
       DEF Start, StartFresh, StartReprocess, RejectUnknown, LookupRaises
  <2>2. pc'[r] \in {"acquire", "done"}
    BY <1>4
       DEF Start, StartFresh, StartReprocess, RejectUnknown, LookupRaises
  <2> QED BY <1>3, <2>1, <2>2, NextPhaseIs
<1>5. CASE Acquire(r) \/ AcquireRefused(r) \/ AcquireRaises(r)
  <2>1. PhaseOf(r) = "new" /\ pc[r] = "acquire" /\ ~HoldsSlot(r)
    BY <1>1, <1>5, PhaseIs DEF Acquire, AcquireRefused, AcquireRaises
  <2>2. CASE Acquire(r)
    <3>1. ~SlotTaken /\ HoldsSlot(r)' /\ pc'[r] = "fetch"
      BY <1>1, <1>2, <2>1, <2>2 DEF Acquire
    <3> QED BY <2>1, <3>1, NextPhaseIs
  <2>3. CASE pc'[r] = "done" /\ row' = row
    BY <1>3, <2>1, <2>3, NextPhaseIs
  <2>4. CASE pc'[r] = "done" /\ ~SlotTaken /\ WriteRow(r)
    BY <1>1, <1>2, <2>1, <2>4, NextPhaseIs
  <2> QED BY <1>5, <2>2, <2>3, <2>4 DEF AcquireRefused, AcquireRaises
<1>6. CASE pc[r] \in Awaits /\ row' = row
  <2>1. PhaseOf(r) = "active"
    BY <1>1, <1>6, PhaseIs DEF Awaits
  <2> QED BY <1>1, <1>3, <1>6, <2>1, NextPhaseIs
<1>7. CASE SavePage(r) \/ SavePageRaises(r)
  <2>1. /\ pc[r] = "save" /\ PhaseOf(r) = "active"
        /\ pc'[r] \in {"fetch", "saveFailed"} /\ (row' = row \/ WriteRow(r))
    BY <1>1, <1>7, PhaseIs DEF SavePage, SavePageRaises, WriteRowMaybe, Awaits
  <2>2. HoldsSlot(r)'
    BY <1>1, <1>2, <1>3, <2>1 DEF Awaits
  <2> QED BY <2>1, <2>2, NextPhaseIs
<1>8. CASE SaveFailed(r) \/ SaveFinal(r) \/ ClosingSaveRaises(r)
  <2>1. /\ pc[r] \in {"saveFailed", "saveFinal"} /\ PhaseOf(r) = "active"
        /\ pc'[r] = "done" /\ (row' = row \/ WriteRow(r))
    BY <1>1, <1>8, PhaseIs
       DEF SaveFailed, SaveFinal, ClosingSaveRaises, WriteRowMaybe, Awaits
  <2> QED BY <2>1, NextPhaseIs
<1>9. CASE Crash(r) /\ pc[r] = "acquire"
  BY <1>1, <1>3, <1>9, PhaseIs, NextPhaseIs DEF Crash
<1> QED
  BY <1>4, <1>5, <1>6, <1>7, <1>8, <1>9
     DEF Step, Crash, ReceivePage, ItemProcessed, ItemFailed, SourceRaises,
         SourceExhausted, Awaits

\* A run that takes no step keeps its phase.
LEMMA ApartKeepsPhase ==
  ASSUME NEW r \in Runs, NEW s \in Runs, Apart(r, s)
  PROVE  PhaseOf(s)' = PhaseOf(s)
  BY DEF Apart, PhaseOf, HoldsSlot

\* The slot is free in the abstract exactly when no row holds it.
LEMMA FreeIsFree == ~SlotTaken => Slot!SlotFree
<1> SUFFICES ASSUME ~SlotTaken, NEW r \in Runs
             PROVE  PhaseOf(r) \notin {"active", "abandoned"}
  BY DEF Slot!SlotFree, Slot!Holder
<1> QED BY PhaseIs DEF SlotTaken

LEMMA SlotInit == Init => Slot!Init
<1> SUFFICES ASSUME Init, NEW r \in Runs PROVE PhaseOf(r) = "new"
  BY DEF Slot!Init
<1> QED BY PhaseIs DEF Init

LEMMA SlotNext ==
  Inv /\ [Next]_vars => [Slot!Next]_([r \in Runs |-> PhaseOf(r)])
<1> DEFINE phase == [r \in Runs |-> PhaseOf(r)]
<1> SUFFICES ASSUME Inv, [Next]_vars PROVE Slot!Next \/ phase' = phase
  OBVIOUS
<1>1. CASE UNCHANGED vars
  BY <1>1 DEF vars, PhaseOf, HoldsSlot
<1>2. ASSUME NEW r \in Runs, Start(r) \/ Step(r) \/ Crash(r)
      PROVE  Slot!Next \/ phase' = phase
  <2>1. \A s \in Runs \ {r} : PhaseOf(s)' = PhaseOf(s)
    BY <1>2, StepsApart, ApartKeepsPhase DEF Inv, TypeInv
  <2>2. \A q : PhaseOf(r)' = q => phase' = [phase EXCEPT ![r] = q]
    BY <2>1
  <2>3. phase[r] = PhaseOf(r) /\ Moves(r)
    BY <1>2, StepMoves
  <2>4. CASE PhaseOf(r)' = PhaseOf(r)
    BY <2>1, <2>4
  <2>5. CASE PhaseOf(r) = "new" /\ PhaseOf(r)' = "ended"
    <3>1. Slot!Decline(r)
      BY <2>2, <2>3, <2>5 DEF Slot!Decline, Slot!Move
    <3> QED BY <3>1 DEF Slot!Next
  <2>6. CASE /\ PhaseOf(r) = "new" /\ ~SlotTaken
             /\ PhaseOf(r)' \in {"active", "abandoned"}
    <3>1. Slot!Begin(r) \/ Slot!BeginAbandoned(r)
      BY <2>2, <2>3, <2>6, FreeIsFree
         DEF Slot!Begin, Slot!BeginAbandoned, Slot!Move
    <3> QED BY <3>1 DEF Slot!Next
  <2>7. CASE PhaseOf(r) = "active" /\ PhaseOf(r)' \in {"ended", "abandoned"}
    <3>1. Slot!End(r) \/ Slot!Abandon(r)
      BY <2>2, <2>3, <2>7 DEF Slot!End, Slot!Abandon, Slot!Move
    <3> QED BY <3>1 DEF Slot!Next
  <2> QED BY <2>3, <2>4, <2>5, <2>6, <2>7 DEF Moves
<1> QED BY <1>1, <1>2 DEF Next, AllDone

\* The use case and its repository implement the slot: only a free slot is
\* taken, only its holder gives it back, and it gives it back once.
THEOREM SlotImplemented == Spec => ImplementsSlot
<1>1. Spec => []Inv
  BY TypeInvariant, SlotInvariant, LocalInvariant, PTL DEF Inv
<1> QED BY <1>1, SlotInit, SlotNext, PTL DEF Spec, ImplementsSlot, Slot!Spec
=============================================================================
