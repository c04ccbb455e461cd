------------------------------ MODULE SyncSlot ------------------------------
(***************************************************************************)
(* What the catalog synchronization promises about its active slot: an     *)
(* execution is new, then it either begins, when nobody holds the slot, or *)
(* ends without ever beginning; the execution that began is the only       *)
(* holder until it ends.  A holder may also be abandoned: its process is   *)
(* gone or never learned that it holds the slot, and then the slot is held *)
(* for good, because nothing in the code takes it back.                    *)
(***************************************************************************)
CONSTANT Runs

VARIABLE phase    \* phase[r]: "new", "active", "abandoned" or "ended"

Phases == {"new", "active", "abandoned", "ended"}

\* The slot is held by r, whether or not r is still being executed.
Holder(r) == phase[r] \in {"active", "abandoned"}

SlotFree == \A r \in Runs : ~Holder(r)

Init == phase = [r \in Runs |-> "new"]

Move(r, p) == phase' = [phase EXCEPT ![r] = p]

Begin(r) == phase[r] = "new" /\ SlotFree /\ Move(r, "active")

\* Insert committed, acknowledgement lost: held by an execution nobody runs.
BeginAbandoned(r) == phase[r] = "new" /\ SlotFree /\ Move(r, "abandoned")

Decline(r) == phase[r] = "new" /\ Move(r, "ended")

End(r) == phase[r] = "active" /\ Move(r, "ended")

Abandon(r) == phase[r] = "active" /\ Move(r, "abandoned")

Next == \E r \in Runs :
  Begin(r) \/ BeginAbandoned(r) \/ Decline(r) \/ End(r) \/ Abandon(r)

Spec == Init /\ [][Next]_phase

AtMostOneHolder == \A r, s \in Runs : Holder(r) /\ Holder(s) => r = s
=============================================================================
