------------------------------ MODULE PageFeed ------------------------------
(***************************************************************************)
(* What iterating a product source promises: the items of the catalog are  *)
(* handed out piece by piece, in order, none twice and none skipped, and   *)
(* the iteration is over, successfully, only when all were handed out.     *)
(***************************************************************************)
EXTENDS Naturals, Sequences

VARIABLES
  catalog,     \* the items of the source, in its order
  handed,      \* the items handed out so far
  status       \* "open", "whole" or "broken"

vars == <<catalog, handed, status>>

Init ==
  /\ catalog \in Seq(Nat)
  /\ handed = << >>
  /\ status = "open"

HandOut ==
  /\ status = "open"
  /\ \E n \in Len(handed)..Len(catalog) : handed' = SubSeq(catalog, 1, n)
  /\ UNCHANGED <<catalog, status>>

Finish ==
  /\ status = "open"
  /\ handed = catalog
  /\ status' = "whole"
  /\ UNCHANGED <<catalog, handed>>

Break ==
  /\ status = "open"
  /\ status' = "broken"
  /\ UNCHANGED <<catalog, handed>>

Next == HandOut \/ Finish \/ Break

Spec == Init /\ [][Next]_vars
=============================================================================
