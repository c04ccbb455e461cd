------------------------------ MODULE MCUsers ------------------------------
(* Instances of Users for TLC. *)
EXTENDS Users, TLC

\* "a" and "A" are two spellings of one mailbox; "x" is not an address.
MCAddresses == {"a", "A", "b", "x"}
MCNormalized ==
  [s \in MCAddresses |->
     CASE s \in {"a", "A"} -> "a" [] s = "b" -> "b" [] s = "x" -> None]

\* Both have the greater name, so that a rename may sort one before the other.
Ann == [name |-> 2, email |-> "a", active |-> TRUE, createdAt |-> 0]
Bob == [name |-> 2, email |-> "b", active |-> TRUE, createdAt |-> 0]

Table(stored) ==
  [i \in Ids |-> IF i \in DOMAIN stored THEN stored[i] ELSE None]

Empty == {Table(<< >>)}
OneUser == {Table(<<Ann>>)}
TwoUsers == {Table(<<Ann, Bob>>)}

Updates == {"rename", "deactivate"}
AllOperations == {"create", "rename", "deactivate", "list"}
EmptyOrTwo == Empty \cup TwoUsers

Symmetry == Permutations(Calls)
=============================================================================
