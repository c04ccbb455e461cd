--------------------------- MODULE MCCatalogImport ---------------------------
(* Instances of CatalogImport for TLC. *)
EXTENDS CatalogImport

SomeFaults == {"source", "db", "crash"}

ItemNumbers == 0..2

Base == [
  read |-> "pages", mode |-> "page", infer |-> FALSE, configured |-> TRUE,
  server |-> "honest", size |-> 2, growth |-> 0, cap |-> 9 ]

\* One page of two items, pages of one item, a catalog that gains an item
\* while it is read, so that an item is sent twice, and a server that sends
\* anything, with links that no request can be made of.
Servers == {
  [Base EXCEPT !.mode = "none"],
  [Base EXCEPT !.mode = "page"],
  [Base EXCEPT !.mode = "offset", !.infer = TRUE, !.size = 1, !.growth = 1],
  [Base EXCEPT !.mode = "link", !.server = "arbitrary", !.size = 0] }

\* A table that knows the first item, of an older snapshot.
SomeTables ==
  { [i \in ItemNumbers |-> IF i = 1 THEN "stale" ELSE "absent"] }
=============================================================================
