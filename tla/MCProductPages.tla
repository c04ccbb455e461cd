--------------------------- MODULE MCProductPages ---------------------------
(* Instances of ProductPages for TLC. *)
EXTENDS ProductPages

Base == [
  read |-> "pages", mode |-> "none", infer |-> FALSE, configured |-> TRUE,
  server |-> "honest", size |-> 0, growth |-> 0, cap |-> 9 ]

\* Honest servers with catalogs of up to seven items that honour the limit of
\* a page or send one item at a time.
FixedCatalogs ==
  { [Base EXCEPT !.mode = m, !.infer = i, !.size = n, !.cap = c] :
      m \in Modes, i \in BOOLEAN, n \in 0..7, c \in {1, 9} }

\* Honest servers whose catalog gains items while it is read.
GrowingCatalogs ==
  { [Base EXCEPT !.mode = m, !.infer = i, !.size = n, !.growth = 2] :
      m \in Modes, i \in BOOLEAN, n \in 2..3 }

HonestConfigurations == FixedCatalogs \cup GrowingCatalogs

ArbitraryConfigurations ==
  { [Base EXCEPT !.mode = m, !.infer = i, !.configured = c,
                 !.server = "arbitrary"] :
      m \in Modes, i \in BOOLEAN, c \in BOOLEAN }

ObjectConfigurations ==
  { [Base EXCEPT !.read = "object", !.configured = c, !.server = "arbitrary"] :
      c \in BOOLEAN }

AllConfigurations ==
  HonestConfigurations \cup ArbitraryConfigurations \cup ObjectConfigurations
=============================================================================
