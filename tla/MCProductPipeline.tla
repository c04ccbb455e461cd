------------------------- MODULE MCProductPipeline -------------------------
(* Instances of ProductPipeline for TLC. *)
EXTENDS ProductPipeline

\* " p1" is p1 in another spelling, "n~" is n in a compatible one, "q q" has a
\* space inside, "u", "u#", "u #" and "h #" are URLs, the last of a host that is
\* a space, and "brl" and "BRL" have three letters.
MCTexts == {"", " ", "p1", " p1", "p2", "q q", "m", "n", "n~", "u", "u#",
            "u #", "u ", "h #", "h ", "h", "brl", "BRL", "long", "fallback"}
MCStrip ==
  [t \in MCTexts |->
     CASE t = " " -> "" [] t = " p1" -> "p1" [] t = "u " -> "u" [] t = "h " -> "h"
       [] OTHER -> t]
MCClean == [t \in MCTexts |-> IF t = "n~" THEN "n" ELSE MCStrip[t]]
MCUpper == [t \in MCTexts |-> IF t = "brl" THEN "BRL" ELSE MCStrip[t]]
MCUrl ==
  [t \in MCTexts |->
     CASE t = "u#" -> "u" [] t = "u #" -> "u " [] t = "h #" -> "h " [] OTHER -> t]

\* Noon, in two time zones.
MCTimes == {"12:00", "09:00-03"}
MCUtc == [t \in MCTimes |-> "12:00"]

Offer(q, a, d) ==
  [ id |-> None, label |-> None, quantity |-> q, unit |-> "m", amount |-> a,
    isDefault |-> d ]

Base == [
  externalId |-> "p1", name |-> "m", description |-> None, category |-> None,
  subcategory |-> None, image |-> None, currency |-> None, isActive |-> TRUE,
  stock |-> None, times |-> None, prices |-> <<Offer(100000, 1000, FALSE)>> ]

\* The base with one field as the source may send it.
Variations ==
  { [Base EXCEPT !.externalId = t] :
      t \in {"p1", " p1", "p2", "q q", " ", "long"} } \cup
  { [Base EXCEPT !.name = t] : t \in {"n", "n~", " ", "long"} } \cup
  { [Base EXCEPT !.description = t] : t \in {" ", "long"} } \cup
  { [Base EXCEPT !.category = t] : t \in {"n", " ", "q q"} } \cup
  { [Base EXCEPT !.subcategory = t] : t \in {"n", "q q"} } \cup
  { [Base EXCEPT !.image = t] : t \in {"u", "u#", "u #", "h #", " ", "n"} } \cup
  { [Base EXCEPT !.currency = t] : t \in {"brl", "BRL", " ", "n"} } \cup
  { [Base EXCEPT !.times = t] : t \in MCTimes } \cup
  { [Base EXCEPT !.stock = s, !.isActive = b] :
      s \in {None, -1, 0, 1, Tiny, Huge}, b \in BOOLEAN }

\* Quantities and amounts on both sides of what is accepted and stored.
Offers ==
  { Offer(q, a, TRUE) : q \in {0, 14}, a \in {-10, 5} } \cup
  { Offer(q, 10, TRUE) : q \in {Tiny, Huge, 199994, 199995} } \cup
  { Offer(10, a, TRUE) : a \in {Tiny, Huge, 1994, 1995} }

\* The texts of an option.
Worded ==
  { [Offer(10, 10, TRUE) EXCEPT !.id = t] : t \in {"p1", "q q"} } \cup
  { [Offer(10, 10, TRUE) EXCEPT !.label = "n~", !.unit = t] :
      t \in {"brl", " ", "long"} }

Marks == UNION { [1..n -> BOOLEAN] : n \in {0, 3} }

Priced ==
  { [Base EXCEPT !.prices = <<o>>] : o \in Offers \cup Worded } \cup
  { [Base EXCEPT !.prices =
       [i \in DOMAIN marks |-> Offer(10 * i, 10 * i, marks[i])]] :
      marks \in Marks }

MCPayloads == Variations \cup Priced

\* Quantities below half of the last decimal of their column.
Small == {Base, [Base EXCEPT !.prices = <<Offer(4, 1000, TRUE)>>]}

MCProtections == {{}, {"name"}, {"description", "category"}}
=============================================================================
