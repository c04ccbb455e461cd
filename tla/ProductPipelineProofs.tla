----------------------- MODULE ProductPipelineProofs -----------------------
(***************************************************************************)
(* Theorems about ProductPipeline, for any texts, payloads, protections    *)
(* and number of imports.                                                  *)
(***************************************************************************)
EXTENDS ProductPipeline, WellFoundedInduction, TLAPS

\* Among the indices of a nonempty sequence that satisfy a condition, there is
\* a least one.
LEMMA LeastIndex ==
  ASSUME NEW S \in SUBSET Nat, S # {}
  PROVE  \E i \in S : \A j \in S : i <= j
<1>1. PICK i \in S : \A j \in S : ~(<<j, i>> \in OpToRel(<, Nat))
  BY NatLessThanWellFounded, WFMin
<1>2. ASSUME NEW j \in S, j < i PROVE FALSE
  <2>1. <<j, i>> \in {ss \in Nat \X Nat : ss[1] < ss[2]}
    BY <1>2
  <2> QED BY <1>1, <2>1 DEF OpToRel
<1> QED BY <1>2

\* Whatever options are marked, normalization leaves exactly one default.
LEMMA OneDefault ==
  ASSUME NEW prices \in Seq(Option), prices # << >>
  PROVE  ExactlyOneDefault(NormalizedPrices(prices))
<1>0. DOMAIN prices \subseteq Nat /\ 1 \in DOMAIN prices
  BY DOMAIN prices = 1..Len(prices), Len(prices) \in Nat, Len(prices) # 0
<1>1. SUFFICES \E i \in DOMAIN prices :
                 \A j \in DOMAIN prices : IsDefault(prices, j) <=> j = i
  BY DEF ExactlyOneDefault, NormalizedPrices
<1> DEFINE Marked == {i \in DOMAIN prices : prices[i].isDefault}
<1>2. CASE Marked = {}
  BY <1>0, <1>2 DEF IsDefault
<1>3. CASE Marked # {}
  <2>1. PICK i \in Marked : \A j \in Marked : i <= j
    BY <1>0, <1>3, LeastIndex
  <2>2. \A j \in DOMAIN prices : IsDefault(prices, j) <=> j = i
    BY <1>0, <2>1 DEF IsDefault
  <2> QED BY <2>1, <2>2
<1> QED BY <1>2, <1>3

\* What is left of a text that may be missing is a text or nothing.
LEMMA OptionalType ==
  ASSUME NEW form, Normalizes(form, Texts), NEW t \in Maybe(Texts)
  PROVE  /\ Optional(form, t) \in Maybe(Texts)
         /\ Optional(form, t) # Blank
BY ConfigAssumption DEF Optional, Maybe, Normalizes

\* What the decimal context leaves of a number that it does not refuse.
LEMMA SettledNumbers ==
  ASSUME NEW n \in Numbers, n # Huge
  PROVE  /\ Settled(n) \in Int
         /\ NotNegative(n) => Settled(n) >= 0
         /\ Positive(n) => (Settled(n) > 0 <=> n # Tiny)
<1>1. CASE n = Tiny
  BY <1>1 DEF Settled
<1>2. CASE n # Tiny
  <2>1. n \in Int /\ Settled(n) = n
    BY <1>2 DEF Numbers, Settled
  <2>2. n \notin {Tiny, Huge}
    BY <1>2
  <2> QED BY <1>2, <2>1, <2>2 DEF NotNegative, Positive
<1> QED BY <1>1, <1>2

\* The fields of a normalized price that constructors look at.
LEMMA NormalizedPriceIs ==
  ASSUME NEW prices
  PROVE  /\ DOMAIN NormalizedPrices(prices) = DOMAIN prices
         /\ \A i \in DOMAIN prices :
              LET price == NormalizedPrices(prices)[i]
              IN  /\ price.quantity = Settled(prices[i].quantity)
                  /\ price.amount = Cents(Settled(prices[i].amount))
                  /\ price.unit = Upper[Clean[prices[i].unit]]
                  /\ price.isDefault = IsDefault(prices, i)
BY Zenon DEF NormalizedPrices

\* The quantities that became zero, and the address of an image that has lost
\* its host: what the constructors of the catalog may refuse.
KeepsQuantities(p) == \A i \in DOMAIN p.prices : p.prices[i].quantity # Tiny

KeepsAddress(p) == ValidImage(Image(p))

\* Whatever the source sends, a payload that normalize_product.py accepts is
\* accepted by the constructors of the catalog exactly if none of its quantities
\* became zero and its image has kept its host.
THEOREM AcceptedUnless ==
  ASSUME NEW p \in Payloads, Mappable(p), Normalizable(p)
  PROVE  Valid(Strip[p.externalId], Normalized(p))
           <=> KeepsQuantities(p) /\ KeepsAddress(p)
<1>0. p \in Payload
  BY ConfigAssumption
<1>1. /\ p.externalId \in Texts /\ p.name \in Texts
      /\ p.description \in Maybe(Texts) /\ p.image \in Maybe(Texts)
      /\ p.currency \in Maybe(Texts)
      /\ p.prices \in Seq(Option) /\ None \notin Texts
  BY <1>0, ConfigAssumption DEF Payload
<1> DEFINE c == Normalized(p)
<1>2. /\ c.name = Clean[p.name]
      /\ c.description = IF Optional(Clean, p.description) = None THEN Fallback
                         ELSE Clean[p.description]
      /\ c.isActive = p.isActive /\ c.availability = Available(p)
      /\ c.currency = Optional(Upper, p.currency)
      /\ c.prices = NormalizedPrices(p.prices)
      /\ c.image = Image(p)
  BY DEF Normalized
<1> HIDE DEF c
<1>3. Strip[Strip[p.externalId]] # Blank /\ Strip[p.externalId] \notin Spaced
  BY <1>1, ConfigAssumption DEF Normalizable, Normalizes
<1>4. Clean[c.name] # Blank
  BY <1>1, <1>2, ConfigAssumption DEF Normalizable, Normalizes
<1>5. Clean[c.description] # Blank
  <2>1. CASE Optional(Clean, p.description) = None
    BY <1>2, <2>1, ConfigAssumption
  <2>2. CASE Optional(Clean, p.description) # None
    <3>1. p.description \in Texts /\ Clean[p.description] # Blank
      BY <1>1, <2>2 DEF Optional, Maybe
    <3>2. Clean[Clean[p.description]] = Clean[p.description]
      BY <3>1, ConfigAssumption DEF Normalizes
    <3>3. c.description = Clean[p.description]
      BY <1>2, <2>2
    <3> QED BY <3>1, <3>2, <3>3
  <2> QED BY <2>1, <2>2
<1>6. ASSUME NEW i \in DOMAIN p.prices
      PROVE  ValidPrice(c.prices[i]) <=> p.prices[i].quantity # Tiny
  <2>1. p.prices[i] \in Option
    BY <1>1
  <2>2. /\ p.prices[i].quantity \in Numbers /\ p.prices[i].amount \in Numbers
        /\ p.prices[i].unit \in Texts
    BY <2>1 DEF Option
  <2>3. Positive(p.prices[i].quantity) /\ NotNegative(p.prices[i].amount)
    BY DEF Mappable
  <2>4. /\ p.prices[i].quantity # Huge /\ p.prices[i].amount # Huge
        /\ Clean[p.prices[i].unit] # Blank
    BY DEF Normalizable
  <2>5. Settled(p.prices[i].quantity) > 0 <=> p.prices[i].quantity # Tiny
    BY <2>2, <2>3, <2>4, SettledNumbers
  <2>6. Settled(p.prices[i].amount) \in Int /\ Settled(p.prices[i].amount) >= 0
    BY <2>2, <2>3, <2>4, SettledNumbers
  <2>7. Cents(Settled(p.prices[i].amount)) >= 0
    BY <2>6 DEF Cents
  <2>8. /\ Clean[p.prices[i].unit] \in Texts
        /\ Clean[Clean[p.prices[i].unit]] # Blank
    BY <2>2, <2>4, ConfigAssumption DEF Normalizes
  <2>9. Upper[Upper[Clean[p.prices[i].unit]]] # Blank
    BY <2>8, ConfigAssumption DEF Normalizes
  <2>10. /\ c.prices[i].quantity = Settled(p.prices[i].quantity)
         /\ c.prices[i].amount = Cents(Settled(p.prices[i].amount))
         /\ c.prices[i].unit = Upper[Clean[p.prices[i].unit]]
    BY <1>2, NormalizedPriceIs
  <2> QED BY <2>5, <2>7, <2>9, <2>10 DEF ValidPrice
<1>7. DOMAIN c.prices = DOMAIN p.prices
  BY <1>2, NormalizedPriceIs
<1>8. ExactlyOneDefault(c.prices)
  BY <1>1, <1>2, OneDefault DEF Mappable
<1>9. ~c.isActive => c.availability = "unavailable"
  BY <1>2 DEF Available
<1>10. ValidCurrency(c.currency)
  BY <1>2 DEF Normalizable, Maybe, ValidCurrency
<1>11. ValidImage(c.image) <=> KeepsAddress(p)
  BY <1>2 DEF KeepsAddress
<1>12. (\A i \in DOMAIN c.prices : ValidPrice(c.prices[i]))
          <=> KeepsQuantities(p)
  BY <1>6, <1>7 DEF KeepsQuantities
<1> QED BY <1>3, <1>4, <1>5, <1>8, <1>9, <1>10, <1>11, <1>12 DEF Valid, c

\* What the constructors refuse they refuse for one of these two reasons.
LEMMA RefusedFor ==
  ASSUME NEW p \in Payloads, ~Accepted(p)
  PROVE  Refusal(p) \in {"rejected", "invalid_quantity", "invalid_image"}
<1> SUFFICES ASSUME Mappable(p), Normalizable(p), ValidImage(Image(p))
             PROVE  Refusal(p) = "invalid_quantity"
  BY DEF Refusal, Normalized
<1>1. PICK i \in DOMAIN p.prices : p.prices[i].quantity = Tiny
  BY AcceptedUnless DEF Accepted, KeepsQuantities, KeepsAddress
<1>2. /\ DOMAIN Normalized(p).prices = DOMAIN p.prices
      /\ Normalized(p).prices[i].quantity = Settled(p.prices[i].quantity)
  <2>1. Normalized(p).prices = NormalizedPrices(p.prices)
    BY DEF Normalized
  <2> QED BY <2>1, NormalizedPriceIs
<1>3. Normalized(p).prices[i].quantity = 0
  BY <1>1, <1>2 DEF Settled
<1> QED BY <1>2, <1>3 DEF Refusal

\* The two validators disagree on nothing else: whatever the source sends,
\* what normalize_product.py accepts the constructors of the catalog accept,
\* unless a quantity became zero or the image lost its host on the way.
THEOREM ConstructorsRefuseTwoThings == Spec => []ConstructorsAgree
<1>1. Init => ConstructorsAgree
  BY DEF Init, ConstructorsAgree
<1>2. ConstructorsAgree /\ [Next]_vars => ConstructorsAgree'
  <2> SUFFICES ASSUME ConstructorsAgree, [Next]_vars
               PROVE  ConstructorsAgree'
    OBVIOUS
  <2> USE DEF ConstructorsAgree
  <2>1. ASSUME NEW p \in Payloads, Refuse(p) PROVE ConstructorsAgree'
    <3>1. Refusal(p) # "invalid"
      BY <2>1, RefusedFor DEF Refuse
    <3> QED BY <2>1, <3>1 DEF Refuse, Answer
  <2>2. ASSUME NEW p \in Payloads, Import(p) PROVE ConstructorsAgree'
    BY <2>2 DEF Import, Upsert, UpsertRaises, Unreadable, Overflows, Answer
  <2>3. CASE UNCHANGED vars
    BY <2>3 DEF vars
  <2> QED BY <2>1, <2>2, <2>3 DEF Next, AllDone
<1> QED BY <1>1, <1>2, PTL DEF Spec

\* The fields of a content, apart.
ContentFields == {"name", "description", "category", "isActive", "availability",
                  "currency", "prices", "image", "times"}

LEMMA ContentIs ==
  ASSUME NEW c, c = [f \in ContentFields |-> c[f]],
         c.name \in Texts, c.description \in Texts,
         c.category \in Maybe(Texts) \X Maybe(Texts),
         c.isActive \in BOOLEAN, c.availability \in Availabilities,
         c.currency \in Maybe(Texts), c.prices \in Seq(Price),
         c.image \in Maybe(Texts), c.times \in Maybe(Times)
  PROVE  c \in Content
BY DEF Content, ContentFields

LEMMA ContentHas ==
  ASSUME NEW c \in Content
  PROVE  /\ c = [f \in ContentFields |-> c[f]]
         /\ c.name \in Texts /\ c.description \in Texts
         /\ c.category \in Maybe(Texts) \X Maybe(Texts)
         /\ c.isActive \in BOOLEAN /\ c.availability \in Availabilities
         /\ c.currency \in Maybe(Texts) /\ c.prices \in Seq(Price)
         /\ c.image \in Maybe(Texts) /\ c.times \in Maybe(Times)
BY DEF Content, ContentFields

LEMMA CentsAre ==
  ASSUME NEW n \in Int
  PROVE  /\ Cents(n) \in Int /\ Cents(n) % 10 = 0
         /\ StoredQuantity(n) \in Int /\ StoredQuantity(n) % 10 = 0
         /\ StoredQuantity(StoredQuantity(n)) = StoredQuantity(n)
BY DEF Cents, StoredQuantity

\* Amounts that have become cents.
InCents(prices) == \A i \in DOMAIN prices : prices[i].amount % 10 = 0

LEMMA NormalizedPricesType ==
  ASSUME NEW prices \in Seq(Option),
         \A i \in DOMAIN prices :
           prices[i].quantity # Huge /\ prices[i].amount # Huge
  PROVE  /\ NormalizedPrices(prices) \in Seq(Price)
         /\ InCents(NormalizedPrices(prices))
<1> DEFINE n == NormalizedPrices(prices)
<1>1. ASSUME NEW i \in DOMAIN prices
      PROVE  n[i] \in Price /\ n[i].amount % 10 = 0
  <2>1. /\ prices[i].id \in Maybe(Texts) /\ prices[i].label \in Maybe(Texts)
        /\ prices[i].quantity \in Numbers /\ prices[i].unit \in Texts
        /\ prices[i].amount \in Numbers
    <3>1. prices[i] \in Option
      OBVIOUS
    <3> QED BY <3>1 DEF Option
  <2>2. /\ Optional(Strip, prices[i].id) \in Maybe(Texts)
        /\ Optional(Clean, prices[i].label) \in Maybe(Texts)
    BY <2>1, OptionalType, ConfigAssumption
  <2>3. Upper[Clean[prices[i].unit]] \in Texts
    BY <2>1, ConfigAssumption DEF Normalizes
  <2>4. /\ Settled(prices[i].quantity) \in Int
        /\ Cents(Settled(prices[i].amount)) \in Int
        /\ Cents(Settled(prices[i].amount)) % 10 = 0
    BY <2>1, SettledNumbers, CentsAre
  <2>5. IsDefault(prices, i) \in BOOLEAN
    BY DEF IsDefault
  <2>6. n[i] = [ id        |-> Optional(Strip, prices[i].id),
                 label     |-> Optional(Clean, prices[i].label),
                 quantity  |-> Settled(prices[i].quantity),
                 unit      |-> Upper[Clean[prices[i].unit]],
                 amount    |-> Cents(Settled(prices[i].amount)),
                 isDefault |-> IsDefault(prices, i) ]
    BY DEF NormalizedPrices
  <2> HIDE DEF n
  <2> QED BY <2>1, <2>2, <2>3, <2>4, <2>5, <2>6 DEF Price
<1>2. /\ n = [i \in 1..Len(prices) |-> n[i]]
      /\ Len(prices) \in Nat /\ DOMAIN prices = 1..Len(prices)
      /\ DOMAIN n = DOMAIN prices
  BY DEF NormalizedPrices
<1> HIDE DEF n
<1>3. n \in Seq(Price)
  BY <1>1, <1>2
<1> QED BY <1>1, <1>2, <1>3 DEF InCents, n

\* A normalized payload is a content whose amounts are cents.
LEMMA NormalizedType ==
  ASSUME NEW p \in Payloads, Normalizable(p)
  PROVE  Normalized(p) \in Content /\ InCents(Normalized(p).prices)
<1>0. /\ p.name \in Texts /\ p.description \in Maybe(Texts)
      /\ p.category \in Maybe(Texts) /\ p.subcategory \in Maybe(Texts)
      /\ p.image \in Maybe(Texts) /\ p.currency \in Maybe(Texts)
      /\ p.isActive \in BOOLEAN /\ p.times \in Maybe(Times)
      /\ p.prices \in Seq(Option)
  BY ConfigAssumption DEF Payload
<1>1. /\ Optional(Strip, p.category) \in Maybe(Texts)
      /\ Optional(Strip, p.subcategory) \in Maybe(Texts)
      /\ Optional(Strip, p.image) \in Maybe(Texts)
      /\ Optional(Upper, p.currency) \in Maybe(Texts)
      /\ Optional(Clean, p.description) \in Maybe(Texts)
  BY <1>0, OptionalType, ConfigAssumption
<1> DEFINE c == Normalized(p)
<1>2. c = [f \in ContentFields |-> c[f]]
  BY DEF Normalized, ContentFields
<1>3. /\ c.name = Clean[p.name]
      /\ c.description = IF Optional(Clean, p.description) = None THEN Fallback
                         ELSE Clean[p.description]
      /\ c.category = << Optional(Strip, p.category),
                         Optional(Strip, p.subcategory) >>
      /\ c.isActive = p.isActive /\ c.availability = Available(p)
      /\ c.currency = Optional(Upper, p.currency)
      /\ c.prices = NormalizedPrices(p.prices)
      /\ c.image = Image(p) /\ c.times = p.times
  BY DEF Normalized
<1> HIDE DEF c
<1>4. c.name \in Texts
  BY <1>0, <1>3, ConfigAssumption DEF Normalizes
<1>5. c.description \in Texts
  <2>1. CASE Optional(Clean, p.description) = None
    BY <1>3, <2>1, ConfigAssumption
  <2>2. CASE Optional(Clean, p.description) # None
    <3>1. p.description \in Texts
      BY <1>0, <2>2 DEF Optional, Maybe
    <3> QED BY <1>3, <2>2, <3>1, ConfigAssumption DEF Normalizes
  <2> QED BY <2>1, <2>2
<1>6. c.category \in Maybe(Texts) \X Maybe(Texts)
  BY <1>1, <1>3
<1>7. c.availability \in Availabilities
  BY <1>3 DEF Available, Availabilities
<1>8. c.image \in Maybe(Texts)
  BY <1>1, <1>3, ConfigAssumption DEF Image, Maybe
<1>9. c.prices \in Seq(Price) /\ InCents(c.prices)
  BY <1>0, <1>3, NormalizedPricesType DEF Normalizable
<1> QED BY <1>0, <1>1, <1>2, <1>3, <1>4, <1>5, <1>6, <1>7, <1>8, <1>9, ContentIs
        DEF c

\* The aggregate is that content, but for the image that is stripped.
LEMMA SnapshotType ==
  ASSUME NEW p \in Payloads, Normalizable(p)
  PROVE  Snapshot(p) \in Content /\ InCents(Snapshot(p).prices)
<1> DEFINE c == Normalized(p)
           s == Snapshot(p)
<1>1. c \in Content /\ InCents(c.prices)
  BY NormalizedType
<1>2. s = [c EXCEPT !.image = Address(c.image)]
  BY DEF Snapshot, Built
<1> HIDE DEF c, s
<1>3. c = [f \in ContentFields |-> c[f]]
  BY <1>1, ContentHas
<1>4. /\ s = [f \in ContentFields |-> s[f]]
      /\ s["image"] = Address(c.image)
      /\ \A f \in ContentFields \ {"image"} : s[f] = c[f]
  BY <1>2, <1>3 DEF ContentFields
<1>5. /\ s.name = c.name /\ s.description = c.description
      /\ s.category = c.category /\ s.isActive = c.isActive
      /\ s.availability = c.availability /\ s.currency = c.currency
      /\ s.prices = c.prices /\ s.times = c.times
  BY <1>4, Zenon DEF ContentFields
<1>6. s.image \in Maybe(Texts)
  BY <1>1, <1>4, ContentHas, ConfigAssumption DEF Address, Maybe, Normalizes
<1>7. s \in Content
  BY <1>1, <1>4, <1>5, <1>6, ContentHas, ContentIs
<1> QED BY <1>1, <1>5, <1>7 DEF s

-----------------------------------------------------------------------------
(* Rows. *)

\* What each column of a stored content holds.
LEMMA StoredFields ==
  ASSUME NEW c \in Content
  PROVE  /\ Stored(c) = [f \in ContentFields |-> Stored(c)[f]]
         /\ \A f \in ContentFields \ {"prices", "times"} : Stored(c)[f] = c[f]
         /\ Stored(c)["prices"] =
              [i \in DOMAIN c.prices |-> StoredPrice(c.prices[i])]
         /\ Stored(c)["times"] = IF c.times = None THEN None ELSE Utc[c.times]
<1>1. DOMAIN c = ContentFields
  BY ContentHas
<1> QED BY <1>1 DEF Stored, ContentFields

LEMMA StoredPriceType ==
  ASSUME NEW price \in Price
  PROVE  /\ StoredPrice(price) \in Price
         /\ StoredPrice(price).quantity % 10 = 0
         /\ StoredQuantity(StoredPrice(price).quantity) =
              StoredQuantity(price.quantity)
         /\ StoredPrice(price).amount = price.amount
         /\ StoredPrice(price).id = price.id
         /\ StoredPrice(price).label = price.label
         /\ StoredPrice(price).unit = price.unit
<1>1. price.quantity \in Int
  BY DEF Price
<1>2. /\ StoredQuantity(price.quantity) \in Int
      /\ StoredQuantity(price.quantity) % 10 = 0
      /\ StoredQuantity(StoredQuantity(price.quantity)) =
           StoredQuantity(price.quantity)
  BY <1>1, CentsAre
<1> QED BY <1>2 DEF StoredPrice, Price

LEMMA StoredType ==
  ASSUME NEW c \in Content, InCents(c.prices)
  PROVE  Stored(c) \in RowContent
<1> DEFINE s == Stored(c)
<1>1. s = [f \in ContentFields |-> s[f]]
  BY StoredFields
<1>2. /\ s.name = c.name /\ s.description = c.description
      /\ s.category = c.category /\ s.isActive = c.isActive
      /\ s.availability = c.availability /\ s.currency = c.currency
      /\ s.image = c.image
  BY StoredFields, Zenon DEF ContentFields
<1>3. s.prices = [i \in DOMAIN c.prices |-> StoredPrice(c.prices[i])]
  BY StoredFields
<1>4. s.times = IF c.times = None THEN None ELSE Utc[c.times]
  BY StoredFields
<1> HIDE DEF s
<1>5. c.prices \in Seq(Price)
  BY ContentHas
<1>6. \A i \in DOMAIN c.prices : c.prices[i] \in Price
  BY <1>5
<1>7. s.prices \in Seq(Price)
  <2>1. DOMAIN c.prices = 1..Len(c.prices) /\ Len(c.prices) \in Nat
    BY <1>5
  <2> QED BY <1>3, <1>6, <2>1, StoredPriceType
<1>8. s.times \in Maybe(Times)
  BY <1>4, ContentHas, ConfigAssumption DEF Maybe, Normalizes
<1>9. s \in Content
  BY <1>1, <1>2, <1>7, <1>8, ContentHas, ContentIs
<1>10. \A i \in DOMAIN s.prices :
         s.prices[i].quantity % 10 = 0 /\ s.prices[i].amount % 10 = 0
  BY <1>3, <1>6, StoredPriceType DEF InCents
<1> QED BY <1>9, <1>10 DEF RowContent, s

\* What is stored fits as well: a quantity is rounded once, and converting
\* times makes no text longer.
LEMMA StoredFits ==
  ASSUME NEW c \in Content, NEW e, Fits(e, c)
  PROVE  Fits(e, Stored(c))
<1>1. Stored(c).name = c.name /\ Stored(c).category = c.category
  BY StoredFields, Zenon DEF ContentFields
<1>2. \A i \in DOMAIN c.prices : c.prices[i] \in Price
  BY ContentHas
<1>3. Stored(c).prices = [i \in DOMAIN c.prices |-> StoredPrice(c.prices[i])]
  BY StoredFields
<1> QED BY <1>1, <1>2, <1>3, StoredPriceType DEF Fits

\* The protected fields are the row's, the others the snapshot's.
LEMMA AppliedType ==
  ASSUME NEW row \in Row, NEW s \in Content
  PROVE  /\ Applied(row, s) \in Content
         /\ Applied(row, s).prices = s.prices
         /\ \A f \in ContentFields \ row.protected : Applied(row, s)[f] = s[f]
<1> DEFINE a == Applied(row, s)
<1>1. row.content \in Content /\ row.protected \subseteq Fields
  BY DEF Row, RowContent
<1>2. DOMAIN s = ContentFields
  BY ContentHas
<1>3. a = [f \in ContentFields |->
             IF f \in row.protected THEN row.content[f] ELSE s[f]]
  BY <1>2 DEF Applied
<1> HIDE DEF a
<1>4. a = [f \in ContentFields |-> a[f]]
  BY <1>3
<1>5. /\ a.name \in {row.content.name, s.name}
      /\ a.description \in {row.content.description, s.description}
      /\ a.category \in {row.content.category, s.category}
  BY <1>3 DEF ContentFields
<1>6. /\ a.isActive = s.isActive /\ a.availability = s.availability
      /\ a.currency = s.currency /\ a.prices = s.prices
      /\ a.image = s.image /\ a.times = s.times
  BY <1>1, <1>3, Zenon DEF ContentFields, Fields
<1>7. a \in Content
  BY <1>1, <1>4, <1>5, <1>6, ContentHas, ContentIs
<1>8. \A f \in ContentFields \ row.protected : a[f] = s[f]
  BY <1>3
<1> QED BY <1>6, <1>7, <1>8 DEF a

\* What is stored of an unprotected field depends on that field only.
LEMMA StoredByField ==
  ASSUME NEW c \in Content, NEW d \in Content, NEW f \in ContentFields,
         c[f] = d[f]
  PROVE  Stored(c)[f] = Stored(d)[f]
<1>1. CASE f = "prices"
  <2>1. c.prices = d.prices
    BY <1>1
  <2>2. /\ Stored(c)["prices"] =
             [i \in DOMAIN c.prices |-> StoredPrice(c.prices[i])]
        /\ Stored(d)["prices"] =
             [i \in DOMAIN d.prices |-> StoredPrice(d.prices[i])]
    BY StoredFields
  <2>3. Stored(c)["prices"] = Stored(d)["prices"]
    BY <2>1, <2>2, Zenon
  <2> QED BY <1>1, <2>3
<1>2. CASE f = "times"
  <2>1. c.times = d.times
    BY <1>2
  <2>2. /\ Stored(c)["times"] = IF c.times = None THEN None ELSE Utc[c.times]
        /\ Stored(d)["times"] = IF d.times = None THEN None ELSE Utc[d.times]
    BY StoredFields
  <2>3. Stored(c)["times"] = Stored(d)["times"]
    BY <2>1, <2>2
  <2> QED BY <1>2, <2>3
<1>3. CASE f \notin {"prices", "times"}
  BY <1>3, StoredFields
<1> QED BY <1>1, <1>2, <1>3

-----------------------------------------------------------------------------
(* The invariants. *)

RowsTyped ==
  /\ products \in [Products -> Row \cup {None}]
  /\ \A e \in Products : products[e] # None => Fits(e, products[e].content)

\* A row is not None.
LEMMA RowIsSome ==
  ASSUME TypeOK, NEW e \in Products, products[e] # None
  PROVE  products[e] \in Row
BY DEF TypeOK

\* Each of the three branches of the upsert keeps the rows' type.
LEMMA BranchesTyped ==
  ASSUME TypeOK, clock' \in Nat, NEW e \in Products, NEW s \in Content,
         InCents(s.prices),
         Insert(e, s) \/ KeepUnchanged(e, s) \/ Update(e, s)
  PROVE  RowsTyped'
<1>0. /\ products \in [Products -> Row \cup {None}]
      /\ \A x \in Products : products[x] # None => Fits(x, products[x].content)
  BY DEF TypeOK
<1>1. SUFFICES ASSUME NEW row \in Row, Fits(e, row.content),
                      products' = [products EXCEPT ![e] = row]
               PROVE  RowsTyped'
  <2>1. CASE Insert(e, s)
    <3>1. PICK id \in FreshIds, fields \in Protections :
            products' = [products EXCEPT ![e] = Inserted(id, s, fields, clock')]
      BY <2>1 DEF Insert
    <3>2. id \in Ids /\ fields \in SUBSET Fields
      BY <3>1, ConfigAssumption DEF FreshIds
    <3>3. Stored(s) \in RowContent
      BY StoredType
    <3>4. Inserted(id, s, fields, clock') \in Row
      BY <3>2, <3>3 DEF Inserted, Row, Fingerprint
    <3>5. Inserted(id, s, fields, clock').content = Stored(s)
      BY DEF Inserted
    <3>6. Fits(e, Stored(s))
      BY <2>1, StoredFits DEF Insert
    <3> QED BY <1>1, <3>1, <3>4, <3>5, <3>6
  <2>2. CASE KeepUnchanged(e, s)
    <3>1. products[e] \in Row /\ Fits(e, products[e].content)
      BY <1>0, <2>2 DEF KeepUnchanged
    <3>2. /\ Resynced(products[e], clock') \in Row
          /\ Resynced(products[e], clock').content = products[e].content
      BY <3>1 DEF Resynced, Row
    <3>3. products' = [products EXCEPT ![e] = Resynced(products[e], clock')]
      BY <1>0, <2>2 DEF KeepUnchanged
    <3> QED BY <1>1, <3>1, <3>2, <3>3
  <2>3. CASE Update(e, s)
    <3>1. products[e] \in Row
      BY <1>0, <2>3 DEF Update
    <3> DEFINE a == Applied(products[e], s)
    <3>2. a \in Content /\ InCents(a.prices)
      BY <3>1, AppliedType DEF InCents
    <3>3. Stored(a) \in RowContent
      BY <3>2, StoredType
    <3>4. Fits(e, Stored(a))
      BY <2>3, <3>2, StoredFits DEF Update
    <3> HIDE DEF a
    <3>5. /\ Updated(products[e], s, clock') \in Row
          /\ Updated(products[e], s, clock').content = Stored(a)
      BY <3>1, <3>3 DEF Updated, Row, Fingerprint, a
    <3>6. products' = [products EXCEPT ![e] = Updated(products[e], s, clock')]
      BY <1>0, <2>3 DEF Update
    <3> QED BY <1>1, <3>4, <3>5, <3>6
  <2> QED BY <2>1, <2>2, <2>3
<1> QED BY <1>0, <1>1 DEF RowsTyped

\* An import reports, and leaves the table as it is or changes one row.
LEMMA UpsertSteps ==
  ASSUME NEW e, NEW s, Upsert(e, s)
  PROVE  /\ \/ Insert(e, s) \/ KeepUnchanged(e, s) \/ Update(e, s)
            \/ UNCHANGED products
         /\ answer'.change \in
              {"created", "unchanged", "updated", "unreadable", "raised"}
BY DEF Upsert, UpsertRaises, Unreadable, Overflows, Answer

LEMMA ImportedIs ==
  ASSUME NEW p \in Payloads
  PROVE  Strip[p.externalId] \in Products
BY DEF Products

\* The table, the clock and the answers keep their types, and a row's texts
\* and numbers are in their columns, also those it keeps when others are overwritten.
THEOREM PipelineTypeCorrect == Spec => []TypeOK
<1>1. Init => TypeOK
  BY ConfigAssumption DEF Init, TypeOK
<1>2. TypeOK /\ [Next]_vars => TypeOK'
  <2> SUFFICES ASSUME TypeOK, [Next]_vars PROVE TypeOK'
    OBVIOUS
  <2>0. clock \in 0..MaxImports /\ MaxImports \in Nat
    BY ConfigAssumption DEF TypeOK
  <2>1. ASSUME NEW p \in Payloads, Refuse(p) PROVE TypeOK'
    BY <2>0, <2>1, RefusedFor DEF Refuse, Tick, Answer, TypeOK
  <2>2. ASSUME NEW p \in Payloads, Import(p) PROVE TypeOK'
    <3> DEFINE e == Strip[p.externalId]
               s == Snapshot(p)
    <3>1. s \in Content /\ InCents(s.prices) /\ e \in Products
      BY <2>2, SnapshotType, ImportedIs DEF Import, Accepted
    <3>2. Upsert(e, s) /\ Tick
      BY <2>2 DEF Import
    <3> HIDE DEF e, s
    <3>3. clock' \in 0..MaxImports /\ clock' \in Nat
      BY <2>0, <3>2 DEF Tick
    <3>4. RowsTyped'
      <4>1. CASE UNCHANGED products
        BY <4>1 DEF TypeOK, RowsTyped
      <4> QED BY <3>1, <3>2, <3>3, <4>1, UpsertSteps, BranchesTyped
    <3>5. answer'.change \in
            {"created", "unchanged", "updated", "unreadable", "raised"}
      BY <3>2, UpsertSteps
    <3> QED BY <3>3, <3>4, <3>5 DEF RowsTyped, TypeOK
  <2>3. CASE UNCHANGED vars
    BY <2>3 DEF vars, TypeOK
  <2> QED BY <2>1, <2>2, <2>3 DEF Next, AllDone
<1> QED BY <1>1, <1>2, PTL DEF Spec

\* A row agrees with its fingerprint in the fields that are not protected.
Agrees(row) ==
  \A f \in DOMAIN row.content \ row.protected :
    row.content[f] = Stored(row.fingerprint)[f]

\* Each branch of the upsert leaves rows that agree with their fingerprints.
LEMMA BranchesAgree ==
  ASSUME TypeOK, RowIsTheSource, NEW e \in Products, NEW s \in Content,
         Insert(e, s) \/ KeepUnchanged(e, s) \/ Update(e, s)
  PROVE  RowIsTheSource'
<1>0. /\ products \in [Products -> Row \cup {None}]
      /\ \A x \in Products : products[x] # None => Agrees(products[x])
  BY DEF TypeOK, RowIsTheSource, Agrees
<1>1. SUFFICES ASSUME NEW row, Agrees(row),
                      products' = [products EXCEPT ![e] = row]
               PROVE  RowIsTheSource'
  <2>1. CASE Insert(e, s)
    <3>1. PICK id \in FreshIds, fields \in Protections :
            products' = [products EXCEPT ![e] = Inserted(id, s, fields, clock')]
      BY <2>1 DEF Insert
    <3>2. Agrees(Inserted(id, s, fields, clock'))
      BY DEF Agrees, Inserted, Fingerprint
    <3> QED BY <1>1, <3>1, <3>2
  <2>2. CASE KeepUnchanged(e, s)
    <3>1. products[e] \in Row /\ Agrees(products[e])
      BY <1>0, <2>2 DEF KeepUnchanged
    <3>2. LET row == Resynced(products[e], clock')
          IN  /\ row.content = products[e].content
              /\ row.protected = products[e].protected
              /\ row.fingerprint = products[e].fingerprint
      BY <3>1 DEF Resynced, Row
    <3>3. products' = [products EXCEPT ![e] = Resynced(products[e], clock')]
      BY <1>0, <2>2 DEF KeepUnchanged
    <3>4. Agrees(Resynced(products[e], clock'))
      BY <3>1, <3>2 DEF Agrees
    <3> QED BY <1>1, <3>3, <3>4
  <2>3. CASE Update(e, s)
    <3>1. products[e] \in Row
      BY <1>0, <2>3 DEF Update
    <3> DEFINE a == Applied(products[e], s)
               row == Updated(products[e], s, clock')
    <3>2. /\ a \in Content
          /\ \A f \in ContentFields \ products[e].protected : a[f] = s[f]
      BY <3>1, AppliedType
    <3>3. /\ row.content = Stored(a) /\ row.fingerprint = s
          /\ row.protected = products[e].protected
      BY DEF Updated, Fingerprint
    <3>4. DOMAIN Stored(a) = ContentFields
      BY <3>2, StoredFields
    <3> HIDE DEF a, row
    <3>5. \A f \in ContentFields \ products[e].protected :
            Stored(a)[f] = Stored(s)[f]
      BY <3>2, StoredByField
    <3>6. Agrees(row)
      BY <3>3, <3>4, <3>5 DEF Agrees
    <3>7. products' = [products EXCEPT ![e] = row]
      BY <1>0, <2>3 DEF Update, row
    <3> QED BY <1>1, <3>6, <3>7
  <2> QED BY <2>1, <2>2, <2>3
<1>2. \A x \in Products : products'[x] # None => Agrees(products'[x])
  BY <1>0, <1>1
<1> QED BY <1>2 DEF RowIsTheSource, Agrees

\* Whatever is imported in whatever order, and whatever fails, a row holds in
\* every field that is not protected what its fingerprint says the source
\* last sent: an import that is taken for a repetition would change nothing.
THEOREM RowFollowsSource == Spec => []RowIsTheSource
<1>1. Init => RowIsTheSource
  BY DEF Init, RowIsTheSource
<1>2. TypeOK /\ RowIsTheSource /\ [Next]_vars => RowIsTheSource'
  <2> SUFFICES ASSUME TypeOK, RowIsTheSource, [Next]_vars
               PROVE  RowIsTheSource'
    OBVIOUS
  <2>1. CASE UNCHANGED products
    BY <2>1 DEF RowIsTheSource
  <2>2. ASSUME NEW p \in Payloads, Import(p) PROVE RowIsTheSource'
    <3>1. /\ Snapshot(p) \in Content /\ Strip[p.externalId] \in Products
          /\ Upsert(Strip[p.externalId], Snapshot(p))
      BY <2>2, SnapshotType, ImportedIs DEF Import, Accepted
    <3> QED BY <2>1, <3>1, UpsertSteps, BranchesAgree
  <2> QED BY <2>1, <2>2 DEF Next, Refuse, AllDone, vars
<1> QED BY <1>1, <1>2, PipelineTypeCorrect, PTL DEF Spec

-----------------------------------------------------------------------------
(* The refinement of ProductRegister. *)

\* A row is an entry of the register.
LEMMA RowIsHeld ==
  ASSUME NEW row \in Row
  PROVE  /\ row # None
         /\ RegisterOf(row) \in Held /\ RegisterOf(row) # None
         /\ RegisterOf(row).id = row.id
         /\ RegisterOf(row).protected = row.protected
         /\ RegisterOf(row).snapshot = row.fingerprint
         /\ RegisterOf(row).kept = [f \in row.protected |-> row.content[f]]
<1>1. /\ row.id \in Ids /\ row.protected \in SUBSET Fields
      /\ row.fingerprint \in Content /\ row.content \in Content
  BY DEF Row, RowContent
<1>2. \A f \in Fields :
        row.content[f] \in Texts \cup (Maybe(Texts) \X Maybe(Texts))
  BY <1>1, ContentHas DEF Fields
<1>3. [f \in row.protected |-> row.content[f]] \in
        UNION {[fields -> Texts \cup (Maybe(Texts) \X Maybe(Texts))] :
                 fields \in SUBSET Fields}
  BY <1>1, <1>2
<1>4. RegisterOf(row) \in Held
  BY <1>1, <1>3 DEF RegisterOf, Held
<1> QED BY <1>4, RegisterAssumption DEF RegisterOf

\* What the abstract register holds of each product, now and next.
LEMMA EntriesAre ==
  ASSUME TypeOK, RowsTyped', NEW x \in Products
  PROVE  /\ Entries[x] = None <=> products[x] = None
         /\ products[x] # None =>
              products[x] \in Row /\ Entries[x] = RegisterOf(products[x])
         /\ Entries'[x] = None <=> products'[x] = None
         /\ products'[x] # None =>
              products'[x] \in Row /\ Entries'[x] = RegisterOf(products'[x])
<1>1. products[x] \in Row \cup {None} /\ products'[x] \in Row \cup {None}
  BY DEF TypeOK, RowsTyped
<1>2. products[x] # None => RegisterOf(products[x]) # None
  BY <1>1, RowIsHeld
<1>3. products'[x] # None => RegisterOf(products'[x]) # None
  BY <1>1, RowIsHeld
<1>4. Entries[x] = Entry(products[x]) /\ Entries'[x] = Entry(products'[x])
  BY DEF Entries
<1> QED BY <1>1, <1>2, <1>3, <1>4 DEF Entry

\* One row changes, and so does one entry.
LEMMA OneEntry ==
  ASSUME TypeOK, RowsTyped', NEW e \in Products, NEW row \in Row,
         products' = [products EXCEPT ![e] = row]
  PROVE  Entries' = [Entries EXCEPT ![e] = RegisterOf(row)]
<1>1. /\ products'[e] = row
      /\ \A x \in Products \ {e} : products'[x] = products[x]
  BY DEF TypeOK
<1>2. Entries'[e] = RegisterOf(row)
  BY <1>1, EntriesAre, RowIsHeld
<1>3. \A x \in Products \ {e} : Entries'[x] = Entries[x]
  BY <1>1 DEF Entries
<1> QED BY <1>2, <1>3 DEF Entries

\* An insert enters the product under an identity that nobody has.
LEMMA InsertEnters ==
  ASSUME TypeOK, RowsTyped', clock' \in Nat, NEW e \in Products,
         NEW s \in Content, InCents(s.prices), Insert(e, s)
  PROVE  Register!Enter(e, s)
<1>1. PICK id \in FreshIds, fields \in Protections :
        products' = [products EXCEPT ![e] = Inserted(id, s, fields, clock')]
  BY DEF Insert
<1> DEFINE row == Inserted(id, s, fields, clock')
<1>2. id \in Ids /\ fields \in SUBSET Fields
  BY <1>1, ConfigAssumption DEF FreshIds
<1>3. row \in Row
  BY <1>2, StoredType DEF Inserted, Row, Fingerprint
<1>4. /\ row.id = id /\ row.protected = fields /\ row.fingerprint = s
      /\ row.content = Stored(s)
  BY DEF Inserted, Fingerprint
<1>5. products' = [products EXCEPT ![e] = row]
  BY <1>1
<1> HIDE DEF row
<1>6. \A f \in fields : Stored(s)[f] = s[f]
  BY <1>2, StoredFields DEF Fields, ContentFields
<1>7. RegisterOf(row) = Register!Holds(id, fields, [f \in fields |-> s[f]], s)
  BY <1>4, <1>6 DEF RegisterOf, Register!Holds
<1>8. Entries' = [Entries EXCEPT ![e] = RegisterOf(row)]
  BY <1>3, <1>5, OneEntry
<1>9. Entries[e] = None
  BY EntriesAre DEF Insert
<1>10. \A x \in Products : Entries[x] # None => Entries[x].id # id
  <2> TAKE x \in Products
  <2>1. products[x] # None => products[x].id # id
    BY <1>1 DEF FreshIds
  <2> QED BY <2>1, EntriesAre, RowIsHeld
<1>11. ~Register!Taken(id)
  BY <1>10 DEF Register!Taken
<1> QED BY <1>2, <1>7, <1>8, <1>9, <1>11 DEF Register!Enter

\* An update replaces the snapshot, and keeps what is protected.
LEMMA UpdateReplaces ==
  ASSUME TypeOK, RowsTyped', clock' \in Nat, NEW e \in Products,
         NEW s \in Content, InCents(s.prices), Update(e, s)
  PROVE  Register!Replace(e, s)
<1> DEFINE old == products[e]
           a == Applied(old, s)
           row == Updated(old, s, clock')
<1>1. old \in Row /\ old # None
  BY DEF TypeOK, Update
<1>2. a \in Content /\ InCents(a.prices)
  BY <1>1, AppliedType DEF InCents
<1>3. Stored(a) \in RowContent
  BY <1>2, StoredType
<1>4. row \in Row
  BY <1>1, <1>3 DEF Updated, Row, Fingerprint
<1>5. /\ row.id = old.id /\ row.protected = old.protected
      /\ row.fingerprint = s /\ row.content = Stored(a)
  BY DEF Updated, Fingerprint
<1>6. products' = [products EXCEPT ![e] = row]
  BY DEF Update, TypeOK
<1>7. \A f \in old.protected : Stored(a)[f] = old.content[f]
  <2>1. old.protected \subseteq Fields /\ DOMAIN s = ContentFields
    BY <1>1, ContentHas DEF Row
  <2>2. \A f \in old.protected : a[f] = old.content[f]
    BY <2>1 DEF Applied, Fields, ContentFields
  <2>3. \A f \in Fields : Stored(a)[f] = a[f]
    BY <1>2, StoredFields DEF Fields, ContentFields
  <2> QED BY <2>1, <2>2, <2>3
<1>8. old.fingerprint # s
  BY DEF Update, Fingerprint
<1> HIDE DEF a, row
<1>9. Entries' = [Entries EXCEPT ![e] = RegisterOf(row)]
  BY <1>4, <1>6, OneEntry
<1>10. Entries[e] = RegisterOf(old) /\ Entries[e] # None
  BY <1>1, EntriesAre
<1>11. /\ RegisterOf(old).id = old.id
       /\ RegisterOf(old).protected = old.protected
       /\ RegisterOf(old).snapshot = old.fingerprint
       /\ RegisterOf(old).kept = [f \in old.protected |-> old.content[f]]
  BY <1>1, RowIsHeld
<1> HIDE DEF old
<1>12. RegisterOf(row) =
         Register!Holds(Entries[e].id, Entries[e].protected, Entries[e].kept, s)
  BY <1>5, <1>7, <1>10, <1>11 DEF RegisterOf, Register!Holds
<1> QED BY <1>8, <1>9, <1>10, <1>11, <1>12
        DEF Register!Replace

\* An import that repeats the last snapshot leaves the register alone.
LEMMA UnchangedRepeats ==
  ASSUME TypeOK, RowsTyped', clock' \in Nat, NEW e \in Products,
         NEW s \in Content, KeepUnchanged(e, s)
  PROVE  Register!Repeat(e, s)
<1> DEFINE old == products[e]
           row == Resynced(old, clock')
<1>1. old \in Row /\ old # None
  BY DEF TypeOK, KeepUnchanged
<1>2. /\ row \in Row /\ row.id = old.id /\ row.protected = old.protected
      /\ row.content = old.content /\ row.fingerprint = old.fingerprint
  BY <1>1 DEF Resynced, Row
<1>3. products' = [products EXCEPT ![e] = row]
  BY DEF KeepUnchanged, TypeOK
<1>4. old.fingerprint = s
  BY DEF KeepUnchanged, Fingerprint
<1> HIDE DEF row
<1>5. Entries' = [Entries EXCEPT ![e] = RegisterOf(row)]
  BY <1>2, <1>3, OneEntry
<1>6. RegisterOf(row) = RegisterOf(old)
  BY <1>2 DEF RegisterOf
<1>7. /\ Entries[e] = RegisterOf(old) /\ Entries[e] # None
      /\ RegisterOf(old).snapshot = old.fingerprint
  BY <1>1, EntriesAre, RowIsHeld
<1> HIDE DEF old
<1>8. Entries' = Entries
  BY <1>5, <1>6, <1>7 DEF Entries
<1> QED BY <1>4, <1>7, <1>8 DEF Register!Repeat

\* What an answer says to the abstract register.
LEMMA SaidIs ==
  ASSUME NEW change, NEW e, NEW s, Answer(change, e, s)
  PROVE  /\ Said'.product = e /\ Said'.snapshot = s
         /\ change \in Failures => Register!Reply("failed", e, s)
         /\ change \notin Failures => Register!Reply(change, e, s)
<1>1. answer' = [change |-> change, product |-> e, snapshot |-> s]
  BY DEF Answer
<1>2. Said' = [ change   |-> IF change \in Failures THEN "failed" ELSE change,
                product  |-> e, snapshot |-> s ]
  BY <1>1 DEF Said
<1> QED BY <1>2 DEF Said, Failures, Register!Reply

\* An import of one item is an import of the register, or a failed one.
LEMMA ImportRefines ==
  ASSUME TypeOK, TypeOK', NEW p \in Payloads, Import(p)
  PROVE  Register!Next
<1> DEFINE e == Strip[p.externalId]
           s == Snapshot(p)
<1>1. /\ s \in Content /\ InCents(s.prices) /\ e \in Products
      /\ s \in Snapshots
  BY SnapshotType, ImportedIs DEF Import, Accepted, Snapshots
<1>2. Upsert(e, s) /\ clock' = clock + 1
  BY DEF Import, Tick
<1>3. RowsTyped' /\ clock' \in Nat
  BY DEF TypeOK, RowsTyped
<1> HIDE DEF e, s
<1>4. /\ Insert(e, s) => Register!Enter(e, s)
      /\ Update(e, s) => Register!Replace(e, s)
      /\ KeepUnchanged(e, s) => Register!Repeat(e, s)
  BY <1>1, <1>3, InsertEnters, UpdateReplaces, UnchangedRepeats
<1>5. Register!Repeat(e, s) => Entries' = Entries
  BY DEF Register!Repeat
<1>6. products' = products => Entries' = Entries
  BY DEF Entries
<1>7. \/ Register!Import(e, s) \/ Register!Fail(e, s)
  <2>1. CASE Insert(e, s) /\ Answer("created", e, s)
    BY <1>4, <2>1, SaidIs DEF Register!Import, Failures
  <2>2. CASE KeepUnchanged(e, s) /\ Answer("unchanged", e, s)
    BY <1>4, <2>2, SaidIs DEF Register!Import, Failures
  <2>3. CASE Update(e, s) /\ Answer("updated", e, s)
    BY <1>4, <2>3, SaidIs DEF Register!Import, Failures
  <2>4. ASSUME NEW change \in Failures, Answer(change, e, s),
               \/ Insert(e, s) \/ KeepUnchanged(e, s)
               \/ Update(e, s) \/ UNCHANGED products
        PROVE  Register!Fail(e, s)
    <3>1. Register!Reply("failed", e, s)
      BY <2>4, SaidIs
    <3> QED BY <1>4, <1>5, <1>6, <2>4, <3>1
            DEF Register!Fail
  <2>5. CASE UpsertRaises(e, s) \/ Unreadable(e, s) \/ Overflows(e, s)
    BY <2>4, <2>5 DEF UpsertRaises, Unreadable, Overflows, Failures
  <2> QED BY <1>2, <2>1, <2>2, <2>3, <2>5 DEF Upsert
<1>8. Said'.product = e /\ Said'.snapshot = s
  BY <1>2, SaidIs DEF Upsert, UpsertRaises, Unreadable, Overflows
<1> QED BY <1>1, <1>2, <1>7, <1>8 DEF Register!Next

\* An item that is refused is a failed import of no product.
LEMMA RefuseRefines ==
  ASSUME NEW p \in Payloads, Refuse(p)
  PROVE  Register!Next
<1>1. clock' = clock + 1 /\ products' = products
  BY DEF Refuse, Tick
<1>2. Register!Reply("failed", None, None)
  BY SaidIs, RefusedFor DEF Refuse, Failures
<1> QED BY <1>1, <1>2 DEF Register!Next, Entries

\* Importing the catalog, whatever is sent, refused, repeated, overwritten or
\* lost in a transaction that raises, implements ProductRegister: identities
\* and protected values last, reports are true, and an import that failed
\* took effect as a whole or not at all.
THEOREM RegisterImplemented == Spec => ImplementsRegister
<1>1. Init => Register!Init
  BY DEF Init, Register!Init, Entries, Entry, Said, Failures
<1>2. TypeOK /\ TypeOK' /\ [Next]_vars
        => [Register!Next]_<<Entries, clock, Said>>
  <2> SUFFICES ASSUME TypeOK, TypeOK', [Next]_vars
               PROVE  Register!Next \/ UNCHANGED <<Entries, clock, Said>>
    OBVIOUS
  <2>1. CASE UNCHANGED vars
    BY <2>1 DEF vars, Entries, Said
  <2> QED BY <2>1, ImportRefines, RefuseRefines DEF Next, AllDone
<1> QED
  BY <1>1, <1>2, PipelineTypeCorrect, PTL
     DEF Spec, ImplementsRegister, Register!Spec
=============================================================================
