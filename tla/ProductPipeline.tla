-------------------------- MODULE ProductPipeline --------------------------
(***************************************************************************)
(* One item of the catalog after another: ProductPipelineProcessor.process *)
(* maps the payload, normalizes it, builds the aggregate, and upserts it   *)
(* in a transaction of its own.  The active slot of the synchronization    *)
(* lets one execution at a time do so (CatalogSync), so that an item is    *)
(* one step.                                                               *)
(*                                                                         *)
(* A text is a value of the set Texts, and what the code makes of a text   *)
(* is a function on them.  Quantities are in 1/100000, amounts in 1/1000.  *)
(* A row's columns hold 4 and 2 decimals of them.  Tiny and Huge stand for *)
(* the positive numbers that Python's decimal context cannot hold.         *)
(***************************************************************************)
EXTENDS Integers, Sequences

CONSTANTS
  Payloads,     \* items the external catalog sends
  Texts,        \* texts in payloads
  Strip,        \* Strip[t]: t without the white space around it
  Clean,        \* Clean[t]: t in Unicode's NFKC with single spaces
  Upper,        \* Upper[t]: t stripped and in upper case
  Url,          \* Url[t]: t with a lower-case host and without a fragment
  Blank,        \* the text nothing is left of
  Spaced,       \* texts that, stripped, have white space inside
  Codes,        \* texts that, in upper case, are three letters
  WebUrls,      \* texts that, stripped, are absolute HTTP URLs
  Long,         \* texts that are longer than their columns
  Tiny,         \* a number that normalize() and quantize() make 0
  Huge,         \* a number that normalize() and quantize() refuse
  QuantityLimit,  \* the least quantity its column cannot hold: 10^10 whole
  AmountLimit,    \* the least amount its column cannot hold: 10^12 whole
  Fallback,     \* DESCRIPTION_FALLBACK
  Times,        \* pairs of createdAt and updatedAt, in some time zone
  Utc,          \* Utc[t]: t in UTC
  Ids,          \* identities the id factory gives
  Protections,  \* sets of fields an aggregate is inserted with as protected
  MaxImports,   \* bound: items processed
  DbFails,      \* whether the transaction may raise
  None          \* no product, no text, no stock, no times

\* ProductProtectedField; "category" stands for the category and subcategory.
Fields == {"name", "description", "category"}

Availabilities == {"available", "unavailable", "out_of_stock", "unknown"}

Maybe(S) == S \cup {None}

Numbers == Int \cup {Tiny, Huge}

\* A price as the source sends it, and as it is once normalized.
Option == [
  id : Maybe(Texts), label : Maybe(Texts), quantity : Numbers, unit : Texts,
  amount : Numbers, isDefault : BOOLEAN ]

Price == [
  id : Maybe(Texts), label : Maybe(Texts), quantity : Int, unit : Texts,
  amount : Int, isDefault : BOOLEAN ]

Payload == [
  externalId : Texts, name : Texts, description : Maybe(Texts),
  category : Maybe(Texts), subcategory : Maybe(Texts), image : Maybe(Texts),
  currency : Maybe(Texts), isActive : BOOLEAN, stock : Maybe(Numbers),
  times : Maybe(Times), prices : Seq(Option) ]

\* The fields of a product that belong to the source.  The category and the
\* subcategory are a pair, and the currency is that of every price.
Content == [
  name : Texts, description : Texts, category : Maybe(Texts) \X Maybe(Texts),
  isActive : BOOLEAN, availability : Availabilities, currency : Maybe(Texts),
  prices : Seq(Price), image : Maybe(Texts), times : Maybe(Times) ]

Products == {Strip[p.externalId] : p \in Payloads}

\* f gives every text of S a form that it leaves as it is.
Normalizes(f, S) == f \in [S -> S] /\ \A t \in S : f[f[t]] = f[t]

ASSUME ConfigAssumption ==
  /\ Payloads \subseteq Payload
  /\ Normalizes(Strip, Texts) /\ Normalizes(Clean, Texts)
  /\ Normalizes(Upper, Texts) /\ Normalizes(Utc, Times)
  /\ Url \in [Texts -> Texts]
  /\ {Blank, Fallback} \subseteq Texts
  /\ Clean[Blank] = Blank /\ Clean[Fallback] = Fallback /\ Fallback # Blank
  /\ Spaced \cup WebUrls \cup Codes \cup Long \subseteq Texts
  /\ Blank \notin Spaced \cup WebUrls \cup Codes
  /\ \A t \in Texts : /\ t \in Spaced <=> Strip[t] \in Spaced
                      /\ t \in Codes <=> Upper[t] \in Codes
                      /\ t \in WebUrls <=> Strip[t] \in WebUrls
                      /\ Upper[t] = Blank => Clean[t] = Blank
  /\ Ids \subseteq Nat
  /\ Protections \subseteq SUBSET Fields
  /\ MaxImports \in Nat
  /\ DbFails \in BOOLEAN
  /\ {QuantityLimit, AmountLimit} \subseteq Nat
  /\ Tiny \notin Int /\ Huge \notin Int /\ Tiny # Huge
  /\ None \notin Texts \cup Numbers \cup Times

VARIABLES
  products,  \* products[e]: the row of external id e, or None
  clock,     \* items processed so far, the time of the clock
  answer     \* what process returned or raised for the last one

vars == <<products, clock, answer>>

-----------------------------------------------------------------------------
(* map_external_product and NormalizeProductUseCase. *)

Positive(n) == n \notin {Tiny, Huge} => n > 0

NotNegative(n) == n \notin {Tiny, Huge} => n >= 0

Mappable(p) ==
  /\ p.prices # << >>
  /\ \A i \in DOMAIN p.prices :
       Positive(p.prices[i].quantity) /\ NotNegative(p.prices[i].amount)
  /\ p.stock # None => NotNegative(p.stock)

\* What is left of a text that may be missing, and None if it is nothing.
Optional(form, t) == IF t = None \/ form[t] = Blank THEN None ELSE form[t]

\* What is left to refuse: texts, and numbers that are too large.
Normalizable(p) ==
  /\ p.stock # Huge
  /\ Strip[p.externalId] # Blank /\ p.externalId \notin Spaced
  /\ Clean[p.name] # Blank
  /\ p.category \notin Spaced /\ p.subcategory \notin Spaced
  /\ Optional(Upper, p.currency) \in Maybe(Codes)
  /\ Optional(Strip, p.image) \in Maybe(WebUrls)
  /\ \A i \in DOMAIN p.prices :
       /\ Clean[p.prices[i].unit] # Blank /\ p.prices[i].id \notin Spaced
       /\ p.prices[i].quantity # Huge /\ p.prices[i].amount # Huge

\* Decimal.normalize: a number too small for the context becomes zero.
Settled(n) == IF n = Tiny THEN 0 ELSE n

Available(p) ==
  CASE ~p.isActive -> "unavailable"
    [] p.isActive /\ Settled(p.stock) = 0 -> "out_of_stock"
    [] p.isActive /\ p.stock = None -> "unknown"
    [] OTHER -> "available"

\* Mutant: the price keeps the decimals it came with.
UnroundedCents(amount) == amount

\* Half a cent and more is a cent.
Cents(amount) == ((amount + 5) \div 10) * 10

\* Mutant: options that are marked stay marked.
MarkedAreDefaults(prices, i) ==
  \/ prices[i].isDefault
  \/ i = 1 /\ \A j \in DOMAIN prices : ~prices[j].isDefault

\* The first option that is marked, or else the first.
IsDefault(prices, i) ==
  \/ /\ prices[i].isDefault
     /\ \A j \in DOMAIN prices : prices[j].isDefault => i <= j
  \/ i = 1 /\ \A j \in DOMAIN prices : ~prices[j].isDefault

NormalizedPrices(prices) ==
  [i \in DOMAIN prices |->
     [ id        |-> Optional(Strip, prices[i].id),
       label     |-> Optional(Clean, prices[i].label),
       quantity  |-> Settled(prices[i].quantity),
       unit      |-> Upper[Clean[prices[i].unit]],
       amount    |-> Cents(Settled(prices[i].amount)),
       isDefault |-> IsDefault(prices, i) ]]

Image(p) ==
  LET image == Optional(Strip, p.image)
  IN  IF image = None THEN None ELSE Url[image]

Normalized(p) ==
  [ name         |-> Clean[p.name],
    description  |-> IF Optional(Clean, p.description) = None THEN Fallback
                     ELSE Clean[p.description],
    category     |-> << Optional(Strip, p.category),
                        Optional(Strip, p.subcategory) >>,
    isActive     |-> p.isActive,
    availability |-> Available(p),
    currency     |-> Optional(Upper, p.currency),
    prices       |-> NormalizedPrices(p.prices),
    image        |-> Image(p),
    times        |-> p.times ]

(* The Product aggregate. *)

ExactlyOneDefault(prices) ==
  \E i \in DOMAIN prices :
    \A j \in DOMAIN prices : prices[j].isDefault <=> j = i

ValidPrice(price) ==
  price.quantity > 0 /\ price.amount >= 0 /\ Upper[price.unit] # Blank

ValidCurrency(currency) == currency # None => currency \in Codes

ValidImage(image) == image # None => image \in WebUrls

\* What the constructors of Product and of its parts accept, in their order.
Valid(e, content) ==
  /\ ValidCurrency(content.currency)
  /\ \A i \in DOMAIN content.prices : ValidPrice(content.prices[i])
  /\ ValidImage(content.image)
  /\ Strip[e] # Blank /\ e \notin Spaced
  /\ Clean[content.name] # Blank /\ Clean[content.description] # Blank
  /\ ExactlyOneDefault(content.prices)
  /\ ~content.isActive => content.availability = "unavailable"

\* ProductImage strips the address it is given once more.
Address(image) == IF image = None THEN None ELSE Strip[image]

\* The aggregate built from a normalized item.
Built(content) == [content EXCEPT !.image = Address(content.image)]

Snapshot(p) == Built(Normalized(p))

Snapshots == {Snapshot(p) : p \in {q \in Payloads : Mappable(q) /\ Normalizable(q)}}

\* apply_external_snapshot: the source's fields, but those protected.
Applied(row, snapshot) ==
  [ f \in DOMAIN snapshot |->
      IF f \in row.protected THEN row.content[f] ELSE snapshot[f] ]

(* SqlAlchemyProductRepository. *)

\* The quantity rounded to the decimals of its column.
StoredQuantity(quantity) == ((quantity + 5) \div 10) * 10

StoredPrice(price) == [price EXCEPT !.quantity = StoredQuantity(@)]

Stored(content) ==
  [ f \in DOMAIN content |->
      CASE f = "prices" ->
             [i \in DOMAIN content.prices |-> StoredPrice(content.prices[i])]
        [] f = "times" /\ content.times # None -> Utc[content.times]
        [] OTHER -> content[f] ]

\* The columns of these texts have a length, those of the numbers a precision.
Fits(e, content) ==
  /\ e \notin Long /\ content.name \notin Long
  /\ content.category[1] \notin Long /\ content.category[2] \notin Long
  /\ \A i \in DOMAIN content.prices :
       /\ {content.prices[i].id, content.prices[i].label, content.prices[i].unit}
            \cap Long = {}
       /\ StoredQuantity(content.prices[i].quantity) < QuantityLimit
       /\ content.prices[i].amount < AmountLimit

\* Mutant: the image is left out of the hashed payload.
FingerprintWithoutImage(snapshot) == [snapshot EXCEPT !.image = None]

\* The hash of the snapshot is the snapshot.
Fingerprint(snapshot) == snapshot

Inserted(id, snapshot, fields, at) ==
  [ id |-> id, content |-> Stored(snapshot), protected |-> fields,
    createdAt |-> at, updatedAt |-> at, lastSyncedAt |-> at,
    fingerprint |-> Fingerprint(snapshot) ]

Resynced(row, at) == [row EXCEPT !.lastSyncedAt = at]

\* Mutant: the fingerprint is taken after the protected fields are merged.
UpdatedByMerged(row, snapshot, at) ==
  [ row EXCEPT !.content = Stored(Applied(row, snapshot)),
               !.updatedAt = at, !.lastSyncedAt = at,
               !.fingerprint = Fingerprint(Applied(row, snapshot)) ]

Updated(row, snapshot, at) ==
  [ id |-> row.id, content |-> Stored(Applied(row, snapshot)),
    protected |-> row.protected,
    createdAt |-> row.createdAt, updatedAt |-> at, lastSyncedAt |-> at,
    fingerprint |-> Fingerprint(snapshot) ]

FreshIds == {id \in Ids :
  \A e \in Products : products[e] # None => products[e].id # id}

\* product_to_domain can read the row back.
Readable(e) == Valid(e, products[e].content)

Init ==
  /\ products = [e \in Products |-> None]
  /\ clock = 0
  /\ answer = [change |-> "none", product |-> None, snapshot |-> None]

Answer(change, e, snapshot) ==
  answer' = [change |-> change, product |-> e, snapshot |-> snapshot]

\* One of the three branches of upsert_incremental, and what it reports.
Insert(e, snapshot) ==
  /\ products[e] = None
  /\ Fits(e, snapshot)
  /\ \E id \in FreshIds, fields \in Protections :
       products' = [products EXCEPT ![e] =
                      Inserted(id, snapshot, fields, clock')]

KeepUnchanged(e, snapshot) ==
  /\ products[e] # None
  /\ products[e].fingerprint = Fingerprint(snapshot)
  /\ Readable(e)
  /\ products' = [products EXCEPT ![e] = Resynced(@, clock')]

Update(e, snapshot) ==
  /\ products[e] # None
  /\ products[e].fingerprint # Fingerprint(snapshot)
  /\ Readable(e)
  /\ Fits(e, Applied(products[e], snapshot))
  /\ products' = [products EXCEPT ![e] = Updated(@, snapshot, clock')]

\* The transaction raises and, if its reply was lost, has committed.
UpsertRaises(e, snapshot) ==
  /\ DbFails
  /\ \/ Insert(e, snapshot) \/ KeepUnchanged(e, snapshot)
     \/ Update(e, snapshot) \/ UNCHANGED products
  /\ Answer("raised", e, snapshot)

\* The database refuses a text or a number that its column cannot hold.
Overflows(e, snapshot) ==
  /\ IF products[e] = None
     THEN ~Fits(e, snapshot)
     ELSE /\ Readable(e)
          /\ products[e].fingerprint # Fingerprint(snapshot)
          /\ ~Fits(e, Applied(products[e], snapshot))
  /\ UNCHANGED products
  /\ Answer("raised", e, snapshot)

Unreadable(e, snapshot) ==
  /\ products[e] # None
  /\ ~Readable(e)
  /\ UNCHANGED products
  /\ Answer("unreadable", e, snapshot)

Upsert(e, snapshot) ==
  \/ Insert(e, snapshot) /\ Answer("created", e, snapshot)
  \/ KeepUnchanged(e, snapshot) /\ Answer("unchanged", e, snapshot)
  \/ Update(e, snapshot) /\ Answer("updated", e, snapshot)
  \/ Unreadable(e, snapshot)
  \/ Overflows(e, snapshot)
  \/ UpsertRaises(e, snapshot)

Tick == clock < MaxImports /\ clock' = clock + 1

Accepted(p) ==
  /\ Mappable(p) /\ Normalizable(p)
  /\ Valid(Strip[p.externalId], Normalized(p))

\* The stage that refuses the item: the mapper or the normalizer, or the
\* constructor of a price, of an image or of the product.
Refusal(p) ==
  LET content == Normalized(p)
  IN  IF ~(Mappable(p) /\ Normalizable(p)) THEN "rejected"
      ELSE IF \E i \in DOMAIN content.prices : content.prices[i].quantity = 0
      THEN "invalid_quantity"
      ELSE IF ~ValidImage(content.image) THEN "invalid_image"
      ELSE "invalid"

Refuse(p) ==
  /\ Tick
  /\ ~Accepted(p)
  /\ UNCHANGED products
  /\ Answer(Refusal(p), None, None)

Import(p) ==
  /\ Tick
  /\ Accepted(p)
  /\ Upsert(Strip[p.externalId], Snapshot(p))

AllDone == clock = MaxImports /\ UNCHANGED vars

Next ==
  \/ \E p \in Payloads : Refuse(p) \/ Import(p)
  \/ AllDone

Spec == Init /\ [][Next]_vars

-----------------------------------------------------------------------------
(* Safety. *)

\* What the columns of a row hold: four decimals of a quantity, two of a price.
RowContent ==
  {content \in Content : \A i \in DOMAIN content.prices :
     content.prices[i].quantity % 10 = 0 /\ content.prices[i].amount % 10 = 0}

Row == [
  id : Ids, content : RowContent, protected : SUBSET Fields,
  createdAt : Nat, updatedAt : Nat, lastSyncedAt : Nat, fingerprint : Content ]

\* Every variable keeps its type, and every row fits its columns.
TypeOK ==
  /\ products \in [Products -> Row \cup {None}]
  /\ \A e \in Products : products[e] # None => Fits(e, products[e].content)
  /\ clock \in 0..MaxImports
  /\ answer.change \in {"none", "created", "unchanged", "updated", "unreadable",
                        "raised", "rejected", "invalid_quantity",
                        "invalid_image", "invalid"}

\* The constructors of the catalog check again, by rules of their own, what
\* ingestion normalized.  Of all they check, two things alone can refuse what
\* normalization accepted: a quantity that became zero, and the address of an
\* image that lost its host.
ConstructorsAgree == answer.change # "invalid"

\* A row holds what its fingerprint says the source last sent, in every field
\* that is not protected, as far as its columns can hold it.  An import that
\* is taken for a repetition would change no such field.
RowIsTheSource ==
  \A e \in Products : products[e] # None =>
    \A f \in DOMAIN products[e].content \ products[e].protected :
      products[e].content[f] = Stored(products[e].fingerprint)[f]

\* A row as ProductRegister holds it.
RegisterOf(row) ==
  [ id |-> row.id, protected |-> row.protected,
    kept |-> [f \in row.protected |-> row.content[f]],
    snapshot |-> row.fingerprint ]

\* What the register may hold of a product.
Held == [
  id : Ids, protected : SUBSET Fields,
  kept : UNION {[fields -> Texts \cup (Maybe(Texts) \X Maybe(Texts))] :
                  fields \in SUBSET Fields},
  snapshot : Content ]

\* A row is something, and so is what the register holds.
ASSUME RegisterAssumption == None \notin Row /\ None \notin Held

\* The table as a register, and what its callers are told.
Entry(row) == IF row = None THEN None ELSE RegisterOf(row)

Entries == [e \in Products |-> Entry(products[e])]

Failures == {"unreadable", "raised", "rejected", "invalid_quantity",
             "invalid_image", "invalid"}

Said == [answer EXCEPT !.change = IF @ \in Failures THEN "failed" ELSE @]

Register == INSTANCE ProductRegister WITH
  register <- Entries, now <- clock, reply <- Said

\* The rows and the answers are those of ProductRegister: identities and
\* protected values are never lost, what is reported created, updated or
\* unchanged is, and an import that failed left the row as it was or as it
\* would be had it succeeded.
ImplementsRegister == Register!Spec

\* docs/contracts/product-contract.md, PriceOptionInput: "quantity: Decimal
\* positivo".  Whatever is stored can be read back as a product.
StoredIsReadable == \A e \in Products : products[e] # None => Readable(e)
=============================================================================
