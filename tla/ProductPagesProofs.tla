------------------------- MODULE ProductPagesProofs -------------------------
(***************************************************************************)
(* Theorems about ProductPages, for any settings and any server: whatever  *)
(* is answered, cut, repeated or asked for in a header, the client counts  *)
(* its requests, its attempts and its waiting.                             *)
(***************************************************************************)
EXTENDS ProductPages, FiniteSetTheorems, SequenceTheorems, TLAPS

\* The request, the catalog and the pages keep their types.
DataTyped ==
  /\ settings \in Configurations
  /\ catalog \in Seq(Nat)
  /\ request \in Request /\ request.page >= 1
  /\ yielded \in Seq(Nat)
  /\ last \in BOOLEAN

\* The loops of the client count what they do.
Counted ==
  /\ pc \in {"ask", "get", "yield", "end"}
  /\ result \in Results
  /\ pc # "end" => result = "none"
  /\ seen \subseteq (Nat \X Nat \X Nat \X Nat)
  /\ IsFiniteSet(seen) /\ Cardinality(seen) = rounds
  /\ rounds \in Nat /\ status \in Nat /\ waited \in Nat \cup {NotANumber}
  /\ attempt \in 0..(Attempts - 1)
  /\ BoundedPatience
  /\ waited = NotANumber => NotANumber \in RetryAfters
  /\ RetryBudget

IInv == DataTyped /\ Counted

\* The constants, with their types.
LEMMA Constants ==
  /\ Limit \in Nat \ {0} /\ Attempts \in Nat \ {0} /\ MaxPages \in Nat \ {0}
  /\ Backoff \in Nat \ {0} /\ MaxDelay \in Nat \ {0}
  /\ \A n \in 0..Attempts : Backoff * 2^n \in Nat
  /\ RetryAfters \subseteq Int \cup {NotANumber}
  /\ NoHeader \notin Int /\ NotANumber \notin Int /\ NoHeader # NotANumber
  /\ StatusCodes \subseteq Nat /\ Tokens \subseteq Nat
BY ConfigAssumption

LEMMA SettingsType ==
  ASSUME settings \in Configurations
  PROVE  /\ settings.mode \in Modes /\ settings.size \in Nat
         /\ settings.growth \in Nat /\ settings.cap \in Nat \ {0}
BY ConfigAssumption DEF Configuration

-----------------------------------------------------------------------------
(* Data. *)

Envelope == [items : Seq(Nat), hasMore : BOOLEAN, cursor : Nat, link : Nat]

LEMMA ProductType ==
  ASSUME NEW a \in Nat, NEW b \in Nat
  PROVE  a * b \in Nat
OBVIOUS

LEMMA SameFactor ==
  ASSUME NEW a \in Int, NEW b \in Int, NEW m \in Nat \ {0}, a * m = b * m
  PROVE  a = b
OBVIOUS

\* An honest server starts a page at an index of its catalog, or after it.
LEMMA StartType ==
  ASSUME DataTyped
  PROVE  Start(request) \in Nat /\ PageLength \in Nat
<1>1. /\ settings.mode \in Modes /\ settings.cap \in Nat /\ Limit \in Nat
      /\ request.page - 1 \in Nat /\ request.offset \in Nat
      /\ request.cursor \in Nat /\ request.nextUrl \in Nat
  BY SettingsType, Constants DEF DataTyped, Request
<1>2. PageLength \in Nat
  BY <1>1 DEF PageLength
<1>3. (request.page - 1) * PageLength \in Nat
  BY <1>1, <1>2, ProductType
<1> QED BY <1>1, <1>2, <1>3 DEF Start, Modes

\* A piece of the catalog is a page.
LEMMA PieceType ==
  ASSUME catalog \in Seq(Nat), NEW m \in Nat, NEW n \in Nat, n <= Len(catalog)
  PROVE  SubSeq(catalog, m + 1, n) \in Seq(Nat)
<1>1. \A i \in (m + 1)..n : catalog[i] \in Nat
  OBVIOUS
<1> QED BY <1>1, SubSeqProperties

LEMMA HonestEnvelopeType ==
  ASSUME DataTyped
  PROVE  HonestEnvelope(request) \in Envelope
<1> DEFINE stop == IF \/ settings.mode = "none"
                      \/ Start(request) + PageLength > Len(catalog)
                   THEN Len(catalog) ELSE Start(request) + PageLength
           more == stop < Len(catalog)
<1>1. /\ Start(request) \in Nat /\ PageLength \in Nat
      /\ Len(catalog) \in Nat /\ catalog \in Seq(Nat)
  BY StartType DEF DataTyped
<1>2. stop \in Nat /\ stop <= Len(catalog)
  BY <1>1
<1>3. HonestEnvelope(request) =
        [ items   |-> SubSeq(catalog, Start(request) + 1, stop),
          hasMore |-> more /\ ~settings.infer,
          cursor  |-> IF more /\ settings.mode = "cursor" THEN stop ELSE 0,
          link    |-> IF more /\ settings.mode = "link" THEN stop ELSE 0 ]
  BY DEF HonestEnvelope
<1> HIDE DEF stop
<1>4. SubSeq(catalog, Start(request) + 1, stop) \in Seq(Nat)
  BY <1>1, <1>2, PieceType
<1>5. (more /\ ~settings.infer) \in BOOLEAN
  OBVIOUS
<1> HIDE DEF more
<1> QED BY <1>2, <1>3, <1>4, <1>5 DEF Envelope

LEMMA EnvelopeType ==
  ASSUME DataTyped, NEW env \in Envelopes
  PROVE  env \in Envelope
<1>1. ASSUME NEW n \in 0..(Limit + 1) PROVE [i \in 1..n |-> 0] \in Seq(Nat)
  BY <1>1, Constants
<1>2. ASSUME env \in ArbitraryEnvelopes PROVE env \in Envelope
  <2> DEFINE Blanks == {[i \in 1..n |-> 0] : n \in 0..(Limit + 1)}
  <2>1. Blanks \subseteq Seq(Nat)
    BY <1>1
  <2>2. env \in [ items : Blanks, hasMore : BOOLEAN,
                  cursor : Tokens \cup {0}, link : Tokens \cup {0} ]
    BY <1>2 DEF ArbitraryEnvelopes
  <2> HIDE DEF Blanks
  <2>3. /\ env = [ items |-> env.items, hasMore |-> env.hasMore,
                   cursor |-> env.cursor, link |-> env.link ]
        /\ env.items \in Blanks /\ env.hasMore \in BOOLEAN
        /\ env.cursor \in Tokens \cup {0} /\ env.link \in Tokens \cup {0}
    BY <2>2, Zenon
  <2>4. /\ env.items \in Seq(Nat) /\ env.cursor \in Nat /\ env.link \in Nat
    BY <2>1, <2>3, Constants
  <2> QED BY <2>3, <2>4, Zenon DEF Envelope
<1> QED BY <1>2, HonestEnvelopeType DEF Envelopes

LEMMA NextRequestType ==
  ASSUME request \in Request, request.page >= 1, NEW env \in Envelope
  PROVE  /\ NextRequest(request, env) \in Request
         /\ NextRequest(request, env).page >= 1
<1>1. env.cursor \in Nat /\ env.link \in Nat /\ Limit \in Nat
  BY Constants DEF Envelope
<1>2. CASE settings.mode = "cursor"
  BY <1>1, <1>2 DEF NextRequest, FirstRequest, Request
<1>3. CASE settings.mode = "link"
  BY <1>1, <1>3 DEF NextRequest, FirstRequest, Request
<1>4. CASE settings.mode = "offset"
  <2>1. NextRequest(request, env) =
          [ page |-> request.page + 1, offset |-> request.offset + Limit,
            cursor |-> 0, nextUrl |-> 0 ]
    BY <1>4, Zenon DEF NextRequest, FirstRequest
  <2> QED BY <1>1, <2>1 DEF Request
<1>5. CASE settings.mode \notin {"cursor", "link", "offset"}
  BY <1>1, <1>5 DEF NextRequest, Request
<1> QED BY <1>2, <1>3, <1>4, <1>5

\* The server gains an item.
LEMMA PublishTyped ==
  ASSUME DataTyped, Publish
  PROVE  DataTyped'
<1>1. PICK n \in 0..Len(catalog) :
        catalog' = SubSeq(catalog, 1, n) \o <<Len(catalog) + 1>>
                     \o SubSeq(catalog, n + 1, Len(catalog))
  BY DEF Publish
<1>2. catalog \in Seq(Nat) /\ Len(catalog) \in Nat /\ n \in Nat /\ n <= Len(catalog)
  BY <1>1 DEF DataTyped
<1>3. /\ SubSeq(catalog, 0 + 1, n) \in Seq(Nat)
      /\ SubSeq(catalog, n + 1, Len(catalog)) \in Seq(Nat)
  BY <1>2, PieceType
<1>4. catalog' \in Seq(Nat)
  BY <1>1, <1>2, <1>3
<1> QED BY <1>4 DEF DataTyped, Publish

\* A step of the client keeps the types of its data.
LEMMA ClientTyped ==
  ASSUME DataTyped, ClientStep
  PROVE  DataTyped'
<1>1. ASSUME NEW code, NEW env \in Envelopes, GetPage(code, env)
      PROVE  DataTyped'
  <2>1. env \in Envelope /\ env.items \in Seq(Nat)
    BY EnvelopeType DEF Envelope
  <2>2. CASE Unnamed(env)
    BY <1>1, <2>2 DEF GetPage, Get, DataTyped
  <2>3. CASE ~Unnamed(env)
    <3>1. /\ yielded' = yielded \o env.items
          /\ last' = ~HasMore(env)
          /\ request' \in {NextRequest(request, env), request}
          /\ UNCHANGED <<settings, catalog>>
      BY <1>1, <2>3 DEF GetPage, Get
    <3>2. yielded' \in Seq(Nat)
      BY <2>1, <3>1 DEF DataTyped
    <3>3. last' \in BOOLEAN
      BY <3>1
    <3>4. request' \in Request /\ request'.page >= 1
      BY <2>1, <3>1, NextRequestType DEF DataTyped
    <3> QED BY <3>1, <3>2, <3>3, <3>4 DEF DataTyped
  <2> QED BY <2>2, <2>3
<1>2. CASE UNCHANGED <<settings, catalog, request, last, yielded>>
  BY <1>2 DEF DataTyped
<1> QED
  BY <1>1, <1>2 DEF ClientStep, AskPage, AskRefused, AskStopped, EnterRound,
     AskObject, Get, GetFails, GetRaises, GetRejected, GetUnreadable, GetObject,
     Resume

-----------------------------------------------------------------------------
(* Counts. *)

\* A delay that is a number is at most the longest one, and another delay is
\* what the server asked for.
LEMMA DelayBound ==
  ASSUME NEW n \in 0..Attempts, NEW after \in RetryAfters \cup {NoHeader},
         NEW delay, delay = RetryDelay(n, after)
  PROVE  \/ delay = NotANumber /\ NotANumber \in RetryAfters
         \/ delay # NotANumber /\ Slept(delay) \in Nat /\ Slept(delay) <= MaxDelay
<1> DEFINE asked == IF after # NoHeader THEN after ELSE Backoff * 2^n
<1>1. /\ asked \in Int \/ (asked = NotANumber /\ NotANumber \in RetryAfters)
      /\ MaxDelay \in Nat /\ NotANumber \notin Int
  <2>1. Backoff * 2^n \in Int
    BY Constants
  <2>2. RetryAfters \subseteq Int \cup {NotANumber}
    BY Constants
  <2>3. after # NoHeader =>
          after \in Int \/ (after = NotANumber /\ NotANumber \in RetryAfters)
    BY <2>2
  <2> QED BY <2>1, <2>3, Constants
<1>2. delay = IF asked = NotANumber THEN NotANumber
              ELSE IF asked < MaxDelay THEN asked ELSE MaxDelay
  BY DEF RetryDelay
<1> HIDE DEF asked
<1> QED BY <1>1, <1>2 DEF Slept

LEMMA OneMore ==
  ASSUME NEW a \in Nat, NEW m \in Nat
  PROVE  (a + 1) * m = a * m + m
OBVIOUS

\* What a request of the loop adds to the counts.
LEMMA RoundCounted ==
  ASSUME DataTyped, Counted, EnterRound, pc' \in {"get", "end"},
         pc' = "get" => result' = result,
         result' \in {"none", "invalid_payload", "configuration", "raised"}
  PROVE  Counted'
<1>1. /\ pc = "ask" /\ NotCycling /\ result = "none"
      /\ seen' = seen \cup {Identity(request)} /\ rounds' = rounds + 1
      /\ attempt' = 0 /\ waited' = 0 /\ status' = status
  BY DEF EnterRound, Counted
<1>2. Identity(request) \in Nat \X Nat \X Nat \X Nat
  BY DEF DataTyped, Request, Identity
<1>3. IsFiniteSet(seen') /\ Cardinality(seen') = rounds'
  BY <1>1, FS_AddElement DEF NotCycling, Counted
<1>4. BoundedPatience'
  BY <1>1, Constants DEF BoundedPatience
<1>7. waited' \in Nat /\ waited' # NotANumber
  BY <1>1, Constants
<1>5. RetryBudget'
  BY <1>1, Constants DEF RetryBudget
<1>6. 0 \in 0..(Attempts - 1)
  BY Constants
<1> QED BY <1>1, <1>2, <1>3, <1>4, <1>5, <1>6, <1>7 DEF Counted, Results

\* An answer that is retried, or whose error is given to the caller.
LEMMA FailureCounted ==
  ASSUME Counted, NEW code \in StatusCodes \cup {0}, GetFails(code)
  PROVE  Counted'
<1>1. /\ pc = "get" /\ result = "none" /\ status' = code /\ code \in Nat
      /\ UNCHANGED <<seen, rounds>>
      /\ code \in RetryableStatusCodes \cup {0}
  BY Constants DEF GetFails, Get, Counted
<1>2. attempt \in 0..(Attempts - 1) /\ Attempts \in Nat /\ waited \in Nat
  BY Constants DEF Counted
<1>3. CASE LastAttempt
  <2>1. /\ pc' = "end" /\ UNCHANGED <<attempt, waited>>
        /\ result' = IF code = 429 THEN "rate_limit" ELSE "unavailable"
    BY <1>3 DEF GetFails, End
  <2>2. attempt = Attempts - 1
    BY <1>2, <1>3 DEF LastAttempt
  <2>3. RetryBudget'
    BY <1>1, <1>2, <2>1, <2>2 DEF RetryBudget
  <2> QED BY <1>1, <2>1, <2>3 DEF Counted, BoundedPatience, Results
<1>4. CASE ~LastAttempt
  <2>1. Retry(code)
    BY <1>4 DEF GetFails
  <2>2. PICK after \in RetryAfters \cup {NoHeader} :
          \/ /\ attempt' = attempt + 1
             /\ waited' = SleptInAll(waited, RetryDelay(attempt, after))
             /\ UNCHANGED <<pc, result>>
          \/ /\ RetryDelay(attempt, after) = NotANumber
             /\ pc' = "end" /\ result' = "raised"
             /\ UNCHANGED <<attempt, waited>>
    BY <2>1 DEF Retry, RetryAfter, End
  <2>3. CASE attempt' = attempt
    BY <1>1, <1>2, <2>2, <2>3
       DEF Counted, BoundedPatience, RetryBudget, Results
  <2>4. CASE attempt' # attempt
    <3> DEFINE delay == RetryDelay(attempt, after)
    <3>1. /\ attempt' = attempt + 1 /\ UNCHANGED <<pc, result>>
          /\ waited' = SleptInAll(waited, delay)
      BY <2>2, <2>4
    <3>2. attempt' \in 0..(Attempts - 1)
      BY <1>2, <1>4, <3>1 DEF LastAttempt
    <3>3. \/ delay = NotANumber /\ NotANumber \in RetryAfters
          \/ delay # NotANumber /\ Slept(delay) \in Nat /\ Slept(delay) <= MaxDelay
      BY <1>2, DelayBound
    <3> HIDE DEF delay
    <3>4. /\ waited' \in Nat \cup {NotANumber}
          /\ waited' # NotANumber => waited' <= attempt' * MaxDelay
          /\ waited' = NotANumber => NotANumber \in RetryAfters
      <4>1. CASE NotANumber \in {waited, delay}
        BY <3>1, <3>3, <4>1 DEF SleptInAll, Counted
      <4>2. CASE NotANumber \notin {waited, delay}
        <5>1. /\ waited \in Nat /\ waited <= attempt * MaxDelay
              /\ MaxDelay \in Nat /\ attempt \in Nat
              /\ NotANumber \notin Int
          BY <1>2, <4>2, Constants DEF Counted, BoundedPatience
        <5>2. (attempt + 1) * MaxDelay = attempt * MaxDelay + MaxDelay
          BY <5>1, OneMore
        <5>3. attempt * MaxDelay \in Nat
          BY <5>1, ProductType
        <5>4. waited' = waited + Slept(delay)
          BY <3>1, <4>2 DEF SleptInAll
        <5> QED BY <3>1, <3>3, <4>2, <5>1, <5>2, <5>3, <5>4
      <4> QED BY <4>1, <4>2
    <3>5. RetryBudget'
      BY <1>1, <1>2, <3>1, <3>2 DEF RetryBudget
    <3> QED BY <1>1, <3>1, <3>2, <3>4, <3>5 DEF Counted, BoundedPatience
  <2> QED BY <2>3, <2>4
<1> QED BY <1>3, <1>4

\* A step that only ends the read, or goes on, counts nothing.
LEMMA OthersCounted ==
  ASSUME Counted, UNCHANGED <<seen, rounds, attempt, waited>>, status' \in Nat,
         pc' \in {"ask", "get", "yield", "end"},
         pc # "end",
         \/ result' = "none"
         \/ pc' = "end" /\ result' \in Results \ {"rate_limit", "unavailable"}
  PROVE  Counted'
BY DEF Counted, BoundedPatience, RetryBudget, Results

LEMMA ClientCounted ==
  ASSUME DataTyped, Counted, ClientStep
  PROVE  Counted'
<1>1. CASE AskPage \/ AskRefused
  <2>1. result = "none"
    BY <1>1 DEF AskPage, AskRefused, EnterRound, Counted
  <2>2. /\ EnterRound /\ pc' \in {"get", "end"}
        /\ pc' = "get" => result' = result
        /\ result' \in {"none", "invalid_payload", "configuration", "raised"}
    BY <1>1, <2>1 DEF AskPage, AskRefused, End
  <2> QED BY <2>2, RoundCounted
<1>2. CASE AskStopped
  BY <1>2, OthersCounted DEF AskStopped, End, Results, Counted
<1>3. CASE GetRaises
  BY <1>3, OthersCounted DEF GetRaises, Get, End, Results, Counted
<1>4. ASSUME NEW blank \in BOOLEAN, AskObject(blank) PROVE Counted'
  BY <1>4, OthersCounted DEF AskObject, End, Results, Counted
<1>5. ASSUME NEW code \in StatusCodes \cup {0}, GetFails(code) PROVE Counted'
  BY <1>5, FailureCounted
<1>6. ASSUME NEW code \in StatusCodes \cup {0},
             GetRejected(code) \/ GetUnreadable(code) \/ GetObject(code)
      PROVE  Counted'
  BY <1>6, OthersCounted, Constants
     DEF GetRejected, GetUnreadable, GetObject, Get, End, Results, Counted
<1>7. ASSUME NEW code \in StatusCodes \cup {0}, NEW env \in Envelopes,
             GetPage(code, env)
      PROVE  Counted'
  BY <1>7, OthersCounted, Constants DEF GetPage, Get, End, Results, Counted
<1>8. CASE Resume
  BY <1>8, OthersCounted DEF Resume, End, Results, Counted
<1> QED BY <1>1, <1>2, <1>3, <1>4, <1>5, <1>6, <1>7, <1>8 DEF ClientStep

-----------------------------------------------------------------------------
(* Theorems. *)

LEMMA IInvInit == Init => IInv
<1> SUFFICES ASSUME Init PROVE IInv
  OBVIOUS
<1>1. settings.size \in Nat /\ settings \in Configurations
  BY SettingsType DEF Init
<1>2. DataTyped
  <2>1. catalog \in Seq(Nat) /\ yielded \in Seq(Nat)
    <3>1. catalog = [i \in 1..settings.size |-> i] /\ yielded = << >>
      BY DEF Init
    <3>2. catalog \in [1..settings.size -> Nat]
      BY <1>1, <3>1
    <3> QED BY <1>1, <3>1, <3>2
  <2>2. FirstRequest \in Request /\ FirstRequest.page >= 1
    BY DEF FirstRequest, Request
  <2>3. request \in Request /\ request.page >= 1 /\ last \in BOOLEAN
    BY <2>2 DEF Init
  <2> QED BY <1>1, <2>1, <2>3 DEF DataTyped
<1>3. Counted
  BY FS_EmptySet, Constants
     DEF Init, Counted, BoundedPatience, RetryBudget, Results
<1> QED BY <1>2, <1>3 DEF IInv

LEMMA IInvNext == IInv /\ [Next]_vars => IInv'
<1> SUFFICES ASSUME IInv, [Next]_vars PROVE IInv'
  OBVIOUS
<1>0. DataTyped /\ Counted
  BY DEF IInv
<1>1. CASE ClientStep
  BY <1>0, <1>1, ClientTyped, ClientCounted DEF IInv
<1>2. CASE Publish
  BY <1>0, <1>2, PublishTyped
     DEF IInv, Publish, Counted, BoundedPatience, RetryBudget
<1>3. CASE Drop
  <2>1. Counted'
    BY <1>0, <1>3, OthersCounted DEF Drop, End, Results, Counted
  <2> QED BY <1>0, <1>3, <2>1 DEF IInv, Drop, DataTyped
<1>4. CASE UNCHANGED vars
  BY <1>0, <1>4
     DEF IInv, vars, DataTyped, Counted, BoundedPatience, RetryBudget
<1> QED BY <1>1, <1>2, <1>3, <1>4 DEF Next, Ended

LEMMA Inductive == Spec => []IInv
  BY IInvInit, IInvNext, PTL DEF Spec

\* Whatever the server sends, every variable keeps its type.
THEOREM PagesTypeCorrect == Spec => []TypeOK
<1>1. IInv => TypeOK
  BY Constants DEF IInv, DataTyped, Counted, TypeOK
<1> QED BY <1>1, Inductive, PTL

\* The client gives up when its attempts are spent, and says why.
THEOREM BudgetIsKept == Spec => []RetryBudget
<1>1. IInv => RetryBudget
  BY DEF IInv, Counted
<1> QED BY <1>1, Inductive, PTL

\* No Retry-After that is a number makes the client wait longer than its
\* settings allow; from a server that never sends a NaN, none at all does.
THEOREM PatienceIsBounded ==
  Spec => [](/\ BoundedPatience
             /\ waited = NotANumber => NotANumber \in RetryAfters)
<1>1. IInv => /\ BoundedPatience
              /\ waited = NotANumber => NotANumber \in RetryAfters
  BY DEF IInv, Counted
<1> QED BY <1>1, Inductive, PTL

-----------------------------------------------------------------------------
(* No query is sent twice.                                                 *)

\* The requests of a mode differ only in the part of them that is sent, or
\* that part follows from the page, as the offset does.
ShapedAs(id) ==
  CASE settings.mode = "none" -> TRUE
    [] settings.mode = "page" -> id[2] = 0 /\ id[3] = 0 /\ id[4] = 0
    [] settings.mode = "offset" ->
         id[2] = (id[1] - 1) * Limit /\ id[3] = 0 /\ id[4] = 0
    [] settings.mode = "cursor" -> id[1] = 1 /\ id[2] = 0 /\ id[4] = 0
    [] settings.mode = "link" -> id[1] = 1 /\ id[2] = 0 /\ id[3] = 0

Shaped == \A id \in seen \cup {Identity(request)} : ShapedAs(id)

\* Two requests of one shape that send the same are the same.
LEMMA QueryTells ==
  ASSUME settings.mode \in Modes \ {"none"},
         NEW a \in Nat \X Nat \X Nat \X Nat, ShapedAs(a),
         NEW b \in Nat \X Nat \X Nat \X Nat, ShapedAs(b),
         Query(a) = Query(b)
  PROVE  a = b
<1>1. /\ a = <<a[1], a[2], a[3], a[4]>> /\ b = <<b[1], b[2], b[3], b[4]>>
      /\ a[1] \in Nat /\ b[1] \in Nat
  OBVIOUS
<1>2. CASE settings.mode = "offset"
  <2>1. (a[1] - 1) * Limit = (b[1] - 1) * Limit
    BY <1>2 DEF Query, ShapedAs
  <2>2. a[1] - 1 = b[1] - 1
    BY <1>1, <2>1, Constants, SameFactor
  <2> QED BY <1>1, <1>2, <2>1, <2>2 DEF ShapedAs
<1>3. CASE settings.mode # "offset"
  BY <1>1, <1>3 DEF Query, ShapedAs, Modes
<1> QED BY <1>2, <1>3

\* The next request has the shape of its mode.
LEMMA NextShaped ==
  ASSUME DataTyped, ShapedAs(Identity(request)), NEW env \in Envelope
  PROVE  ShapedAs(Identity(NextRequest(request, env)))
<1>0. /\ request.page \in Nat /\ request.page - 1 \in Nat /\ Limit \in Nat
      /\ settings.mode \in Modes
  BY SettingsType, Constants DEF DataTyped, Request
<1>1. CASE settings.mode = "offset"
  <2>1. NextRequest(request, env) =
          [ page |-> request.page + 1, offset |-> request.offset + Limit,
            cursor |-> 0, nextUrl |-> 0 ]
    BY <1>1, Zenon DEF NextRequest, FirstRequest
  <2>2. Identity(NextRequest(request, env)) =
          <<request.page + 1, request.offset + Limit, 0, 0>>
    BY <2>1 DEF Identity
  <2>3. request.offset = (request.page - 1) * Limit
    BY <1>1 DEF ShapedAs, Identity
  <2> DEFINE a == request.page - 1
  <2>4. (a + 1) * Limit = a * Limit + Limit /\ (request.page + 1) - 1 = a + 1
    BY <1>0, OneMore
  <2> QED BY <1>1, <2>2, <2>3, <2>4 DEF ShapedAs
<1>2. CASE settings.mode \in {"cursor", "link"}
  BY <1>2 DEF NextRequest, FirstRequest, Identity, ShapedAs
<1>3. CASE settings.mode = "page"
  <2>1. /\ NextRequest(request, env).offset = request.offset
        /\ NextRequest(request, env).cursor = request.cursor
        /\ NextRequest(request, env).nextUrl = request.nextUrl
    BY <1>3 DEF NextRequest, DataTyped, Request
  <2> QED BY <1>3, <2>1 DEF Identity, ShapedAs
<1>4. CASE settings.mode = "none"
  BY <1>4 DEF ShapedAs
<1> QED BY <1>0, <1>1, <1>2, <1>3, <1>4 DEF Modes

LEMMA ShapedInit == Init => Shaped
<1> SUFFICES ASSUME Init PROVE Shaped
  OBVIOUS
<1>1. settings.mode \in Modes /\ seen = {} /\ Limit \in Nat
  BY SettingsType, Constants DEF Init
<1>2. Identity(request) = <<1, 0, 0, 0>>
  BY DEF Init, Identity, FirstRequest
<1>3. ShapedAs(<<1, 0, 0, 0>>)
  <2>1. (1 - 1) * Limit = 0
    BY <1>1
  <2>2. settings.mode = "offset" => ShapedAs(<<1, 0, 0, 0>>)
    BY <2>1 DEF ShapedAs
  <2>3. settings.mode # "offset" => ShapedAs(<<1, 0, 0, 0>>)
    BY <1>1 DEF ShapedAs, Modes
  <2> QED BY <2>2, <2>3
<1> QED BY <1>1, <1>2, <1>3 DEF Shaped

LEMMA ShapedNext == IInv /\ Shaped /\ [Next]_vars => Shaped'
<1> SUFFICES ASSUME IInv, Shaped, [Next]_vars PROVE Shaped'
  OBVIOUS
<1>0. DataTyped /\ ShapedAs(Identity(request))
  BY DEF IInv, Shaped
<1>1. ASSUME UNCHANGED settings,
             request' = request,
             seen' \in {seen, seen \cup {Identity(request)}}
      PROVE  Shaped'
  BY <1>1 DEF Shaped, ShapedAs, Identity
<1>2. ASSUME NEW code, NEW env \in Envelopes, GetPage(code, env)
      PROVE  Shaped'
  <2>1. /\ UNCHANGED <<settings, seen>>
        /\ request' \in {request, NextRequest(request, env)}
    BY <1>2 DEF GetPage, Get
  <2>2. env \in Envelope
    BY <1>0, EnvelopeType
  <2>3. ShapedAs(Identity(NextRequest(request, env)))
    BY <1>0, <2>2, NextShaped
  <2>4. ASSUME NEW id PROVE ShapedAs(id)' <=> ShapedAs(id)
    BY <2>1 DEF ShapedAs
  <2>5. CASE request' = request
    BY <1>1, <2>1, <2>5
  <2>6. CASE request' = NextRequest(request, env)
    BY <2>1, <2>3, <2>6 DEF Shaped, ShapedAs, Identity
  <2> QED BY <2>1, <2>5, <2>6
<1> QED
  BY <1>1, <1>2 DEF Next, vars, ClientStep, AskPage, AskRefused, AskStopped,
     EnterRound, AskObject, Get, GetFails, GetRaises, GetRejected,
     GetUnreadable, GetObject, Resume, Publish, Drop, Ended

\* As many queries were sent as requests were made.
LEMMA ShapedCounts == IInv /\ Shaped => NoQueryRepeated
<1> SUFFICES ASSUME IInv, Shaped, settings.mode # "none"
             PROVE  Cardinality({Query(id) : id \in seen}) = rounds
  BY DEF NoQueryRepeated
<1> DEFINE T == {Query(id) : id \in seen}
           q == [id \in seen |-> Query(id)]
<1>1. /\ settings.mode \in Modes \ {"none"}
      /\ seen \subseteq (Nat \X Nat \X Nat \X Nat)
      /\ IsFiniteSet(seen) /\ Cardinality(seen) = rounds
  BY SettingsType DEF IInv, DataTyped, Counted
<1>2. q \in [seen -> T] /\ \A y \in T : \E id \in seen : q[id] = y
  OBVIOUS
<1>3. ASSUME NEW a \in seen, NEW b \in seen, q[a] = q[b] PROVE a = b
  BY <1>1, <1>3, QueryTells DEF Shaped
<1> HIDE DEF q, T
<1>4. q \in Bijection(seen, T)
  BY <1>2, <1>3 DEF Bijection, Injection, Surjection, IsInjective
<1>5. ExistsBijection(seen, T)
  BY <1>4 DEF ExistsBijection
<1>6. Cardinality(T) = Cardinality(seen)
  BY <1>1, <1>5, FS_Bijection
<1> QED BY <1>1, <1>6 DEF T

\* Whatever the server answers, no query is sent to it twice.
THEOREM QueriesDiffer == Spec => []NoQueryRepeated
BY Inductive, ShapedInit, ShapedNext, ShapedCounts, PTL DEF Spec

-----------------------------------------------------------------------------
(* The pages of an honest server.                                          *)

\* Where the page asked for ends, and whether items follow it.
Stop ==
  IF settings.mode = "none" \/ Start(request) + PageLength > Len(catalog)
  THEN Len(catalog) ELSE Start(request) + PageLength

More == Stop < Len(catalog)

\* How far the next request starts after this one.
Stride == IF settings.mode = "offset" THEN Limit ELSE PageLength

LEMMA PageLengthBound ==
  ASSUME DataTyped
  PROVE  /\ PageLength \in Nat /\ PageLength > 0 /\ PageLength <= Limit
         /\ Stride \in Nat /\ Stride > 0
         /\ Capped => PageLength < Limit
         /\ ~Capped => PageLength = Limit /\ Stride = Limit
<1>1. settings.cap \in Nat \ {0} /\ Limit \in Nat \ {0}
  BY SettingsType, Constants DEF DataTyped
<1> QED BY <1>1 DEF PageLength, Stride, Capped

LEMMA StopBound ==
  ASSUME DataTyped
  PROVE  /\ Start(request) \in Nat /\ Len(catalog) \in Nat
         /\ Stop \in Nat /\ Stop <= Len(catalog)
         /\ More => settings.mode # "none" /\ Stop = Start(request) + PageLength
         /\ settings.mode # "none" => Stop <= Start(request) + PageLength
<1>1. /\ Start(request) \in Nat /\ PageLength \in Nat /\ Len(catalog) \in Nat
  BY StartType DEF DataTyped
<1> QED BY <1>1 DEF Stop, More

LEMMA HonestItems ==
  ASSUME DataTyped, NEW env, env = HonestEnvelope(request)
  PROVE  /\ env.items = SubSeq(catalog, Start(request) + 1, Stop)
         /\ env.items \in Seq(Nat)
         /\ Len(env.items) =
              IF Start(request) < Stop THEN Stop - Start(request) ELSE 0
         /\ \A k \in (Start(request) + 1)..Stop :
              env.items[k - Start(request)] = catalog[k]
<1> DEFINE s == Start(request)
<1>1. env.items = SubSeq(catalog, s + 1, Stop)
  BY DEF HonestEnvelope, Stop
<1>2. s \in Nat /\ Stop \in Nat /\ Stop <= Len(catalog) /\ catalog \in Seq(Nat)
  BY StopBound DEF DataTyped
<1>3. \A k \in (s + 1)..Stop : catalog[k] \in Nat
  BY <1>2, ElementOfSeq
<1> HIDE DEF s
<1>4. /\ SubSeq(catalog, s + 1, Stop) \in Seq(Nat)
      /\ Len(SubSeq(catalog, s + 1, Stop)) =
           IF s + 1 <= Stop THEN Stop - (s + 1) + 1 ELSE 0
      /\ \A i \in 1..(Stop - (s + 1) + 1) :
           SubSeq(catalog, s + 1, Stop)[i] = catalog[(s + 1) + i - 1]
  BY <1>2, <1>3, SubSeqProperties, SMTT(30)
<1>5. \A k \in (s + 1)..Stop : env.items[k - s] = catalog[k]
  <2> SUFFICES ASSUME NEW k \in (s + 1)..Stop
               PROVE  env.items[k - s] = catalog[k]
    OBVIOUS
  <2>1. k - s \in 1..(Stop - (s + 1) + 1) /\ (s + 1) + (k - s) - 1 = k
    BY <1>2
  <2> QED BY <1>1, <1>4, <2>1
<1>6. Len(env.items) = IF s < Stop THEN Stop - s ELSE 0
  BY <1>1, <1>2, <1>4
<1> QED BY <1>1, <1>4, <1>5, <1>6 DEF s

\* What an honest page says of the next one.
LEMMA HonestMore ==
  ASSUME DataTyped, NEW env, env = HonestEnvelope(request)
  PROVE  /\ HasMore(env) <=>
              \/ More /\ (~settings.infer \/ settings.mode \in {"cursor", "link"})
              \/ settings.infer /\ Len(env.items) = Limit
         /\ Unnamed(env) <=>
              HasMore(env) /\ settings.mode \in {"cursor", "link"} /\ ~More
         /\ settings.mode = "cursor" => env.cursor = IF More THEN Stop ELSE 0
         /\ settings.mode = "link" => env.link = IF More THEN Stop ELSE 0
<1>1. /\ env.hasMore = (More /\ ~settings.infer)
      /\ env.cursor = IF More /\ settings.mode = "cursor" THEN Stop ELSE 0
      /\ env.link = IF More /\ settings.mode = "link" THEN Stop ELSE 0
  BY DEF HonestEnvelope, Stop, More
<1>2. More => Stop # 0
  BY StopBound, PageLengthBound
<1>3. /\ env.cursor # 0 <=> More /\ settings.mode = "cursor"
      /\ env.link # 0 <=> More /\ settings.mode = "link"
  BY <1>1, <1>2
<1>4. HasMore(env) <=>
        \/ More /\ (~settings.infer \/ settings.mode \in {"cursor", "link"})
        \/ settings.infer /\ Len(env.items) = Limit
  BY <1>1, <1>3, Zenon DEF HasMore
<1>5. Unnamed(env) <=>
        HasMore(env) /\ settings.mode \in {"cursor", "link"} /\ ~More
  BY <1>3, <1>4 DEF Unnamed
<1> QED BY <1>1, <1>4, <1>5

\* The next request starts one stride further.
LEMMA NextStart ==
  ASSUME DataTyped, NEW env, env = HonestEnvelope(request),
         HasMore(env), ~Unnamed(env)
  PROVE  Start(NextRequest(request, env)) =
           IF settings.mode = "none" THEN 0 ELSE Start(request) + Stride
<1>0. settings.mode \in Modes /\ PageLength \in Nat /\ Limit \in Nat
  BY SettingsType, PageLengthBound, Constants DEF DataTyped
<1>1. CASE settings.mode = "none"
  BY <1>1 DEF Start
<1>2. CASE settings.mode = "page"
  <2>1. NextRequest(request, env).page = request.page + 1 /\ request.page \in Nat
    BY <1>2 DEF NextRequest, DataTyped, Request
  <2> DEFINE a == request.page - 1
  <2>2. a \in Nat /\ NextRequest(request, env).page - 1 = a + 1
    BY <2>1 DEF DataTyped
  <2>3. (a + 1) * PageLength = a * PageLength + PageLength
    BY <1>0, <2>2, OneMore
  <2> QED BY <1>2, <2>2, <2>3 DEF Start, Stride
<1>3. CASE settings.mode = "offset"
  <2>1. NextRequest(request, env).offset = request.offset + Limit
    BY <1>3 DEF NextRequest, FirstRequest
  <2> QED BY <1>3, <2>1 DEF Start, Stride
<1>4. CASE settings.mode = "cursor"
  <2>1. NextRequest(request, env).cursor = env.cursor
    BY <1>4 DEF NextRequest, FirstRequest
  <2>2. env.cursor = Stop /\ More
    BY <1>4, HonestMore
  <2> QED BY <1>4, <2>1, <2>2, StopBound DEF Start, Stride
<1>5. CASE settings.mode = "link"
  <2>1. NextRequest(request, env).nextUrl = env.link
    BY <1>5 DEF NextRequest, FirstRequest
  <2>2. env.link = Stop /\ More
    BY <1>5, HonestMore
  <2> QED BY <1>5, <2>1, <2>2, StopBound DEF Start, Stride
<1> QED BY <1>0, <1>1, <1>2, <1>3, <1>4, <1>5 DEF Modes

\* Between two pages, or at the last one.
Asking == pc \in {"ask", "get"} \/ (pc = "yield" /\ ~last)

Finished == (pc = "yield" /\ last) \/ result = "whole"

\* The step that hands out a page.
PageStep(env) ==
  /\ pc = "get" /\ pc' = "yield" /\ result' = result
  /\ settings.read = "pages" /\ ~Unnamed(env)
  /\ yielded' = yielded \o env.items
  /\ last' = ~HasMore(env)
  /\ request' = IF HasMore(env) THEN NextRequest(request, env) ELSE request
  /\ UNCHANGED <<settings, catalog, seen, rounds>>

\* Every other step, but Resume, hands out nothing, and may end the read.
QuietStep ==
  /\ pc # "end"
  /\ UNCHANGED <<settings, catalog, request, last, yielded>>
  /\ \/ pc' = "end" /\ result' \notin {"none", "whole"}
     \/ pc \in {"ask", "get"} /\ pc' = "get" /\ result' = result

LEMMA StepKinds ==
  ASSUME ClientStep
  PROVE  \/ \E env \in Envelopes : PageStep(env)
         \/ QuietStep
         \/ Resume
<1>1. ASSUME NEW code \in StatusCodes \cup {0}, NEW env \in Envelopes,
             GetPage(code, env)
      PROVE  PageStep(env) \/ QuietStep
  <2>1. CASE Unnamed(env)
    BY <1>1, <2>1 DEF GetPage, Get, End, QuietStep
  <2>2. CASE ~Unnamed(env)
    BY <1>1, <2>2 DEF GetPage, Get, PageStep
  <2> QED BY <2>1, <2>2
<1>2. ASSUME NEW code \in StatusCodes \cup {0},
             \/ GetFails(code) \/ GetRejected(code) \/ GetUnreadable(code)
             \/ GetObject(code)
      PROVE  QuietStep
  BY <1>2 DEF GetFails, GetRejected, GetUnreadable, GetObject, Get, End, Retry,
              QuietStep
<1>3. CASE GetRaises \/ AskPage \/ AskRefused \/ AskStopped
  BY <1>3 DEF GetRaises, AskPage, AskRefused, AskStopped, EnterRound, Get, End,
              QuietStep
<1>4. ASSUME NEW blank \in BOOLEAN, AskObject(blank) PROVE QuietStep
  BY <1>4 DEF AskObject, End, QuietStep
<1> QED BY <1>1, <1>2, <1>3, <1>4 DEF ClientStep

-----------------------------------------------------------------------------
(* Nothing is skipped.                                                     *)

Originals == 1..settings.size

\* The catalog only gains items, and none of them is an original one.
CatalogHolds ==
  /\ Len(catalog) >= settings.size
  /\ \A x \in Originals : \E k \in 1..Len(catalog) : catalog[k] = x

IsHanded(x) == \E i \in 1..Len(yielded) : yielded[i] = x

\* The original items before the next page were handed out.
PassedIsHanded ==
  \A k \in 1..Len(catalog), x \in Originals :
    k <= Start(request) /\ catalog[k] = x => IsHanded(x)

SkipInv ==
  /\ CatalogHolds
  /\ settings.server = "honest" /\ PagesAgree =>
       /\ Asking => PassedIsHanded
       /\ Finished => \A x \in Originals : IsHanded(x)

\* Where the items are after the server gained one.
LEMMA Inserted ==
  ASSUME DataTyped, NEW n \in 0..Len(catalog), NEW x \in Nat,
         catalog' = SubSeq(catalog, 1, n) \o <<x>>
                      \o SubSeq(catalog, n + 1, Len(catalog))
  PROVE  /\ Len(catalog') = Len(catalog) + 1
         /\ \A k \in 1..(Len(catalog) + 1) :
              catalog'[k] = IF k <= n THEN catalog[k]
                            ELSE IF k = n + 1 THEN x ELSE catalog[k - 1]
<1> DEFINE a == SubSeq(catalog, 1, n)
           b == SubSeq(catalog, n + 1, Len(catalog))
<1>1. catalog \in Seq(Nat) /\ Len(catalog) \in Nat /\ n \in Nat /\ n <= Len(catalog)
  BY DEF DataTyped
<1>2. \A i \in 1..Len(catalog) : catalog[i] \in Nat
  BY <1>1, ElementOfSeq
<1>3. /\ a \in Seq(Nat) /\ Len(a) = n
      /\ \A i \in 1..n : a[i] = catalog[i]
  <2>1. /\ a \in Seq(Nat) /\ Len(a) = IF 1 <= n THEN n - 1 + 1 ELSE 0
        /\ \A i \in 1..(n - 1 + 1) : a[i] = catalog[1 + i - 1]
    BY <1>1, <1>2, SubSeqProperties
  <2> HIDE DEF a
  <2> QED BY <1>1, <2>1
<1>4. /\ b \in Seq(Nat) /\ Len(b) = Len(catalog) - n
      /\ \A i \in 1..(Len(catalog) - n) : b[i] = catalog[n + i]
  <2>1. /\ b \in Seq(Nat)
        /\ Len(b) = IF n + 1 <= Len(catalog) THEN Len(catalog) - (n + 1) + 1
                    ELSE 0
        /\ \A i \in 1..(Len(catalog) - (n + 1) + 1) :
             b[i] = catalog[(n + 1) + i - 1]
    BY <1>1, <1>2, SubSeqProperties
  <2> HIDE DEF b
  <2> QED BY <1>1, <2>1
<1> HIDE DEF a, b
<1>5. <<x>> \in Seq(Nat) /\ Len(<<x>>) = 1 /\ <<x>>[1] = x
  OBVIOUS
<1> DEFINE ax == a \o <<x>>
<1>6. /\ ax \in Seq(Nat) /\ Len(ax) = n + 1
      /\ \A i \in 1..(n + 1) : ax[i] = IF i <= n THEN catalog[i] ELSE x
  <2>1. /\ ax \in Seq(Nat) /\ Len(ax) = Len(a) + Len(<<x>>)
        /\ \A i \in 1..(Len(a) + Len(<<x>>)) :
             ax[i] = IF i <= Len(a) THEN a[i] ELSE <<x>>[i - Len(a)]
    BY <1>3, <1>5, ConcatProperties
  <2> HIDE DEF ax
  <2>2. \A i \in 1..(n + 1) : ax[i] = IF i <= n THEN a[i] ELSE <<x>>[i - n]
    BY <1>1, <1>3, <1>5, <2>1
  <2>3. \A i \in 1..(n + 1) : ~(i <= n) => i - n = 1
    BY <1>1
  <2> QED BY <1>1, <1>3, <1>5, <2>1, <2>2, <2>3
<1> HIDE DEF ax
<1>7. catalog' = ax \o b
  BY DEF ax, a, b
<1>8. /\ Len(catalog') = Len(ax) + Len(b)
      /\ \A i \in 1..(Len(ax) + Len(b)) :
           catalog'[i] = IF i <= Len(ax) THEN ax[i] ELSE b[i - Len(ax)]
  <2>1. /\ Len(ax \o b) = Len(ax) + Len(b)
        /\ \A i \in 1..(Len(ax) + Len(b)) :
             (ax \o b)[i] = IF i <= Len(ax) THEN ax[i] ELSE b[i - Len(ax)]
    BY <1>4, <1>6, ConcatProperties
  <2> QED BY <1>7, <2>1, Zenon
<1> DEFINE m == Len(catalog)
           c == catalog'
<1>9. Len(c) = m + 1
  <2>1. Len(ax) + Len(b) = m + 1
    BY <1>1, <1>4, <1>6
  <2> QED BY <1>8, <2>1, Zenon
<1>10. \A i \in 1..(m + 1) : c[i] = IF i <= n + 1 THEN ax[i] ELSE b[i - (n + 1)]
  <2>1. Len(ax) + Len(b) = m + 1 /\ Len(ax) = n + 1
    BY <1>1, <1>4, <1>6
  <2> QED BY <1>8, <2>1, Zenon
<1> HIDE DEF m, c
<1>11. ASSUME NEW k \in 1..(m + 1)
      PROVE  c[k] = IF k <= n THEN catalog[k]
                    ELSE IF k = n + 1 THEN x ELSE catalog[k - 1]
  <2>1. CASE k <= n + 1
    <3>1. k \in 1..(n + 1) /\ c[k] = ax[k]
      BY <1>1, <1>10, <2>1 DEF m
    <3>2. ax[k] = IF k <= n THEN catalog[k] ELSE x
      BY <1>6, <3>1
    <3> QED BY <1>1, <2>1, <3>1, <3>2
  <2>2. CASE k > n + 1
    <3>1. k - (n + 1) \in 1..(Len(catalog) - n) /\ n + (k - (n + 1)) = k - 1
      BY <1>1, <2>2 DEF m
    <3>2. b[k - (n + 1)] = catalog[k - 1]
      BY <1>4, <3>1
    <3>3. c[k] = b[k - (n + 1)]
      BY <1>1, <1>10, <2>2
    <3> QED BY <1>1, <2>2, <3>2, <3>3
  <2> QED BY <1>1, <2>1, <2>2 DEF m
<1> QED BY <1>9, <1>11 DEF m, c

LEMMA SkipPublish ==
  ASSUME DataTyped, SkipInv, Publish
  PROVE  SkipInv'
<1>1. PICK n \in 0..Len(catalog) :
        catalog' = SubSeq(catalog, 1, n) \o <<Len(catalog) + 1>>
                     \o SubSeq(catalog, n + 1, Len(catalog))
  BY DEF Publish
<1>2. /\ UNCHANGED <<settings, pc, request, last, yielded, result>>
      /\ Len(catalog) \in Nat /\ settings.size \in Nat
  BY SettingsType DEF Publish, DataTyped
<1>3. /\ Len(catalog') = Len(catalog) + 1
      /\ \A k \in 1..(Len(catalog) + 1) :
           catalog'[k] = IF k <= n THEN catalog[k]
                         ELSE IF k = n + 1 THEN Len(catalog) + 1
                         ELSE catalog[k - 1]
  <2> DEFINE x == Len(catalog) + 1
  <2>1. x \in Nat
    BY <1>2
  <2> HIDE DEF x
  <2>2. catalog' = SubSeq(catalog, 1, n) \o <<x>>
                     \o SubSeq(catalog, n + 1, Len(catalog))
    BY <1>1 DEF x
  <2>3. /\ Len(catalog') = Len(catalog) + 1
        /\ \A k \in 1..(Len(catalog) + 1) :
             catalog'[k] = IF k <= n THEN catalog[k]
                           ELSE IF k = n + 1 THEN x ELSE catalog[k - 1]
    BY <2>1, <2>2, Inserted
  <2> QED BY <2>3 DEF x
<1>4. Start(request)' = Start(request) /\ Start(request) \in Nat
  BY <1>2, StartType DEF Start, PageLength
<1>5. Originals' = Originals /\ Len(catalog) + 1 \notin Originals
  BY <1>2 DEF Originals, SkipInv, CatalogHolds
<1>6. CatalogHolds'
  <2> SUFFICES ASSUME NEW x \in Originals
               PROVE  \E k \in 1..Len(catalog') : catalog'[k] = x
    BY <1>2, <1>3, <1>5 DEF SkipInv, CatalogHolds
  <2>1. PICK k \in 1..Len(catalog) : catalog[k] = x
    BY DEF SkipInv, CatalogHolds
  <2>2. CASE k <= n
    BY <1>2, <1>3, <2>1, <2>2
  <2>3. CASE k > n
    <3>1. k + 1 \in 1..(Len(catalog) + 1) /\ ~(k + 1 <= n) /\ k + 1 # n + 1
          /\ (k + 1) - 1 = k
      BY <1>2, <2>3
    <3> QED BY <1>3, <2>1, <3>1
  <2> QED BY <1>2, <2>2, <2>3
<1>7. PassedIsHanded => PassedIsHanded'
  <2> SUFFICES ASSUME PassedIsHanded, NEW k \in 1..Len(catalog'),
                      NEW x \in Originals, k <= Start(request), catalog'[k] = x
               PROVE  IsHanded(x)'
    BY <1>4, <1>5 DEF PassedIsHanded
  <2>1. k \in 1..(Len(catalog) + 1)
    BY <1>3
  <2>2. CASE k <= n
    <3>1. k \in 1..Len(catalog) /\ catalog[k] = x
      BY <1>2, <1>3, <2>1, <2>2
    <3> QED BY <1>2, <3>1 DEF PassedIsHanded, IsHanded
  <2>3. CASE k > n
    <3>1. k # n + 1
      BY <1>2, <1>3, <1>5, <2>1, <2>3
    <3>2. /\ k - 1 \in 1..Len(catalog) /\ k - 1 <= Start(request)
          /\ ~(k <= n)
      BY <1>2, <1>4, <2>1, <2>3, <3>1
    <3>3. catalog[k - 1] = x
      BY <1>3, <2>1, <3>1, <3>2
    <3> QED BY <1>2, <3>2, <3>3 DEF PassedIsHanded, IsHanded
  <2> QED BY <1>2, <2>1, <2>2, <2>3
<1>8. \A x : IsHanded(x)' <=> IsHanded(x)
  BY <1>2 DEF IsHanded
<1> QED BY <1>2, <1>5, <1>6, <1>7, <1>8
        DEF SkipInv, Asking, Finished, PagesAgree, Capped

\* A page that is agreed upon, and says that no other follows, is the last.
LEMMA LastIsLast ==
  ASSUME DataTyped, PagesAgree, NEW env, env = HonestEnvelope(request),
         ~HasMore(env)
  PROVE  Stop = Len(catalog)
<1> SUFFICES ASSUME More PROVE FALSE
  BY StopBound DEF More
<1>1. /\ settings.infer /\ settings.mode \notin {"cursor", "link"}
      /\ settings.mode # "none" /\ Len(env.items) # Limit
  BY HonestMore, StopBound
<1>2. ~Capped /\ PageLength = Limit
  BY <1>1, PageLengthBound DEF PagesAgree
<1>3. Len(env.items) = Limit
  BY <1>2, HonestItems, StopBound, PageLengthBound
<1> QED BY <1>1, <1>3

LEMMA SkipPage ==
  ASSUME DataTyped, SkipInv, NEW env \in Envelopes, PageStep(env),
         result # "whole"
  PROVE  SkipInv'
<1>1. UNCHANGED <<settings, catalog, result>> /\ CatalogHolds'
  BY DEF PageStep, SkipInv, CatalogHolds, Originals
<1> SUFFICES ASSUME settings.server = "honest", PagesAgree
             PROVE  /\ Asking' => PassedIsHanded'
                    /\ Finished' => \A x \in Originals : IsHanded(x)'
  BY <1>1 DEF SkipInv, PagesAgree, Capped, Originals
<1>2. env = HonestEnvelope(request) /\ PassedIsHanded
  BY DEF Envelopes, PageStep, SkipInv, Asking
<1>3. /\ yielded \in Seq(Nat) /\ env.items \in Seq(Nat)
      /\ Len(yielded) \in Nat /\ Len(env.items) \in Nat
      /\ Len(yielded') = Len(yielded) + Len(env.items)
      /\ \A i \in 1..(Len(yielded) + Len(env.items)) :
           yielded'[i] = IF i <= Len(yielded) THEN yielded[i]
                         ELSE env.items[i - Len(yielded)]
  BY <1>2, HonestItems, ConcatProperties DEF PageStep, DataTyped
<1>4. \A x : IsHanded(x) => IsHanded(x)'
  BY <1>3 DEF IsHanded
<1>5. ASSUME NEW k \in (Start(request) + 1)..Stop, NEW x, catalog[k] = x
      PROVE  IsHanded(x)'
  <2>1. /\ env.items[k - Start(request)] = x
        /\ Len(env.items) = IF Start(request) < Stop
                            THEN Stop - Start(request) ELSE 0
    BY <1>2, <1>5, HonestItems
  <2>2. Start(request) \in Nat /\ Stop \in Nat
    BY StopBound
  <2>3. PICK i \in 1..Len(env.items) : env.items[i] = x
    BY <2>1, <2>2
  <2>4. /\ Len(yielded) + i \in 1..(Len(yielded) + Len(env.items))
        /\ ~(Len(yielded) + i <= Len(yielded))
        /\ (Len(yielded) + i) - Len(yielded) = i
    BY <1>3, <2>3
  <2>5. yielded'[Len(yielded) + i] = x
    BY <1>3, <2>3, <2>4
  <2>6. Len(yielded) + i \in 1..Len(yielded')
    BY <1>3, <2>4
  <2> QED BY <2>5, <2>6 DEF IsHanded
<1>6. ASSUME NEW k \in 1..Len(catalog), NEW x \in Originals, k <= Stop,
             catalog[k] = x
      PROVE  IsHanded(x)'
  <2>1. CASE k <= Start(request)
    <3>1. IsHanded(x)
      BY <1>2, <1>6, <2>1 DEF PassedIsHanded
    <3> QED BY <1>4, <3>1
  <2>2. CASE k > Start(request)
    <3>1. k \in (Start(request) + 1)..Stop
      BY <1>6, <2>2, StopBound
    <3> QED BY <1>5, <1>6, <3>1
  <2> QED BY <2>1, <2>2, StopBound
<1>7. ASSUME HasMore(env) PROVE PassedIsHanded'
  <2>1. request' = NextRequest(request, env)
    BY <1>7 DEF PageStep
  <2>2. Start(request)' = Start(NextRequest(request, env))
    BY <1>1, <2>1 DEF Start, PageLength
  <2>3. Start(request)' =
          IF settings.mode = "none" THEN 0 ELSE Start(request) + Stride
    BY <1>2, <1>7, <2>2, NextStart DEF PageStep
  <2>4. Stride = PageLength \/ settings.mode = "none"
    <3>1. ~Capped \/ settings.mode # "offset"
      BY DEF PagesAgree
    <3> QED BY <3>1, PageLengthBound DEF Stride
  <2>5. \A k \in 1..Len(catalog) : k <= Start(request)' => k <= Stop
    BY <2>3, <2>4, StopBound, PageLengthBound DEF Stop
  <2> QED BY <1>1, <1>6, <2>5 DEF PassedIsHanded, Originals
<1>8. ASSUME ~HasMore(env), NEW x \in Originals PROVE IsHanded(x)'
  <2>1. PICK k \in 1..Len(catalog) : catalog[k] = x
    BY DEF SkipInv, CatalogHolds
  <2>2. Stop = Len(catalog)
    BY <1>2, <1>8, LastIsLast
  <2>3. k <= Stop
    BY <2>1, <2>2, StopBound
  <2> QED BY <1>6, <2>1, <2>3
<1>9. last' = ~HasMore(env) /\ pc' = "yield" /\ result' # "whole"
  BY DEF PageStep
<1> QED BY <1>7, <1>8, <1>9 DEF Asking, Finished

LEMMA SkipInvNext == IInv /\ SkipInv /\ [Next]_vars => SkipInv'
<1> SUFFICES ASSUME IInv, SkipInv, [Next]_vars PROVE SkipInv'
  OBVIOUS
<1>0. DataTyped /\ (pc # "end" => result = "none")
  BY DEF IInv, Counted
<1> DEFINE Data == <<settings, catalog, request, yielded>>
<1>1. ASSUME UNCHANGED Data, Asking' => Asking, Finished' => Finished
      PROVE  SkipInv'
  BY <1>1 DEF SkipInv, CatalogHolds, Originals, PassedIsHanded, IsHanded,
              PagesAgree, Capped, Start, PageLength
<1>2. ASSUME NEW env \in Envelopes, PageStep(env) PROVE SkipInv'
  BY <1>0, <1>2, SkipPage DEF PageStep
<1>3. CASE QuietStep
  BY <1>0, <1>1, <1>3 DEF QuietStep, Asking, Finished
<1>4. CASE Resume
  BY <1>0, <1>1, <1>4 DEF Resume, End, Asking, Finished
<1>5. CASE Publish
  BY <1>0, <1>5, SkipPublish
<1>6. CASE Drop
  BY <1>0, <1>1, <1>6 DEF Drop, End, Asking, Finished
<1>7. CASE UNCHANGED vars
  BY <1>1, <1>7 DEF vars, Asking, Finished
<1> QED
  BY <1>2, <1>3, <1>4, <1>5, <1>6, <1>7, StepKinds DEF Next, Ended

LEMMA SkipInvInit == Init => SkipInv
<1> SUFFICES ASSUME Init PROVE SkipInv
  OBVIOUS
<1>1. settings.size \in Nat /\ settings.mode \in Modes
  BY SettingsType DEF Init
<1>2. Len(catalog) = settings.size /\ \A k \in 1..settings.size : catalog[k] = k
  BY <1>1 DEF Init
<1>3. CatalogHolds
  BY <1>1, <1>2 DEF CatalogHolds, Originals
<1>4. Start(request) = 0
  <2>1. PageLength \in Nat
    BY SettingsType, Constants DEF Init, PageLength
  <2>2. 0 * PageLength = 0
    BY <2>1
  <2> QED BY <1>1, <2>2 DEF Init, FirstRequest, Start, Modes
<1>5. PassedIsHanded
  BY <1>4 DEF PassedIsHanded
<1> QED BY <1>3, <1>5 DEF SkipInv, Finished, Init

\* An iteration that ends well has handed out every item the catalog of an
\* honest server held at its beginning, for any page size and any cap of the
\* server, in every mode in which client and server mean the same by a page,
\* and wherever the catalog gains items meanwhile.
THEOREM NoItemSkipped == Spec => []NothingSkipped
<1>1. SkipInv => NothingSkipped
  BY DEF SkipInv, Finished, NothingSkipped, Originals, IsHanded
<1> QED BY <1>1, SkipInvInit, SkipInvNext, Inductive, PTL DEF Spec

-----------------------------------------------------------------------------
(* The feed.                                                               *)

\* What was handed out is the catalog up to where the next page starts.
FeedInv ==
  /\ settings.growth = 0 => Len(catalog) = settings.size
  /\ Promised =>
       /\ Asking => /\ Start(request) <= Len(catalog)
                    /\ yielded = SubSeq(catalog, 1, Start(request))
       /\ Finished => yielded = catalog

\* The next page starts where this one stops.
LEMMA NextFollows ==
  ASSUME DataTyped, FeedInv, Promised, Start(request) <= Len(catalog),
         NEW env, env = HonestEnvelope(request), HasMore(env), ~Unnamed(env)
  PROVE  Start(NextRequest(request, env)) = Stop
<1>0. /\ settings.growth = 0 /\ PagesAgree
      /\ settings.mode = "none" => ~(settings.infer /\ settings.size = Limit)
  BY DEF Promised, Fits
<1>1. settings.mode # "none"
  <2> SUFFICES ASSUME settings.mode = "none" PROVE FALSE
    OBVIOUS
  <2>1. ~More /\ settings.infer /\ Len(env.items) = Limit
    BY HonestMore, StopBound
  <2>2. Start(request) = 0 /\ Stop = Len(catalog) /\ Len(catalog) \in Nat
    BY StopBound DEF Start, Stop
  <2>3. Len(env.items) = IF 0 < Len(catalog) THEN Len(catalog) - 0 ELSE 0
    BY <2>2, HonestItems
  <2>4. Len(env.items) = settings.size
    BY <1>0, <2>2, <2>3 DEF FeedInv
  <2> QED BY <1>0, <2>1, <2>4
<1>2. Start(NextRequest(request, env)) = Start(request) + Stride
  BY <1>1, NextStart
<1>3. CASE More
  <2>1. Stride = PageLength
    BY <1>0, PageLengthBound DEF PagesAgree, Stride
  <2> QED BY <1>2, <1>3, <2>1, StopBound
<1>4. CASE ~More
  <2>1. /\ settings.infer /\ Len(env.items) = Limit
        /\ settings.mode \notin {"cursor", "link"}
    BY <1>4, HonestMore
  <2>2. Stride = Limit /\ Limit \in Nat \ {0}
    BY <1>0, <1>1, <2>1, PageLengthBound, Constants DEF PagesAgree
  <2>3. Stop - Start(request) = Limit
    BY <2>1, <2>2, HonestItems, StopBound
  <2> QED BY <1>2, <2>2, <2>3, StopBound
<1> QED BY <1>3, <1>4

\* What the client has handed out after one more page.
LEMMA PageAppends ==
  ASSUME DataTyped, FeedInv, Promised, NEW env \in Envelopes, PageStep(env)
  PROVE  /\ env = HonestEnvelope(request)
         /\ Start(request) <= Stop /\ Len(yielded) = Start(request)
         /\ yielded' = SubSeq(catalog, 1, Stop)
<1> DEFINE a == Start(request)
<1>1. env = HonestEnvelope(request)
  BY DEF Promised, Envelopes
<1>2. a <= Len(catalog) /\ yielded = SubSeq(catalog, 1, a)
  BY DEF FeedInv, PageStep, Asking
<1>3. /\ a \in Nat /\ Len(catalog) \in Nat /\ Stop \in Nat
      /\ Stop <= Len(catalog) /\ catalog \in Seq(Nat)
  BY StopBound DEF DataTyped
<1>4. a <= Stop
  BY <1>2, <1>3, PageLengthBound DEF Stop
<1>5. yielded' = SubSeq(catalog, 1, a) \o SubSeq(catalog, a + 1, Stop)
  BY <1>1, <1>2, HonestItems DEF PageStep
<1> HIDE DEF a
<1>6. SubSeq(catalog, 1, a) \o SubSeq(catalog, a + 1, Stop)
        = SubSeq(catalog, 1, Stop)
  <2>1. 1 \in 1..(Len(catalog) + 1) /\ a \in (1 - 1)..Len(catalog)
        /\ Stop \in a..Len(catalog)
    BY <1>2, <1>3, <1>4
  <2> QED BY <1>3, <2>1, ConcatAdjacentSubSeq
<1>7. Len(yielded) = a
  <2>1. \A i \in 1..a : catalog[i] \in Nat
    BY <1>2, <1>3, ElementOfSeq
  <2>2. Len(SubSeq(catalog, 1, a)) = IF 1 <= a THEN a - 1 + 1 ELSE 0
    BY <1>3, <2>1, SubSeqProperties
  <2> QED BY <1>2, <1>3, <2>2
<1> QED BY <1>1, <1>4, <1>5, <1>6, <1>7 DEF a

LEMMA FeedPage ==
  ASSUME DataTyped, FeedInv, NEW env \in Envelopes, PageStep(env),
         result # "whole"
  PROVE  FeedInv'
<1>1. UNCHANGED <<settings, catalog, result>> /\ Promised' = Promised
  BY DEF PageStep, Promised, PagesAgree, Capped, Fits, Reach, PageLength
<1> SUFFICES ASSUME Promised
             PROVE  /\ Asking' => /\ Start(request)' <= Len(catalog)
                                  /\ yielded' = SubSeq(catalog, 1, Start(request)')
                    /\ Finished' => yielded' = catalog
  BY <1>1 DEF FeedInv
<1>2. /\ env = HonestEnvelope(request) /\ yielded' = SubSeq(catalog, 1, Stop)
      /\ Start(request) <= Len(catalog)
  BY PageAppends DEF FeedInv, PageStep, Asking
<1>3. ASSUME HasMore(env) PROVE Start(request)' = Stop
  <2>1. request' = NextRequest(request, env) /\ ~Unnamed(env)
    BY <1>3 DEF PageStep
  <2>2. Start(request)' = Start(NextRequest(request, env))
    BY <1>1, <2>1 DEF Start, PageLength
  <2> QED BY <1>2, <1>3, <2>1, <2>2, NextFollows
<1>4. ASSUME ~HasMore(env) PROVE yielded' = catalog
  <2>1. Stop = Len(catalog)
    BY <1>2, <1>4, LastIsLast DEF Promised
  <2>2. SubSeq(catalog, 1, Len(catalog)) = catalog
    BY SubSeqFull DEF DataTyped
  <2> QED BY <1>2, <2>1, <2>2
<1>5. last' = ~HasMore(env) /\ pc' = "yield" /\ result' # "whole"
  BY DEF PageStep
<1> QED BY <1>2, <1>3, <1>4, <1>5, StopBound DEF Asking, Finished

\* The catalog of a server that gains nothing stays.
LEMMA NothingGained ==
  ASSUME DataTyped, FeedInv, Publish
  PROVE  settings.growth # 0 /\ ~Promised /\ ~Promised'
<1>1. settings.size \in Nat /\ settings.growth \in Nat /\ UNCHANGED settings
  BY SettingsType DEF DataTyped, Publish
<1>2. settings.growth # 0
  BY <1>1 DEF FeedInv, Publish
<1> QED BY <1>1, <1>2 DEF Promised

LEMMA FeedInvNext == IInv /\ FeedInv /\ [Next]_vars => FeedInv'
<1> SUFFICES ASSUME IInv, FeedInv, [Next]_vars PROVE FeedInv'
  OBVIOUS
<1>0. DataTyped /\ (pc # "end" => result = "none")
  BY DEF IInv, Counted
<1> DEFINE Data == <<settings, catalog, request, yielded>>
<1>1. ASSUME UNCHANGED Data, Asking' => Asking, Finished' => Finished
      PROVE  FeedInv'
  <2>1. Promised' = Promised /\ Start(request)' = Start(request)
    BY <1>1 DEF Promised, PagesAgree, Capped, Fits, Reach, PageLength, Start
  <2> QED BY <1>1, <2>1 DEF FeedInv
<1>2. ASSUME NEW env \in Envelopes, PageStep(env) PROVE FeedInv'
  BY <1>0, <1>2, FeedPage DEF PageStep
<1>3. CASE QuietStep
  BY <1>0, <1>1, <1>3 DEF QuietStep, Asking, Finished
<1>4. CASE Resume
  BY <1>0, <1>1, <1>4 DEF Resume, End, Asking, Finished
<1>5. CASE Publish
  BY <1>0, <1>5, NothingGained DEF FeedInv, Publish
<1>6. CASE Drop
  BY <1>0, <1>1, <1>6 DEF Drop, End, Asking, Finished
<1>7. CASE UNCHANGED vars
  BY <1>1, <1>7 DEF vars, Asking, Finished
<1> QED
  BY <1>2, <1>3, <1>4, <1>5, <1>6, <1>7, StepKinds DEF Next, Ended

LEMMA FeedInvInit == Init => FeedInv
<1> SUFFICES ASSUME Init PROVE FeedInv
  OBVIOUS
<1>1. settings.size \in Nat /\ settings.mode \in Modes
  BY SettingsType DEF Init
<1>2. Len(catalog) = settings.size
  BY <1>1 DEF Init
<1>3. Start(request) = 0
  <2>1. PageLength \in Nat
    BY SettingsType, Constants DEF Init, PageLength
  <2>2. 0 * PageLength = 0
    BY <2>1
  <2> QED BY <1>1, <2>2 DEF Init, FirstRequest, Start, Modes
<1>4. SubSeq(catalog, 1, 0) = << >>
  BY SubSeqEmpty
<1> QED BY <1>1, <1>2, <1>3, <1>4 DEF FeedInv, Finished, Init

\* A step of the read is a step of the feed, or none.
LEMMA StepFeeds ==
  ASSUME DataTyped, FeedInv, pc # "end" => result = "none", [Next]_vars
  PROVE  Feed!Next \/ UNCHANGED <<Offered, Handed, Outcome>>
<1>1. ASSUME UNCHANGED <<settings, catalog, yielded>>
      PROVE  UNCHANGED <<Offered, Handed>>
  BY <1>1 DEF Offered, Handed, Promised, PagesAgree, Capped, Fits, Reach,
              PageLength
<1>2. ASSUME UNCHANGED result PROVE UNCHANGED Outcome
  BY <1>2 DEF Outcome
<1>3. ASSUME UNCHANGED <<settings, catalog, yielded>>, result = "none",
             result' \notin {"none", "whole"}
      PROVE  Feed!Next
  BY <1>1, <1>3 DEF Outcome, Feed!Next, Feed!Break
<1>4. ASSUME NEW env \in Envelopes, PageStep(env)
      PROVE  Feed!Next \/ UNCHANGED <<Offered, Handed, Outcome>>
  <2>1. UNCHANGED <<settings, catalog, result>> /\ Promised' = Promised
    BY <1>4 DEF PageStep, Promised, PagesAgree, Capped, Fits, Reach, PageLength
  <2>2. Outcome = "open" /\ UNCHANGED <<Offered, Outcome>>
    BY <1>4, <2>1 DEF PageStep, Outcome, Offered
  <2>3. CASE ~Promised
    BY <2>1, <2>2, <2>3 DEF Handed
  <2>4. CASE Promised
    <3>1. /\ Start(request) <= Stop /\ Len(yielded) = Start(request)
          /\ yielded' = SubSeq(catalog, 1, Stop)
      BY <1>4, <2>4, PageAppends
    <3>2. Stop \in Len(yielded)..Len(catalog)
      BY <3>1, StopBound
    <3>3. Offered = catalog /\ Handed = yielded /\ Handed' = yielded'
      BY <2>1, <2>4 DEF Offered, Handed
    <3> QED BY <2>2, <3>1, <3>2, <3>3 DEF Feed!Next, Feed!HandOut
  <2> QED BY <2>3, <2>4
<1>5. CASE QuietStep
  BY <1>1, <1>2, <1>3, <1>5 DEF QuietStep
<1>6. CASE Resume
  <2>1. UNCHANGED <<settings, catalog, yielded>> /\ result = "none"
    BY <1>6 DEF Resume
  <2>2. CASE last
    <3>1. result' = "whole" /\ Finished
      BY <1>6, <2>2 DEF Resume, End, Finished
    <3>2. Handed = Offered
      BY <3>1 DEF FeedInv, Handed, Offered
    <3> QED BY <1>1, <2>1, <3>1, <3>2 DEF Outcome, Feed!Next, Feed!Finish
  <2>3. CASE ~last
    BY <1>1, <1>2, <1>6, <2>1, <2>3 DEF Resume
  <2> QED BY <2>2, <2>3
<1>7. CASE Publish
  BY <1>2, <1>7, NothingGained DEF Publish, Offered, Handed
<1>8. CASE Drop
  BY <1>3, <1>8 DEF Drop, End
<1>9. CASE UNCHANGED vars
  BY <1>1, <1>2, <1>9 DEF vars
<1> QED
  BY <1>4, <1>5, <1>6, <1>7, <1>8, <1>9, StepKinds DEF Next, Ended

\* With a server whose catalog stays, and with which the client agrees about
\* pages, the read implements PageFeed: the consumer gets the catalog in
\* order, no item twice and none skipped, and a success only when all of it.
THEOREM FeedImplemented == Spec => ImplementsFeed
<1>1. Init => Feed!Init
  <2> SUFFICES ASSUME Init PROVE Feed!Init
    OBVIOUS
  <2>1. settings.size \in Nat
    BY SettingsType DEF Init
  <2>2. catalog \in Seq(Nat)
    <3>1. catalog = [i \in 1..settings.size |-> i]
      BY DEF Init
    <3>2. catalog \in [1..settings.size -> Nat]
      BY <2>1, <3>1
    <3> QED BY <2>1, <3>1, <3>2
  <2> QED BY <2>2 DEF Init, Feed!Init, Offered, Handed, Outcome
<1>2. IInv /\ FeedInv /\ [Next]_vars
        => [Feed!Next]_<<Offered, Handed, Outcome>>
  BY StepFeeds DEF IInv, Counted
<1> QED
  BY <1>1, <1>2, FeedInvInit, FeedInvNext, Inductive, PTL
     DEF Spec, ImplementsFeed, Feed!Spec, Feed!vars

-----------------------------------------------------------------------------
(* Honest servers are accepted.                                            *)

LEMMA MultipleDivides ==
  ASSUME NEW k \in Nat, NEW l \in Nat \ {0}
  PROVE  (k * l) % l = 0
OBVIOUS

LEMMA DividesMultiple ==
  ASSUME NEW n \in Nat, NEW l \in Nat \ {0}, n % l = 0
  PROVE  n \div l \in Nat /\ n = (n \div l) * l
OBVIOUS

LEMMA MoreIsMore ==
  ASSUME NEW a \in Nat, NEW b \in Nat, NEW l \in Nat
  PROVE  /\ a <= b => a * l <= b * l
         /\ a * l < b * l => a < b
OBVIOUS

\* Iterations of a configured client over a catalog that stays.
Known ==
  /\ settings.server = "honest" /\ settings.configured
  /\ settings.growth = 0 /\ settings.read = "pages"

\* The pages before the one asked for next, or now.
PagesRead == IF pc = "get" THEN rounds - 1 ELSE rounds

\* What grows from a request to the next one.
Key(id) ==
  CASE settings.mode = "cursor" -> id[3]
    [] settings.mode = "link" -> id[4]
    [] OTHER -> id[1]

NoCycle ==
  \A id \in seen :
    \/ Key(id) < Key(Identity(request))
    \/ pc = "get" /\ id = Identity(request)

\* Where the next page starts, and why the client asks for it: the server
\* said that items follow, or the last page was as long as the client asked.
AskedOn ==
  PagesRead > 0 =>
    CASE settings.mode = "none" -> settings.infer /\ settings.size = Limit
      [] settings.infer /\ settings.mode \in {"page", "offset"} ->
           ~Capped /\ PagesRead * Stride <= settings.size
      [] OTHER -> (PagesRead - 1) * Stride + PageLength < settings.size

Placed ==
  /\ settings.mode # "none" => Start(request) = PagesRead * Stride
  /\ request.nextUrl <= settings.size
  /\ NoCycle
  /\ AskedOn

AcceptInv ==
  /\ Known =>
       /\ Len(catalog) = settings.size
       /\ rounds <= MaxPages
       /\ pc \in {"get", "yield"} => rounds > 0
       /\ Asking => Placed
       /\ Finished => Fits
       /\ result # "configuration"
       /\ result = "invalid_payload" => ~Fits
  /\ settings.read = "object" /\ settings.server = "honest"
       /\ settings.configured =>
       /\ pc # "yield"
       /\ result \notin {"invalid_payload", "configuration", "whole"}

LEMMA ReachIs ==
  ASSUME DataTyped
  PROVE  /\ Reach = (MaxPages - 1) * Stride + PageLength
         /\ ~Capped => Reach = MaxPages * Stride /\ Reach = MaxPages * PageLength
<1>1. MaxPages - 1 \in Nat /\ (MaxPages - 1) + 1 = MaxPages
  BY Constants
<1>2. /\ ((MaxPages - 1) + 1) * PageLength
           = (MaxPages - 1) * PageLength + PageLength
      /\ ((MaxPages - 1) + 1) * Stride = (MaxPages - 1) * Stride + Stride
  BY <1>1, PageLengthBound, OneMore
<1>3. MaxPages * PageLength = (MaxPages - 1) * PageLength + PageLength
  BY <1>1, <1>2
<1>4. MaxPages * Stride = (MaxPages - 1) * Stride + Stride
  BY <1>1, <1>2
<1>5. Reach = (MaxPages - 1) * Stride + PageLength
  BY <1>3 DEF Reach, Stride
<1>6. ~Capped => Stride = PageLength
  BY PageLengthBound
<1> QED BY <1>3, <1>4, <1>5, <1>6

\* A page that says no other follows ends a catalog that fits.
LEMMA LastFits ==
  ASSUME DataTyped, Len(catalog) = settings.size,
         NEW r \in Nat, r < MaxPages,
         settings.mode # "none" => Start(request) = r * Stride,
         settings.mode \in {"cursor", "link"} /\ r > 0
           => Start(request) < settings.size,
         NEW env, env = HonestEnvelope(request), ~HasMore(env)
  PROVE  Fits
<1>0. /\ settings.size \in Nat /\ settings.mode \in Modes
      /\ Start(request) \in Nat /\ Limit \in Nat \ {0} /\ Stop \in Nat
  BY SettingsType, StopBound, Constants DEF DataTyped
<1>1. CASE settings.mode = "none"
  <2>1. Start(request) = 0 /\ Stop = settings.size
    BY <1>1 DEF Start, Stop
  <2>2. Len(env.items) = IF 0 < settings.size THEN settings.size - 0 ELSE 0
    BY <2>1, HonestItems
  <2>3. Len(env.items) = settings.size
    BY <1>0, <2>2
  <2> QED BY <1>1, <2>3, HonestMore DEF Fits
<1>2. ASSUME settings.mode # "none", ~More PROVE settings.size <= Reach
  <2>1. settings.size <= r * Stride + PageLength
    BY <1>0, <1>2, StopBound, PageLengthBound DEF More
  <2>2. r * Stride <= (MaxPages - 1) * Stride
    <3>1. MaxPages - 1 \in Nat /\ r <= MaxPages - 1
      BY Constants
    <3> QED BY <3>1, PageLengthBound, MoreIsMore
  <2>3. r * Stride \in Nat /\ (MaxPages - 1) * Stride \in Nat
    <3>1. MaxPages - 1 \in Nat
      BY Constants
    <3> QED BY <3>1, PageLengthBound, ProductType
  <2> QED BY <1>0, <2>1, <2>2, <2>3, ReachIs, PageLengthBound
<1>3. CASE settings.mode \in {"page", "offset"} /\ settings.infer
  <2> SUFFICES ASSUME ~Capped PROVE settings.size < Reach
    BY <1>3 DEF Fits
  <2>1. PageLength = Limit /\ PagesAgree
    BY PageLengthBound DEF PagesAgree
  <2>2. Stop = settings.size /\ ~More
    BY <2>1, LastIsLast DEF More
  <2>3. settings.size <= Reach
    BY <1>2, <1>3, <2>2
  <2>4. settings.size # Reach
    <3> SUFFICES ASSUME settings.size = Reach PROVE FALSE
      OBVIOUS
    <3>1. Reach = (MaxPages - 1) * Stride + Limit
      BY <2>1, ReachIs
    <3>2. MaxPages - 1 \in Nat /\ r <= MaxPages - 1
      BY Constants
    <3>3. r * Stride <= (MaxPages - 1) * Stride
      BY <3>2, PageLengthBound, MoreIsMore
    <3>4. r * Stride \in Nat /\ (MaxPages - 1) * Stride \in Nat
      BY <3>2, PageLengthBound, ProductType
    <3>5. Stop <= Start(request) + Limit /\ Start(request) = r * Stride
      BY <1>3, <2>1, StopBound
    <3>6. Stop - Start(request) = Limit
      BY <1>0, <2>2, <3>1, <3>3, <3>4, <3>5
    <3>7. Len(env.items) = Limit
      BY <1>0, <3>6, HonestItems
    <3> QED BY <1>3, <3>7, HonestMore
  <2>5. Reach \in Nat
    <3>1. MaxPages \in Nat /\ Stride \in Nat
      BY Constants, PageLengthBound
    <3> QED BY <3>1, ReachIs, ProductType
  <2> QED BY <1>0, <2>3, <2>4, <2>5
<1>4. CASE settings.mode \in {"cursor", "link"} /\ settings.infer /\ ~Capped
  <2>1. /\ ~More /\ Len(env.items) # Limit
    BY <1>4, HonestMore
  <2>2. settings.size <= Reach
    BY <1>2, <1>4, <2>1
  <2>3. ASSUME settings.size % Limit = 0, settings.size # 0 PROVE FALSE
    <3> DEFINE k == settings.size \div Limit
    <3>1. k \in Nat /\ settings.size = k * Limit
      BY <1>0, <2>3, DividesMultiple
    <3> HIDE DEF k
    <3>2. /\ Start(request) = r * Limit /\ PageLength = Limit
          /\ Stop = settings.size /\ Stop <= Start(request) + Limit
      BY <1>4, <2>1, PageLengthBound, StopBound DEF More
    <3>3. r * Limit < k * Limit
      <4>1. CASE r > 0
        BY <1>4, <3>1, <3>2, <4>1
      <4>2. CASE r = 0
        <5>1. r * Limit = 0
          BY <1>0, <4>2
        <5> QED BY <1>0, <2>3, <3>1, <5>1
      <4> QED BY <4>1, <4>2
    <3>4. r < k
      BY <1>0, <3>1, <3>3, MoreIsMore
    <3>5. (r + 1) * Limit <= k * Limit /\ (r + 1) * Limit = r * Limit + Limit
      BY <1>0, <3>1, <3>4, MoreIsMore, OneMore
    <3>6. Stop - Start(request) = Limit
      BY <1>0, <3>1, <3>2, <3>5
    <3>7. Len(env.items) = Limit
      BY <1>0, <3>6, HonestItems
    <3> QED BY <2>1, <3>7
  <2> QED BY <1>4, <2>2, <2>3 DEF Fits
<1>5. CASE /\ settings.mode # "none"
           /\ ~(settings.mode \in {"page", "offset"} /\ settings.infer)
           /\ ~(settings.mode \in {"cursor", "link"} /\ settings.infer /\ ~Capped)
  <2>1. ~More
    BY <1>0, <1>5, HonestMore DEF Modes
  <2>2. settings.size <= Reach
    BY <1>2, <1>5, <2>1
  <2> QED BY <1>5, <2>2 DEF Fits
<1> QED BY <1>1, <1>3, <1>4, <1>5

\* A page that promises another, but does not name it, does not fit.
LEMMA UnnamedDoesNotFit ==
  ASSUME DataTyped, Len(catalog) = settings.size, NEW r \in Nat,
         settings.mode # "none" => Start(request) = r * Stride,
         NEW env, env = HonestEnvelope(request), Unnamed(env)
  PROVE  ~Fits
<1>0. settings.size \in Nat /\ Start(request) \in Nat /\ Limit \in Nat \ {0}
  BY SettingsType, StopBound, Constants DEF DataTyped
<1>1. /\ settings.mode \in {"cursor", "link"} /\ ~More
      /\ settings.infer /\ Len(env.items) = Limit
  BY HonestMore
<1>2. Stop = settings.size /\ Stop - Start(request) = Limit
  BY <1>0, <1>1, HonestItems, StopBound DEF More
<1>3. ~Capped /\ Stride = Limit
  BY <1>0, <1>1, <1>2, StopBound, PageLengthBound
<1>4. settings.size = (r + 1) * Limit
  <2>1. (r + 1) * Limit = r * Limit + Limit /\ r * Limit \in Nat
    BY <1>0, OneMore, ProductType
  <2> QED BY <1>0, <1>1, <1>2, <1>3, <2>1
<1>5. settings.size % Limit = 0
  <2>1. r + 1 \in Nat
    OBVIOUS
  <2> QED BY <1>0, <1>4, <2>1, MultipleDivides
<1>6. settings.size # 0
  BY <1>0, <1>2, StopBound
<1> QED BY <1>1, <1>3, <1>5, <1>6 DEF Fits

\* A catalog that goes on after the last page the client accepts is too long.
LEMMA LimitDoesNotFit ==
  ASSUME DataTyped, AskedOn, PagesRead = MaxPages
  PROVE  ~Fits
<1>0. /\ settings.size \in Nat /\ settings.mode \in Modes
      /\ MaxPages \in Nat /\ MaxPages > 0 /\ Reach \in Nat
  <2>1. MaxPages - 1 \in Nat /\ Stride \in Nat /\ PageLength \in Nat
    BY Constants, PageLengthBound
  <2>2. (MaxPages - 1) * Stride \in Nat
    BY <2>1, ProductType
  <2> QED BY <2>1, <2>2, ReachIs, SettingsType, Constants DEF DataTyped
<1>1. CASE settings.mode = "none"
  BY <1>0, <1>1 DEF AskedOn, Fits
<1>2. CASE settings.infer /\ settings.mode \in {"page", "offset"}
  <2>1. ~Capped /\ MaxPages * Stride <= settings.size
    BY <1>0, <1>2 DEF AskedOn
  <2>2. ~(settings.size < Reach)
    BY <1>0, <2>1, ReachIs
  <2> QED BY <1>2, <2>1, <2>2 DEF Fits
<1>3. CASE /\ settings.mode # "none"
           /\ ~(settings.infer /\ settings.mode \in {"page", "offset"})
  <2>1. (MaxPages - 1) * Stride + PageLength < settings.size
    BY <1>0, <1>3 DEF AskedOn
  <2>2. ~(settings.size <= Reach)
    BY <1>0, <2>1, ReachIs
  <2> QED BY <1>3, <2>2 DEF Fits
<1> QED BY <1>1, <1>2, <1>3

\* A page that names the next one leaves the client placed before it.
LEMMA PlacedNext ==
  ASSUME DataTyped, Len(catalog) = settings.size, Placed, pc = "get",
         seen \subseteq (Nat \X Nat \X Nat \X Nat),
         rounds \in Nat, rounds > 0, UNCHANGED <<settings, seen, rounds>>,
         pc' = "yield", NEW env, env = HonestEnvelope(request),
         HasMore(env), ~Unnamed(env), request' = NextRequest(request, env)
  PROVE  Placed'
<1> DEFINE r == rounds - 1
<1>0. /\ r \in Nat /\ PagesRead = r /\ PagesRead' = r + 1
      /\ settings.size \in Nat /\ settings.mode \in Modes
      /\ Start(request) \in Nat /\ Stop \in Nat /\ Limit \in Nat \ {0}
      /\ Stride \in Nat /\ PageLength \in Nat /\ PageLength > 0
      /\ request \in Request
  BY SettingsType, StopBound, Constants, PageLengthBound
     DEF PagesRead, DataTyped
<1> HIDE DEF r
<1>1. /\ Stride' = Stride /\ PageLength' = PageLength /\ Capped' = Capped
      /\ Start(request)' = Start(NextRequest(request, env))
      /\ \A id : Key(id)' = Key(id)
  BY DEF Stride, PageLength, Capped, Start, Key
<1>2. r * Stride \in Nat /\ (r + 1) * Stride = r * Stride + Stride
  BY <1>0, ProductType, OneMore
<1>3. settings.mode # "none" =>
        Start(request) = r * Stride /\ Start(request)' = (r + 1) * Stride
  BY <1>0, <1>1, <1>2, NextStart DEF Placed
<1>4. /\ settings.mode = "cursor" =>
           /\ NextRequest(request, env).cursor = Stop /\ More
           /\ NextRequest(request, env).nextUrl = 0
      /\ settings.mode = "link" =>
           NextRequest(request, env).nextUrl = Stop /\ More
      /\ settings.mode = "offset" =>
           /\ NextRequest(request, env).page = request.page + 1
           /\ NextRequest(request, env).nextUrl = 0
      /\ settings.mode \in {"none", "page"} =>
           /\ NextRequest(request, env).page = request.page + 1
           /\ NextRequest(request, env).nextUrl = request.nextUrl
  <2>1. settings.mode = "cursor" => env.cursor = Stop /\ More
    BY HonestMore
  <2>2. settings.mode = "link" => env.link = Stop /\ More
    BY HonestMore
  <2> QED BY <1>0, <2>1, <2>2 DEF NextRequest, FirstRequest, Request
<1>5. request'.nextUrl <= settings'.size
  <2>1. 0 <= settings.size /\ Stop <= settings.size
    BY <1>0, StopBound
  <2> QED BY <1>0, <1>4, <2>1 DEF Placed, Modes
<1>6. NoCycle'
  <2>1. Key(Identity(request)) < Key(Identity(request'))
    <3>1. CASE settings.mode = "cursor"
      <4>1. Key(Identity(request)) = Start(request)
        BY <3>1 DEF Key, Identity, Start
      <4>2. Key(Identity(request')) = Stop
        BY <1>4, <3>1 DEF Key, Identity
      <4> QED BY <1>0, <1>4, <3>1, <4>1, <4>2, StopBound
    <3>2. CASE settings.mode = "link"
      <4>1. Key(Identity(request)) = Start(request)
        BY <3>2 DEF Key, Identity, Start
      <4>2. Key(Identity(request')) = Stop
        BY <1>4, <3>2 DEF Key, Identity
      <4> QED BY <1>0, <1>4, <3>2, <4>1, <4>2, StopBound
    <3>3. CASE settings.mode \notin {"cursor", "link"}
      <4>1. Key(Identity(request)) = request.page /\ request.page \in Nat
        BY <1>0, <3>3 DEF Key, Identity, Request
      <4>2. Key(Identity(request')) = request.page + 1
        BY <1>0, <1>4, <3>3 DEF Key, Identity, Modes
      <4> QED BY <4>1, <4>2
    <3> QED BY <3>1, <3>2, <3>3
  <2>2. /\ Key(Identity(request)) \in Int /\ Key(Identity(request')) \in Int
    <3>1. NextRequest(request, env) \in Request
      <4>1. env \in Envelope
        BY HonestEnvelopeType
      <4> QED BY <4>1, NextRequestType DEF DataTyped
    <3> QED BY <1>0, <3>1 DEF Key, Identity, Request
  <2> SUFFICES ASSUME NEW id \in seen
               PROVE  Key(id) < Key(Identity(request'))
    BY <1>1 DEF NoCycle, Identity
  <2>3. Key(id) < Key(Identity(request)) \/ id = Identity(request)
    BY DEF Placed, NoCycle
  <2>4. Key(id) \in Int
    BY DEF Key
  <2> QED BY <2>1, <2>2, <2>3, <2>4
<1>7. AskedOn'
  <2>1. CASE settings.mode = "none"
    <3>1. Start(request) = 0 /\ Stop = settings.size
      BY <2>1 DEF Start, Stop
    <3>2. Len(env.items) = IF 0 < settings.size THEN settings.size - 0 ELSE 0
      BY <3>1, HonestItems
    <3>3. settings.infer /\ Len(env.items) = Limit
      BY <2>1, HonestMore, StopBound
    <3> QED BY <1>0, <2>1, <3>2, <3>3 DEF AskedOn
  <2>2. CASE settings.infer /\ settings.mode \in {"page", "offset"}
    <3>1. Len(env.items) = Limit \/ More
      BY <2>2, HonestMore
    <3>2. Len(env.items) = Limit
      BY <2>2, HonestMore
    <3>3. Stop - Start(request) = Limit
      BY <1>0, <3>2, HonestItems
    <3>4. ~Capped /\ Stride = Limit
      BY <1>0, <2>2, <3>3, StopBound, PageLengthBound
    <3>5. (r + 1) * Stride <= settings.size
      BY <1>0, <1>2, <1>3, <2>2, <3>3, <3>4, StopBound
    <3> QED BY <1>0, <1>1, <2>2, <3>4, <3>5 DEF AskedOn
  <2>3. CASE /\ settings.mode # "none"
             /\ ~(settings.infer /\ settings.mode \in {"page", "offset"})
    <3>1. More
      BY <1>0, <2>3, HonestMore DEF Modes
    <3>2. r * Stride + PageLength < settings.size
      BY <1>3, <2>3, <3>1, StopBound DEF More
    <3>3. (r + 1) - 1 = r
      BY <1>0
    <3> QED BY <1>0, <1>1, <2>3, <3>2, <3>3 DEF AskedOn
  <2> QED BY <2>1, <2>2, <2>3
<1> QED BY <1>0, <1>1, <1>3, <1>5, <1>6, <1>7 DEF Placed

\* An honest server's link, or the absence of one, is one the client follows.
LEMMA LinkIsFollowed ==
  ASSUME DataTyped, Known, request.nextUrl <= settings.size
  PROVE  Sendable
<1>1. /\ request.nextUrl \in Nat /\ settings.size \in Nat
      /\ settings \in Configurations
  BY SettingsType DEF DataTyped, Request
<1>2. /\ (ForeignLinks \cup MalformedLinks)
           \cap 1..(settings.size + settings.growth) = {}
      /\ 0 \notin ForeignLinks \cup MalformedLinks
  BY <1>1, ConfigAssumption DEF Known
<1>3. request.nextUrl = 0 \/ request.nextUrl \in 1..(settings.size + settings.growth)
  BY <1>1 DEF Known
<1> QED BY <1>2, <1>3 DEF Sendable, Known

LEMMA AcceptAsk ==
  ASSUME DataTyped, Counted, AcceptInv, Known,
         AskPage \/ AskRefused \/ AskStopped
  PROVE  AcceptInv'
<1>0. /\ pc = "ask" /\ result = "none" /\ Placed /\ rounds \in Nat
      /\ Len(catalog) = settings.size /\ rounds <= MaxPages
      /\ UNCHANGED <<settings, catalog, request, last>>
      /\ settings.read = "pages" /\ settings.configured /\ MaxPages \in Nat
  BY Constants DEF AskPage, AskRefused, AskStopped, EnterRound, Counted,
     AcceptInv, Asking, Known
<1>1. Sendable /\ PagesRead = rounds
  BY <1>0, LinkIsFollowed DEF Placed, PagesRead
<1>2. CASE AskPage
  <2>1. /\ pc' = "get" /\ rounds' = rounds + 1 /\ rounds < MaxPages
        /\ seen' = seen \cup {Identity(request)} /\ result' = result
    BY <1>2 DEF AskPage, EnterRound
  <2>2. PagesRead' = PagesRead
    BY <1>0, <1>1, <2>1 DEF PagesRead
  <2>3. NoCycle'
    BY <1>0, <2>1 DEF Placed, NoCycle, Key, Identity
  <2>4. Placed'
    BY <1>0, <2>2, <2>3
       DEF Placed, AskedOn, Start, Stride, PageLength, Capped
  <2> QED BY <1>0, <2>1, <2>4 DEF AcceptInv, Finished
<1>3. ~AskRefused
  BY <1>1 DEF AskRefused
<1>4. CASE AskStopped
  <2>1. NotCycling
    <3>1. Key(Identity(request)) \in Int
      BY DEF DataTyped, Request, Key, Identity
    <3> QED BY <1>0, <3>1 DEF Placed, NoCycle, NotCycling
  <2>2. rounds = MaxPages /\ pc' = "end" /\ result' = "invalid_payload"
        /\ UNCHANGED rounds
    BY <1>4, <2>1 DEF AskStopped, End
  <2>3. ~Fits
    BY <1>0, <1>1, <2>2, LimitDoesNotFit DEF Placed
  <2>4. ~Fits'
    BY <1>0, <2>3 DEF Fits, Capped, Reach, PageLength
  <2> QED BY <1>0, <2>2, <2>4 DEF AcceptInv, Asking, Finished
<1> QED BY <1>2, <1>3, <1>4

LEMMA AcceptPage ==
  ASSUME DataTyped, Counted, AcceptInv, Known,
         NEW code, NEW env \in Envelopes, GetPage(code, env)
  PROVE  AcceptInv'
<1>0. /\ pc = "get" /\ result = "none" /\ Placed /\ rounds \in Nat /\ rounds > 0
      /\ Len(catalog) = settings.size /\ rounds <= MaxPages
      /\ UNCHANGED <<settings, catalog, seen, rounds>>
      /\ settings.read = "pages" /\ MaxPages \in Nat
      /\ env = HonestEnvelope(request)
      /\ seen \subseteq (Nat \X Nat \X Nat \X Nat)
  BY Constants DEF GetPage, Get, Counted, AcceptInv, Asking, Known, Envelopes
<1> DEFINE r == rounds - 1
<1>1. /\ r \in Nat /\ r < MaxPages /\ PagesRead = r
  BY <1>0 DEF PagesRead
<1>2. settings.mode # "none" => Start(request) = r * Stride
  BY <1>0, <1>1 DEF Placed
<1> HIDE DEF r
<1>3. Fits' = Fits
  BY <1>0 DEF Fits, Capped, Reach, PageLength
<1>4. CASE Unnamed(env)
  <2>1. pc' = "end" /\ result' = "invalid_payload"
    BY <1>4 DEF GetPage, End
  <2>2. ~Fits
    BY <1>0, <1>1, <1>2, <1>4, UnnamedDoesNotFit
  <2> QED BY <1>0, <1>3, <2>1, <2>2 DEF AcceptInv, Asking, Finished
<1>5. CASE ~Unnamed(env) /\ HasMore(env)
  <2>1. /\ pc' = "yield" /\ result' = result /\ ~last'
        /\ request' = NextRequest(request, env)
    BY <1>5 DEF GetPage
  <2>2. Placed'
    BY <1>0, <1>5, <2>1, PlacedNext
  <2> QED BY <1>0, <2>1, <2>2 DEF AcceptInv, Finished
<1>6. CASE ~Unnamed(env) /\ ~HasMore(env)
  <2>1. pc' = "yield" /\ result' = result /\ last'
    BY <1>6 DEF GetPage
  <2>2. settings.mode \in {"cursor", "link"} /\ r > 0
          => Start(request) < settings.size
    <3> SUFFICES ASSUME settings.mode \in {"cursor", "link"}, r > 0
                 PROVE  Start(request) < settings.size
      OBVIOUS
    <3>1. (r - 1) * Stride + PageLength < settings.size
      BY <1>0, <1>1 DEF Placed, AskedOn
    <3>2. r - 1 \in Nat /\ (r - 1) + 1 = r
      BY <1>1
    <3>3. ((r - 1) + 1) * Stride = (r - 1) * Stride + Stride
      BY <3>2, PageLengthBound, OneMore
    <3> QED BY <1>2, <3>1, <3>2, <3>3 DEF Stride
  <2>3. Fits
    BY <1>0, <1>1, <1>2, <1>6, <2>2, LastFits
  <2> QED BY <1>0, <1>3, <2>1, <2>3 DEF AcceptInv, Asking
<1> QED BY <1>4, <1>5, <1>6

LEMMA AcceptInvNext == IInv /\ AcceptInv /\ [Next]_vars => AcceptInv'
<1> SUFFICES ASSUME IInv, AcceptInv, [Next]_vars PROVE AcceptInv'
  OBVIOUS
<1>0. /\ DataTyped /\ Counted /\ (pc # "end" => result = "none")
      /\ settings.read \in {"pages", "object"}
  BY ConfigAssumption DEF IInv, Counted, DataTyped, Configuration
\* A step that stays in a page, or leaves the loop for another reason.
<1>1. ASSUME UNCHANGED <<settings, catalog, request, last, seen, rounds>>,
             pc' = pc \/ pc' = "end",
             result' = result
               \/ result' \notin {"invalid_payload", "configuration", "whole"}
      PROVE  AcceptInv'
  <2>1. Fits' = Fits /\ Known' = Known
    BY <1>1 DEF Fits, Capped, Reach, PageLength, Known
  <2>2. pc' = pc => (Placed => Placed')
    BY <1>1 DEF Placed, PagesRead, NoCycle, Key, Identity, AskedOn, Start,
                Stride, PageLength, Capped
  <2> QED BY <1>1, <2>1, <2>2 DEF AcceptInv, Asking, Finished
<1>2. ASSUME AskPage \/ AskRefused \/ AskStopped PROVE AcceptInv'
  <2>1. settings.read = "pages" /\ UNCHANGED settings
    BY <1>2 DEF AskPage, AskRefused, AskStopped, EnterRound
  <2>2. CASE Known
    BY <1>0, <1>2, <2>2, AcceptAsk
  <2>3. CASE ~Known
    BY <2>1, <2>3 DEF AcceptInv, Known
  <2> QED BY <2>2, <2>3
<1>3. ASSUME NEW blank \in BOOLEAN, AskObject(blank) PROVE AcceptInv'
  <2>1. /\ settings.read = "object" /\ UNCHANGED settings
        /\ settings.configured =>
             pc' \in {"get", "end"} /\ result' \in {result, "blank_id"}
    BY <1>3 DEF AskObject, End
  <2> QED BY <1>0, <1>3, <2>1 DEF AcceptInv, Known, AskObject
<1>4. ASSUME NEW code \in StatusCodes \cup {0},
             GetFails(code) \/ GetRejected(code)
      PROVE  AcceptInv'
  <2>1. CASE GetFails(code)
    BY <1>0, <1>1, <2>1 DEF GetFails, Get, End, Retry
  <2>2. CASE GetRejected(code)
    BY <1>0, <1>1, <2>2 DEF GetRejected, Get, End
  <2> QED BY <1>4, <2>1, <2>2
<1>5. ASSUME NEW code \in StatusCodes \cup {0}, GetUnreadable(code)
      PROVE  AcceptInv'
  BY <1>5 DEF GetUnreadable, Get, AcceptInv, Known
<1>6. ASSUME NEW code \in StatusCodes \cup {0}, GetObject(code)
      PROVE  AcceptInv'
  BY <1>0, <1>1, <1>6 DEF GetObject, Get, End
<1>7. CASE GetRaises
  BY <1>0, <1>1, <1>7 DEF GetRaises, Get, End
<1>8. ASSUME NEW code \in StatusCodes \cup {0}, NEW env \in Envelopes,
             GetPage(code, env)
      PROVE  AcceptInv'
  <2>1. settings.read = "pages" /\ UNCHANGED settings
    BY <1>8 DEF GetPage, Get
  <2>2. CASE Known
    BY <1>0, <1>8, <2>2, AcceptPage
  <2>3. CASE ~Known
    BY <2>1, <2>3 DEF AcceptInv, Known
  <2> QED BY <2>2, <2>3
<1>9. CASE Resume
  <2>1. /\ UNCHANGED <<settings, catalog, request, last, seen, rounds>>
        /\ pc = "yield" /\ result = "none"
    BY <1>0, <1>9 DEF Resume
  <2>2. Fits' = Fits /\ Known' = Known
    BY <2>1 DEF Fits, Capped, Reach, PageLength, Known
  <2>3. CASE last
    <3>1. pc' = "end" /\ result' = "whole"
      BY <1>9, <2>3 DEF Resume, End
    <3> QED BY <2>1, <2>2, <2>3, <3>1 DEF AcceptInv, Asking, Finished
  <2>4. CASE ~last
    <3>1. pc' = "ask" /\ result' = result
      BY <1>9, <2>4 DEF Resume
    <3>2. NoCycle => NoCycle'
      BY <2>1, <3>1 DEF NoCycle, Key, Identity
    <3>3. Placed => Placed'
      BY <2>1, <3>1, <3>2 DEF Placed, PagesRead, AskedOn, Start, Stride,
                              PageLength, Capped
    <3> QED BY <2>1, <2>2, <2>4, <3>1, <3>3 DEF AcceptInv, Asking, Finished
  <2> QED BY <1>0, <2>3, <2>4 DEF DataTyped
<1>10. CASE Publish
  <2>1. UNCHANGED <<settings, pc, request, last, seen, rounds, result>>
    BY <1>10 DEF Publish
  <2>2. ~Known
    BY <1>0, <1>10, SettingsType DEF AcceptInv, Known, Publish, DataTyped
  <2> QED BY <2>1, <2>2 DEF AcceptInv, Known
<1>11. CASE Drop
  BY <1>0, <1>1, <1>11 DEF Drop, End
<1>12. CASE UNCHANGED vars
  BY <1>1, <1>12 DEF vars
<1> QED
  BY <1>2, <1>3, <1>4, <1>5, <1>6, <1>7, <1>8, <1>9, <1>10, <1>11, <1>12
     DEF Next, ClientStep, Ended

LEMMA AcceptInvInit == Init => AcceptInv
<1> SUFFICES ASSUME Init PROVE AcceptInv
  OBVIOUS
<1>1. /\ settings.size \in Nat /\ settings.mode \in Modes /\ MaxPages \in Nat
      /\ Stride \in Nat /\ PageLength \in Nat
  BY SettingsType, Constants DEF Init, Stride, PageLength
<1>2. Len(catalog) = settings.size
  BY <1>1 DEF Init
<1>3. Start(request) = 0 /\ 0 * Stride = 0
  <2>1. 0 * PageLength = 0 /\ 0 * Stride = 0
    BY <1>1
  <2> QED BY <1>1, <2>1 DEF Init, FirstRequest, Start, Modes
<1>4. Placed
  BY <1>1, <1>3
     DEF Init, Placed, PagesRead, FirstRequest, NoCycle, AskedOn
<1> QED BY <1>1, <1>2, <1>4 DEF Init, AcceptInv, Finished

\* A configured client accepts exactly the honest servers whose catalog fits
\* its settings, for any page size, page limit and cap, in all five modes: no
\* request of a loop that advances is taken for a cycle, and no catalog beyond
\* the limit for whole.
THEOREM HonestAccepted == Spec => []HonestServerAccepted
<1>1. IInv /\ AcceptInv => HonestServerAccepted
  <2> SUFFICES ASSUME IInv, AcceptInv PROVE HonestServerAccepted
    OBVIOUS
  <2>1. settings.read \in {"pages", "object"}
    BY ConfigAssumption DEF IInv, DataTyped, Configuration
  <2> QED BY <2>1 DEF AcceptInv, Known, Finished, HonestServerAccepted
<1> QED BY <1>1, AcceptInvInit, AcceptInvNext, Inductive, PTL DEF Spec

-----------------------------------------------------------------------------
(* The iteration as a part of another specification.                       *)

\* An iterator is made over the same server.
Begins ==
  /\ pc' = "ask" /\ result' = "none" /\ request' = FirstRequest
  /\ last' = FALSE /\ seen' = {} /\ rounds' = 0
  /\ attempt' = 0 /\ status' = 0 /\ waited' = 0 /\ yielded' = << >>
  /\ UNCHANGED <<settings, catalog>>

LEMMA BeginsSound ==
  ASSUME IInv, SkipInv, Begins
  PROVE  IInv' /\ SkipInv'
<1>0. DataTyped /\ settings \in Configurations /\ catalog \in Seq(Nat)
  BY DEF IInv, DataTyped
<1>1. request' \in Request /\ request'.page >= 1
  BY DEF Begins, FirstRequest, Request
<1>2. DataTyped'
  <2>1. << >> \in Seq(Nat) /\ FALSE \in BOOLEAN
    OBVIOUS
  <2>2. /\ yielded' \in Seq(Nat) /\ last' \in BOOLEAN
        /\ UNCHANGED <<settings, catalog>>
    BY <2>1 DEF Begins
  <2> QED BY <1>0, <1>1, <2>2 DEF DataTyped
<1>3. Counted'
  BY FS_EmptySet, Constants
     DEF Begins, Counted, BoundedPatience, RetryBudget, Results
<1>4. Start(request)' = 0
  <2>1. settings.mode \in Modes /\ PageLength \in Nat
    BY <1>0, SettingsType, PageLengthBound
  <2>2. 0 * PageLength = 0
    BY <2>1
  <2> QED BY <2>1, <2>2 DEF Begins, FirstRequest, Start, PageLength, Modes
<1>5. CatalogHolds' /\ PassedIsHanded' /\ ~Finished'
  <2>1. CatalogHolds'
    BY DEF Begins, SkipInv, CatalogHolds, Originals
  <2>2. PassedIsHanded'
    BY <1>4 DEF PassedIsHanded
  <2> QED BY <2>1, <2>2 DEF Begins, Finished
<1> QED BY <1>2, <1>3, <1>5 DEF IInv, SkipInv

\* What is handed out stays handed out, and the page is a sequence.
LEMMA PageGrows ==
  ASSUME DataTyped, NEW env \in Envelopes, PageStep(env)
  PROVE  /\ env.items \in Seq(Nat) /\ Len(env.items) \in Nat
         /\ Len(yielded') = Len(yielded) + Len(env.items)
         /\ \A i \in 1..Len(yielded) : yielded'[i] = yielded[i]
         /\ \A i \in 1..Len(env.items) :
              yielded'[Len(yielded) + i] = env.items[i]
<1>1. env.items \in Seq(Nat) /\ yielded \in Seq(Nat)
  BY EnvelopeType DEF Envelope, DataTyped
<1>2. Len(env.items) \in Nat /\ Len(yielded) \in Nat
  BY <1>1
<1>3. /\ Len(yielded') = Len(yielded) + Len(env.items)
      /\ \A i \in 1..(Len(yielded) + Len(env.items)) :
           yielded'[i] = IF i <= Len(yielded) THEN yielded[i]
                         ELSE env.items[i - Len(yielded)]
  BY <1>1, ConcatProperties DEF PageStep
<1>4. ASSUME NEW i \in 1..Len(env.items)
      PROVE  yielded'[Len(yielded) + i] = env.items[i]
  <2>1. /\ Len(yielded) + i \in 1..(Len(yielded) + Len(env.items))
        /\ ~(Len(yielded) + i <= Len(yielded))
        /\ (Len(yielded) + i) - Len(yielded) = i
    BY <1>2
  <2> QED BY <1>3, <2>1
<1>5. \A i \in 1..Len(yielded) :
        i \in 1..(Len(yielded) + Len(env.items)) /\ i <= Len(yielded)
  BY <1>2
<1> QED BY <1>1, <1>2, <1>3, <1>4, <1>5

\* A step of an iteration, as its consumer sees it.
LEMMA StepSeen ==
  ASSUME IInv, ClientStep, settings.read = "pages"
  PROVE  /\ pc \in {"ask", "get", "yield"} /\ UNCHANGED <<settings, catalog>>
         /\ pc' \in {"ask", "get", "yield", "end"}
         /\ pc' = "get" => rounds' = IF pc = "ask" THEN rounds + 1 ELSE rounds
         /\ pc' = "ask" => pc = "yield" /\ rounds' = rounds
         /\ pc' = "yield" => pc = "get" /\ rounds' = rounds
         /\ pc = "yield" => pc' # "get"
         /\ pc' # "yield" => yielded' = yielded
<1>0. DataTyped /\ settings.read # "object"
  BY DEF IInv
<1>1. CASE \E code \in StatusCodes \cup {0} : \E env \in Envelopes :
             GetPage(code, env)
  BY <1>1 DEF GetPage, Get, End
<1>2. CASE \E code \in StatusCodes \cup {0} :
             GetFails(code) \/ GetRejected(code) \/ GetUnreadable(code)
  BY <1>2 DEF GetFails, GetRejected, GetUnreadable, Get, End, Retry
<1>3. CASE GetRaises \/ AskPage \/ AskRefused \/ AskStopped
  BY <1>3 DEF GetRaises, AskPage, AskRefused, AskStopped, EnterRound, Get, End
<1>4. CASE Resume
  BY <1>4 DEF Resume, End
<1> QED
  BY <1>0, <1>1, <1>2, <1>3, <1>4 DEF ClientStep, AskObject, GetObject

\* The items a server may send: those of its catalog, now or later, or the
\* item that stands for all an arbitrary server sends.
Named == {0} \cup 1..(settings.size + settings.growth)

ItemsNamed ==
  /\ Len(catalog) <= settings.size + settings.growth
  /\ \A k \in 1..Len(catalog) : catalog[k] \in Named
  /\ \A k \in 1..Len(yielded) : yielded[k] \in Named

LEMMA ItemsNamedInit == Init => ItemsNamed
<1> SUFFICES ASSUME Init PROVE ItemsNamed
  OBVIOUS
<1>1. settings.size \in Nat /\ settings.growth \in Nat
  BY SettingsType DEF Init
<1>2. Len(catalog) = settings.size /\ \A k \in 1..settings.size : catalog[k] = k
  BY <1>1 DEF Init
<1> QED BY <1>1, <1>2 DEF Init, ItemsNamed, Named

LEMMA EnvelopeNamed ==
  ASSUME DataTyped, ItemsNamed, NEW env \in Envelopes
  PROVE  \A k \in 1..Len(env.items) : env.items[k] \in Named
<1>1. CASE settings.server = "honest"
  <2>0. env = HonestEnvelope(request)
    BY <1>1 DEF Envelopes
  <2>1. /\ Len(env.items) =
             IF Start(request) < Stop THEN Stop - Start(request) ELSE 0
        /\ \A k \in (Start(request) + 1)..Stop :
             env.items[k - Start(request)] = catalog[k]
    BY <2>0, HonestItems
  <2>2. /\ Start(request) \in Nat /\ Stop \in Nat /\ Stop <= Len(catalog)
        /\ Len(catalog) \in Nat
    BY StopBound
  <2> SUFFICES ASSUME NEW k \in 1..Len(env.items) PROVE env.items[k] \in Named
    OBVIOUS
  <2>3. /\ Start(request) + k \in (Start(request) + 1)..Stop
        /\ Start(request) + k \in 1..Len(catalog)
        /\ (Start(request) + k) - Start(request) = k
    BY <2>1, <2>2
  <2>4. env.items[k] = catalog[Start(request) + k]
    BY <2>1, <2>3
  <2> QED BY <2>3, <2>4 DEF ItemsNamed
<1>2. CASE settings.server # "honest"
  <2>1. env.items \in {[i \in 1..n |-> 0] : n \in 0..(Limit + 1)}
    BY <1>2 DEF Envelopes, ArbitraryEnvelopes
  <2>2. PICK n \in 0..(Limit + 1) : env.items = [i \in 1..n |-> 0]
    BY <2>1
  <2>3. Len(env.items) = n
    BY <2>2, Constants
  <2> QED BY <2>2, <2>3 DEF Named
<1> QED BY <1>1, <1>2

LEMMA ItemsNamedNext == IInv /\ ItemsNamed /\ [Next]_vars => ItemsNamed'
<1> SUFFICES ASSUME IInv, ItemsNamed, [Next]_vars PROVE ItemsNamed'
  OBVIOUS
<1>0. DataTyped
  BY DEF IInv
<1>1. ASSUME UNCHANGED <<settings, catalog, yielded>> PROVE ItemsNamed'
  BY <1>1 DEF ItemsNamed, Named
<1>2. ASSUME NEW env \in Envelopes, PageStep(env) PROVE ItemsNamed'
  <2>1. /\ Len(env.items) \in Nat
        /\ Len(yielded') = Len(yielded) + Len(env.items)
        /\ \A i \in 1..Len(yielded) : yielded'[i] = yielded[i]
        /\ \A i \in 1..Len(env.items) :
             yielded'[Len(yielded) + i] = env.items[i]
    BY <1>0, <1>2, PageGrows
  <2>2. UNCHANGED <<settings, catalog>> /\ Len(yielded) \in Nat
    BY <1>0, <1>2 DEF PageStep, DataTyped
  <2>3. ASSUME NEW k \in 1..Len(yielded') PROVE yielded'[k] \in Named
    <3>1. CASE k <= Len(yielded)
      BY <2>1, <2>2, <3>1 DEF ItemsNamed
    <3>2. CASE k > Len(yielded)
      <4>1. /\ k - Len(yielded) \in 1..Len(env.items)
            /\ Len(yielded) + (k - Len(yielded)) = k
        BY <2>1, <2>2, <3>2
      <4>2. env.items[k - Len(yielded)] \in Named
        BY <1>0, <1>2, <4>1, EnvelopeNamed
      <4> QED BY <2>1, <4>1, <4>2
    <3> QED BY <2>1, <2>2, <3>1, <3>2
  <2> QED BY <2>2, <2>3 DEF ItemsNamed, Named
<1>3. CASE Publish
  <2> DEFINE x == Len(catalog) + 1
  <2>1. PICK n \in 0..Len(catalog) :
          catalog' = SubSeq(catalog, 1, n) \o <<x>>
                       \o SubSeq(catalog, n + 1, Len(catalog))
    BY <1>3 DEF Publish
  <2>2. /\ UNCHANGED <<settings, yielded>> /\ Len(catalog) \in Nat /\ x \in Nat
        /\ settings.size \in Nat /\ settings.growth \in Nat
        /\ x <= settings.size + settings.growth
    BY <1>0, <1>3, SettingsType DEF Publish, DataTyped
  <2>3. x \in Named
    BY <2>2 DEF Named
  <2> HIDE DEF x
  <2>4. /\ Len(catalog') = Len(catalog) + 1
        /\ \A k \in 1..(Len(catalog) + 1) :
             catalog'[k] = IF k <= n THEN catalog[k]
                           ELSE IF k = n + 1 THEN x ELSE catalog[k - 1]
    BY <1>0, <2>1, <2>2, Inserted
  <2>5. ASSUME NEW k \in 1..(Len(catalog) + 1) PROVE catalog'[k] \in Named
    <3>1. /\ k <= n => k \in 1..Len(catalog)
          /\ ~(k <= n) /\ k # n + 1 => k - 1 \in 1..Len(catalog)
      BY <2>2
    <3> QED BY <2>3, <2>4, <3>1 DEF ItemsNamed
  <2> QED BY <2>2, <2>4, <2>5 DEF x, ItemsNamed, Named
<1>4. CASE ClientStep
  <2>1. QuietStep \/ Resume => UNCHANGED <<settings, catalog, yielded>>
    BY DEF QuietStep, Resume
  <2> QED BY <1>1, <1>2, <1>4, <2>1, StepKinds
<1>5. CASE Drop \/ UNCHANGED vars
  BY <1>1, <1>5 DEF Drop, vars
<1> QED BY <1>3, <1>4, <1>5 DEF Next, Ended
=============================================================================
