---------------------------- MODULE ProductPages ----------------------------
(***************************************************************************)
(* ProductApiClient: one read of the external catalog, either an iteration *)
(* of iter_pages or the single GET of fetch_product, fetch_categories or   *)
(* fetch_subcategories, with the retry loop of _send around every GET.  A  *)
(* step ends at the GET, with the sleep before its retry, or at the yield, *)
(* where the consumer decides when, and whether, the iteration goes on.    *)
(*                                                                         *)
(* The external server is part of the environment.  An honest server cuts  *)
(* its catalog into pages as the pagination mode says, of a length it may  *)
(* cap, and may gain items between two requests; an arbitrary one answers  *)
(* anything that parses.                                                   *)
(***************************************************************************)
EXTENDS Integers, Sequences, FiniteSets

CONSTANTS
  Configurations,  \* settings, and the server, a read may run with
  Limit,           \* settings.external_api_page_size
  MaxPages,        \* settings.external_api_max_pages
  Attempts,        \* settings.external_api_retry_attempts
  Backoff,         \* settings.external_api_retry_backoff_seconds
  MaxDelay,        \* settings.external_api_max_retry_delay
  RetryAfters,     \* what float() reads from a Retry-After header
  NoHeader,        \* no such header, or one that float() refuses
  NotANumber,      \* the header "nan", which float() takes
  StatusCodes,     \* status codes the server may answer with
  TransportFails,  \* whether a GET may raise a TransportError
  Tokens,          \* cursors and links an arbitrary server may send
  ForeignLinks,    \* links that point to another origin
  MalformedLinks   \* links that urljoin or urlparse refuses

Modes == {"none", "page", "offset", "cursor", "link"}

\* read is the operation; infer is external_api_infer_has_more_from_page_size;
\* configured says that the base URL and the credentials of the mode are set.
\* Of the server: the items of its catalog at the start, how many it may gain
\* during the read, and the longest page it sends.
Configuration == [
  read : {"pages", "object"}, mode : Modes, infer : BOOLEAN,
  configured : BOOLEAN, server : {"honest", "arbitrary"},
  size : Nat, growth : Nat, cap : Nat \ {0} ]

\* Cursors and links are numbers; 0 is the absent or empty one.
Request == [page : Nat, offset : Nat, cursor : Nat, nextUrl : Nat]

ASSUME ConfigAssumption ==
  /\ Configurations \subseteq Configuration
  /\ {Limit, MaxPages, Attempts, Backoff, MaxDelay} \subseteq Nat \ {0}
  /\ \A n \in 0..Attempts : Backoff * 2^n \in Nat  \* what a prover may not know
  /\ RetryAfters \subseteq Int \cup {NotANumber}
  /\ NoHeader \notin Int /\ NotANumber \notin Int /\ NoHeader # NotANumber
  /\ StatusCodes \subseteq Nat
  /\ TransportFails \in BOOLEAN
  /\ Tokens \subseteq Nat \ {0}
  /\ ForeignLinks \cup MalformedLinks \subseteq Nat \ {0}
  \* An honest server's links are well formed and stay in its origin.
  /\ \A s \in Configurations :
       s.server = "honest" =>
         (ForeignLinks \cup MalformedLinks) \cap 1..(s.size + s.growth) = {}

RetryableStatusCodes == {408, 425, 429, 500, 502, 503, 504}

VARIABLES
  settings,    \* the configuration, fixed for the read
  catalog,     \* the items of the server, in its order
  pc,          \* "ask", "get", "yield" or "end"
  request,     \* the request of the next or current page
  last,        \* no page follows the one yielded
  seen,        \* identities of the requests made
  rounds,      \* rounds of the page loop that were begun
  attempt,     \* retries of the current GET
  status,      \* status of its last answer, 0 for a transport error
  waited,      \* time slept between its attempts
  yielded,     \* items yielded to the consumer
  result       \* how the read ended

vars == <<settings, catalog, pc, request, last, seen, rounds, attempt, status,
          waited, yielded, result>>

Results == {"none", "whole", "object", "dropped", "configuration",
            "authentication", "rate_limit", "unavailable", "response",
            "invalid_payload", "blank_id", "raised"}

-----------------------------------------------------------------------------
(* The server. *)

\* The length of a page that is not the last one.
PageLength == IF settings.cap < Limit THEN settings.cap ELSE Limit

\* Where the page asked for starts in an honest server's catalog.
Start(req) ==
  CASE settings.mode = "none" -> 0
    [] settings.mode = "page" -> (req.page - 1) * PageLength
    [] settings.mode = "offset" -> req.offset
    [] settings.mode = "cursor" -> req.cursor
    [] settings.mode = "link" -> req.nextUrl

\* An honest server says that more follows by the means of its mode, or, if
\* the client infers it from the size of the page, not at all.
HonestEnvelope(req) ==
  LET stop == IF settings.mode = "none" \/ Start(req) + PageLength > Len(catalog)
              THEN Len(catalog) ELSE Start(req) + PageLength
      more == stop < Len(catalog)
  IN  [ items   |-> SubSeq(catalog, Start(req) + 1, stop),
        hasMore |-> more /\ ~settings.infer,
        cursor  |-> IF more /\ settings.mode = "cursor" THEN stop ELSE 0,
        link    |-> IF more /\ settings.mode = "link" THEN stop ELSE 0 ]

ArbitraryEnvelopes ==
  [ items : {[i \in 1..n |-> 0] : n \in 0..(Limit + 1)}, hasMore : BOOLEAN,
    cursor : Tokens \cup {0}, link : Tokens \cup {0} ]

Envelopes ==
  IF settings.server = "honest" THEN {HonestEnvelope(request)}
  ELSE ArbitraryEnvelopes

\* The server gains an item, somewhere in its order.
Publish ==
  /\ pc # "end"
  /\ Len(catalog) < settings.size + settings.growth
  /\ \E n \in 0..Len(catalog) :
       catalog' = SubSeq(catalog, 1, n) \o <<Len(catalog) + 1>>
                    \o SubSeq(catalog, n + 1, Len(catalog))
  /\ UNCHANGED <<settings, pc, request, last, seen, rounds, attempt, status,
                 waited, yielded, result>>

-----------------------------------------------------------------------------
(* Helpers of the client. *)

FirstRequest == [page |-> 1, offset |-> 0, cursor |-> 0, nextUrl |-> 0]

\* Mutant: the identity forgets the cursor.
IdentityWithoutCursor(req) == <<req.page, req.offset, 0, req.nextUrl>>

\* The identity of a request is the whole request: its limit and its filters
\* are the same for all pages.
Identity(req) == <<req.page, req.offset, req.cursor, req.nextUrl>>

\* What a request sends of its identity: the parameter of its mode, or the
\* link as it is written.  In mode none nothing of it is sent.
Query(id) ==
  CASE settings.mode = "none" -> 0
    [] settings.mode = "page" -> id[1]
    [] settings.mode = "offset" -> id[2]
    [] settings.mode = "cursor" -> id[3]
    [] settings.mode = "link" -> id[4]

\* Mutant: a page that is not full is the last one, whatever the server says.
HasMoreOnlyIfFull(env) == Len(env.items) = Limit

HasMore(env) ==
  \/ env.hasMore \/ env.cursor # 0 \/ env.link # 0
  \/ settings.infer /\ Len(env.items) = Limit

\* The page promised cannot be asked for: _next_request raises.
Unnamed(env) ==
  /\ HasMore(env)
  /\ \/ settings.mode = "cursor" /\ env.cursor = 0
     \/ settings.mode = "link" /\ env.link = 0

\* Mutant: the page advances, the offset does not.
NextRequestStuck(req, env) ==
  CASE settings.mode = "cursor" -> [FirstRequest EXCEPT !.cursor = env.cursor]
    [] settings.mode = "link" -> [FirstRequest EXCEPT !.nextUrl = env.link]
    [] OTHER -> [req EXCEPT !.page = @ + 1]

\* Mutant: the offset advances by the page number, not by the limit.
NextRequestShort(req, env) ==
  CASE settings.mode = "cursor" -> [FirstRequest EXCEPT !.cursor = env.cursor]
    [] settings.mode = "link" -> [FirstRequest EXCEPT !.nextUrl = env.link]
    [] settings.mode = "offset" ->
         [FirstRequest EXCEPT !.page = req.page + 1, !.offset = req.offset + 1]
    [] OTHER -> [req EXCEPT !.page = @ + 1]

NextRequest(req, env) ==
  CASE settings.mode = "cursor" -> [FirstRequest EXCEPT !.cursor = env.cursor]
    [] settings.mode = "link" -> [FirstRequest EXCEPT !.nextUrl = env.link]
    [] settings.mode = "offset" ->
         [FirstRequest EXCEPT !.page = req.page + 1, !.offset = req.offset + Limit]
    [] OTHER -> [req EXCEPT !.page = @ + 1]

\* Mutant: the server's Retry-After is not limited.
UncappedDelay(n, after) ==
  IF after # NoHeader THEN after
  ELSE IF Backoff * 2^n < MaxDelay THEN Backoff * 2^n ELSE MaxDelay

\* The delay after the n-th retry: the one the server asks for, or an
\* exponential one, up to the longest.  min gives a NaN back as it is.
RetryDelay(n, after) ==
  LET delay == IF after # NoHeader THEN after ELSE Backoff * 2^n
  IN  IF delay = NotANumber THEN NotANumber
      ELSE IF delay < MaxDelay THEN delay ELSE MaxDelay

\* A sleep of a negative time is none.
Slept(delay) == IF delay > 0 THEN delay ELSE 0

\* The time slept after one more sleep; nothing bounds the sleep of a NaN.
SleptInAll(time, delay) ==
  IF NotANumber \in {time, delay} THEN NotANumber ELSE time + Slept(delay)

-----------------------------------------------------------------------------
Init ==
  /\ settings \in Configurations
  /\ catalog = [i \in 1..settings.size |-> i]
  /\ pc = "ask"
  /\ request = FirstRequest
  /\ last = FALSE
  /\ seen = {}
  /\ rounds = 0
  /\ attempt = 0
  /\ status = 0
  /\ waited = 0
  /\ yielded = << >>
  /\ result = "none"

End(r) == pc' = "end" /\ result' = r

(* The page loop of iter_pages, up to the GET of _send. *)

NotCycling == Identity(request) \notin seen

\* The settings of the request are complete and its link, if it has one, is
\* well formed and stays in the origin of the base URL.
Sendable ==
  /\ settings.configured
  /\ request.nextUrl \notin ForeignLinks \cup MalformedLinks

EnterRound ==
  /\ pc = "ask"
  /\ settings.read = "pages"
  /\ rounds < MaxPages
  /\ NotCycling
  /\ seen' = seen \cup {Identity(request)}
  /\ rounds' = rounds + 1
  /\ attempt' = 0
  /\ waited' = 0
  /\ UNCHANGED <<settings, catalog, request, last, status, yielded>>

AskPage ==
  /\ EnterRound
  /\ Sendable
  /\ pc' = "get"
  /\ UNCHANGED result

\* A malformed link leaves as the ValueError of urljoin or urlparse.
AskRefused ==
  /\ EnterRound
  /\ ~Sendable
  /\ End(CASE ~settings.configured -> "configuration"
           [] request.nextUrl \in MalformedLinks -> "raised"
           [] OTHER -> "invalid_payload")

\* The page limit, or a cycle.
AskStopped ==
  /\ pc = "ask"
  /\ settings.read = "pages"
  /\ rounds = MaxPages \/ ~NotCycling
  /\ End("invalid_payload")
  /\ UNCHANGED <<settings, catalog, request, last, seen, rounds, attempt,
                 status, waited, yielded>>

(* fetch_product, fetch_categories and fetch_subcategories, up to the GET. *)

AskObject(blank) ==
  /\ pc = "ask"
  /\ settings.read = "object"
  /\ IF blank THEN End("blank_id")
     ELSE IF ~settings.configured THEN End("configuration")
     ELSE pc' = "get" /\ UNCHANGED result
  /\ UNCHANGED <<settings, catalog, request, last, seen, rounds, attempt,
                 status, waited, yielded>>

(* One GET and what _send does with its answer. *)

Get(code) ==
  /\ pc = "get"
  /\ status' = code
  /\ UNCHANGED <<settings, catalog, seen, rounds>>

\* Mutant: one attempt too few.
LastAttemptEarly == attempt + 2 >= Attempts

LastAttempt == attempt + 1 >= Attempts

\* What the answer says of the time to wait.
RetryAfter(code) ==
  IF code = 0 THEN {NoHeader} ELSE RetryAfters \cup {NoHeader}

\* Mutant: the attempts are not counted.
RetryForever(code) == UNCHANGED <<attempt, waited, pc, result>>

\* Mutant: the attempts are counted down.
RetryCountsDown(code) ==
  attempt' = attempt - 1 /\ UNCHANGED <<waited, pc, result>>

\* To sleep for a NaN is a ValueError under uvloop, and a timer out of order
\* under the loop of asyncio.
Retry(code) ==
  \E after \in RetryAfter(code) :
    \/ /\ attempt' = attempt + 1
       /\ waited' = SleptInAll(waited, RetryDelay(attempt, after))
       /\ UNCHANGED <<pc, result>>
    \/ /\ RetryDelay(attempt, after) = NotANumber
       /\ End("raised")
       /\ UNCHANGED <<attempt, waited>>

GetFails(code) ==
  /\ \/ code = 0 /\ TransportFails
     \/ code \in StatusCodes \cap RetryableStatusCodes
  /\ Get(code)
  /\ IF LastAttempt
     THEN End(IF code = 429 THEN "rate_limit" ELSE "unavailable")
          /\ UNCHANGED <<attempt, waited>>
     ELSE Retry(code)
  /\ UNCHANGED <<request, last, yielded>>

\* An error of the HTTP library that is not a TransportError: no retry, and
\* the caller gets it as it is.
GetRaises ==
  /\ TransportFails
  /\ Get(0)
  /\ End("raised")
  /\ UNCHANGED <<request, last, attempt, waited, yielded>>

GetRejected(code) ==
  /\ code \in StatusCodes \ RetryableStatusCodes
  /\ code >= 400
  /\ Get(code)
  /\ End(IF code \in {401, 403} THEN "authentication" ELSE "response")
  /\ UNCHANGED <<request, last, attempt, waited, yielded>>

\* The body is not JSON, not what was asked for, or its metadata is invalid.
GetUnreadable(code) ==
  /\ code \in StatusCodes \ RetryableStatusCodes
  /\ code < 400
  /\ settings.server = "arbitrary"
  /\ Get(code)
  /\ End("invalid_payload")
  /\ UNCHANGED <<request, last, attempt, waited, yielded>>

GetObject(code) ==
  /\ settings.read = "object"
  /\ code \in StatusCodes \ RetryableStatusCodes
  /\ code < 400
  /\ Get(code)
  /\ End("object")
  /\ UNCHANGED <<request, last, attempt, waited, yielded>>

GetPage(code, env) ==
  /\ settings.read = "pages"
  /\ code \in StatusCodes \ RetryableStatusCodes
  /\ code < 400
  /\ Get(code)
  /\ IF Unnamed(env)
     THEN End("invalid_payload") /\ UNCHANGED <<request, last, yielded>>
     ELSE /\ pc' = "yield"
          /\ yielded' = yielded \o env.items
          /\ last' = ~HasMore(env)
          /\ request' = IF HasMore(env) THEN NextRequest(request, env)
                                        ELSE request
          /\ UNCHANGED result
  /\ UNCHANGED <<attempt, waited>>

(* The consumer asks for the next page, or drops the iterator. *)

Resume ==
  /\ pc = "yield"
  /\ IF last THEN End("whole") ELSE pc' = "ask" /\ UNCHANGED result
  /\ UNCHANGED <<settings, catalog, request, last, seen, rounds, attempt,
                 status, waited, yielded>>

Drop ==
  /\ pc = "yield"
  /\ End("dropped")
  /\ UNCHANGED <<settings, catalog, request, last, seen, rounds, attempt,
                 status, waited, yielded>>

-----------------------------------------------------------------------------
ClientStep ==
  \/ AskPage \/ AskRefused \/ AskStopped \/ GetRaises
  \/ \E blank \in BOOLEAN : AskObject(blank)
  \/ \E code \in StatusCodes \cup {0} :
       \/ GetFails(code) \/ GetRejected(code) \/ GetUnreadable(code)
       \/ GetObject(code)
       \/ \E env \in Envelopes : GetPage(code, env)
  \/ Resume

Ended == pc = "end" /\ UNCHANGED vars

Next == ClientStep \/ Publish \/ Drop \/ Ended

Spec == Init /\ [][Next]_vars

\* The server answers or the timeout of the GET does; the consumer goes on.
FairSpec == Spec /\ WF_vars(ClientStep)

-----------------------------------------------------------------------------
(* Safety. *)

\* Every variable keeps its type, whatever the server sends.
TypeOK ==
  /\ settings \in Configurations
  /\ catalog \in Seq(Nat)
  /\ pc \in {"ask", "get", "yield", "end"}
  /\ request \in Request
  /\ last \in BOOLEAN
  /\ seen \subseteq (Nat \X Nat \X Nat \X Nat)
  /\ {rounds, attempt, status} \subseteq Nat
  /\ waited \in Nat \cup {NotANumber}
  /\ yielded \in Seq(Nat)
  /\ result \in Results

\* No query is sent to the server twice: the client compares identities, of
\* which a request sends only one part, so that the requests it takes for new
\* must be new to the server.  Not in mode none, where they never are.
NoQueryRepeated ==
  settings.mode # "none" => Cardinality({Query(id) : id \in seen}) = rounds

\* The client gives up only when its attempts are spent, names the reason of
\* the last of them, and never spends more.
RetryBudget ==
  /\ attempt < Attempts
  /\ result \in {"rate_limit", "unavailable"} =>
       /\ attempt = Attempts - 1
       /\ status \in RetryableStatusCodes \cup {0}
       /\ result = "rate_limit" <=> status = 429

\* However long or short the server asks the client to wait, the retries of
\* one GET wait no longer than the longest delay for each of them.  A header
\* that is NaN alone escapes the limit.
BoundedPatience == waited # NotANumber => waited <= attempt * MaxDelay

\* How far the pages the client accepts reach into the catalog.
Reach ==
  IF settings.mode = "offset" THEN (MaxPages - 1) * Limit + PageLength
                              ELSE MaxPages * PageLength

\* The server's pages are shorter than the client takes a full page to be.
Capped == settings.cap < Limit

\* The catalog ends where the client can tell, within the pages it accepts.
\* A client that infers from a full page that more follows must not find the
\* last page full, except where it then asks for one page more.
Fits ==
  CASE settings.mode = "none" -> ~(settings.infer /\ settings.size = Limit)
    [] settings.mode \in {"page", "offset"} /\ settings.infer ->
         Capped \/ settings.size < Reach
    [] settings.mode \in {"cursor", "link"} /\ settings.infer /\ ~Capped ->
         settings.size <= Reach /\ (settings.size % Limit # 0 \/ settings.size = 0)
    [] OTHER -> settings.size <= Reach

\* A configured client accepts exactly the honest servers whose catalog fits:
\* no false cycle, no page limit, no missing cursor or link, and no catalog
\* beyond the limit taken for whole.
HonestServerAccepted ==
  /\ settings.server = "honest" /\ settings.configured /\ settings.growth = 0
  => /\ result \in {"invalid_payload", "configuration"} => ~Fits
     /\ result = "whole" => Fits

\* The client and the server mean the same by a page: an offset advances by
\* what was sent, and a page that is not full is the last one.
PagesAgree ==
  Capped => \/ settings.mode \in {"none", "cursor", "link"}
            \/ settings.mode = "page" /\ ~settings.infer

\* An iteration that ends well has handed out every item that the catalog of
\* an honest server held from its beginning, whatever the catalog gains
\* before or after the pages already read.
NothingSkipped ==
  settings.server = "honest" /\ PagesAgree /\ result = "whole" =>
    1..settings.size \subseteq {yielded[i] : i \in DOMAIN yielded}

(* Liveness, under FairSpec. *)

\* The read ends, whatever the server answers.
IterationEnds == <>(pc = "end")

-----------------------------------------------------------------------------
\* The servers whose catalog the client promises to hand out as it is.
Promised ==
  /\ settings.read = "pages" /\ settings.server = "honest"
  /\ settings.growth = 0 /\ PagesAgree
  /\ settings.mode = "none" => Fits

Offered == IF Promised THEN catalog ELSE << >>

Handed == IF Promised THEN yielded ELSE << >>

Outcome == CASE result = "none" -> "open" [] result = "whole" -> "whole"
             [] OTHER -> "broken"

Feed == INSTANCE PageFeed WITH
  catalog <- Offered, handed <- Handed, status <- Outcome

\* With such a server the consumer gets the catalog, in order, no item twice
\* and none skipped, and a success only when it is complete.
ImplementsFeed == Feed!Spec

\* README.md: the synchronization "percorre todas as paginas"; NothingSkipped
\* without its condition on the two sides' pages.
AllPagesRead ==
  settings.server = "honest" /\ result = "whole" =>
    1..settings.size \subseteq {yielded[i] : i \in DOMAIN yielded}
=============================================================================
