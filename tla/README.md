# A TLA+ model of agent-rag-doces-sonhos

This directory holds the formal model of the catalog service: TLA+ modules
translated from `src/app`, the TLC configurations that check them on small
instances, and TLAPS proofs of what matters most for instances of any size.

    tlc -config CatalogSync_slot.cfg MCCatalogSync.tla     # a model-checking run
    tlapm CatalogSyncProofs.tla                            # the proofs of a module

`PROJECT.json` lists the runs, the mutants that show that every property can
fail, the source lines behind every definition, the hazards and the theorems.

## 1. Inventory

The program is a FastAPI service with two subsystems that hold state, catalog
ingestion and users, over one PostgreSQL database.  Handlers and use cases are
coroutines; every `await` is a point where another call, in this process or in
another one that shares the database, may run.

| Part (under `src/app`) | State it keeps | Operations | What makes it correct |
| --- | --- | --- | --- |
| `ingestion/application/usecases/start_catalog_sync.py` | the aggregate of one call, in memory | `execute`, `_process_item` | one execution at a time; every item counted; the answer agrees with the database; the slot is given back |
| `ingestion/domain/entities/catalog_sync_execution.py` | status, counters, failures, changes | `register_*`, `complete`, `fail` | received = processed + failed; a closed execution is never changed |
| `ingestion/infrastructure/persistence/sqlalchemy_catalog_sync_repository.py` | `catalog_sync_executions` with the unique nullable `active_slot`, errors, changes | `acquire`, `save`, `get` | the slot decides between racing calls; a save stores the whole aggregate |
| `ingestion/infrastructure/external_api/product_api_client.py` | the request of the iteration, the requests seen, the attempts left | `iter_pages`, `fetch_page`, `_send`, `_next_request` | no page twice, none skipped; ends; the retry budget; the kind of the final error |
| `ingestion/infrastructure/external_api/mapper.py`, `ingestion/application/usecases/normalize_product.py`, `catalog/application/usecases/build_product_from_import.py` | none | `map_external_product`, `execute` | what normalization accepts, the aggregate accepts; exactly one default price, one primary image |
| `ingestion/infrastructure/pipeline/product_pipeline_processor.py` | none | `process` | one item, one transaction |
| `catalog/domain/entities/product.py` | the product aggregate | `protect`, `unprotect`, `activate`, `deactivate`, `apply_external_snapshot` | protected fields are never overwritten; inactive means unavailable |
| `catalog/infrastructure/persistence/sqlalchemy_product_repository.py` | `products`, prices, images | `upsert_incremental`, reads | one row per external id; fingerprint, row and reported change agree |
| `users/application`, `users/domain`, `users/infrastructure` | `users` | create, rename, deactivate, get, list | unique e-mail; no lost update; what the caller is told is what was stored |
| `shared/infrastructure/observability/health.py` | none; connections of the pool while a probe runs | `check` | ready only if every component answered; connections come back |
| `main.py`, `bootstrap.py`, `settings.py`, `session.py`, `migrations/` | wiring and configuration | startup, shutdown, error mapping | configuration validated; resources closed in order |

**How they interact.**  `StartCatalogSyncUseCase` drives the ingestion: it
acquires the slot, iterates the pages of the client, hands each item to the
processor (map, normalize, build, upsert in a transaction of its own) and saves
the execution after each page.  Products and executions are written in
*different* transactions.  Users share only the database with the rest, and the
readiness checks its connection pool.

**What is hard.**  Calls racing for the slot; a crash or a cancelled task
between two transactions; a commit whose reply is lost; a failure while
handling a failure; read-modify-write over two sessions (users, products);
pagination driven by what an external server says; retries at the limit of
their budget.

## 2. The modules

### `CatalogSync` - the synchronization of the catalog

One *run* is one call of `StartCatalogSyncUseCase.execute`, the execution it
creates and its row.  An action is what happens up to the next `await`.

| State | Code |
| --- | --- |
| `pc[r]` | the `await` the call is suspended at |
| `exec[r]` | the `CatalogSyncExecution` in memory; `storable` says whether every recorded failure fits its columns |
| `row[r]` | its row; `NoRow` before the insert; `activeSlot` is `active_slot`, `FALSE` for `NULL` |
| `left[r]`, `pages[r]` | items left of the page, pages received |
| `outcome[r]` | what `execute` returned or raised |
| `upserted[r]` | history: product transactions that committed |

| Action | Code |
| --- | --- |
| `StartFresh`, `StartReprocess`, `RejectUnknown`, `LookupRaises` | `execute` 46-58, by what the lookup answers |
| `Acquire`, `AcquireRefused`, `AcquireRaises` | `acquire`: the insert commits, violates the unique slot, or raises with or without having committed |
| `ReceivePage`, `SourceExhausted`, `SourceRaises` | `async for` 63-64: a page, the end, an error of the source or the page limit of the client |
| `ItemProcessed`, `ItemFailed` | `_process_item` |
| `SavePage`, `SavePageRaises` | the save of a page; its error goes to `except Exception`, which calls `fail` |
| `SaveFailed`, `SaveFinal`, `ClosingSaveRaises` | the two closing saves; neither is inside the `try` |
| `Crash` | the process dies, or the task is cancelled: `CancelledError` is not an `Exception` |

The environment's faults are switched on by the constant `Faults`: `source`,
`db` (a transaction raises, and may have committed), `poison` (a failure record
its table refuses) and `crash`.  A transaction is one atomic step: the code
relies on PostgreSQL for that.  Not modelled: texts, timestamps, fingerprints
and the lists of changes and failures beyond their lengths.  The in-memory
repository, used by tests only, grants the slot by the same test.

`SyncSlot` is the abstract specification of the slot: begin when free, end
once, or be abandoned; `CatalogSync!ImplementsSlot` is the refinement.

### `ProductPages` - the iteration over the external catalog

One iteration of `ProductApiClient.iter_pages`, or one of the reads of a single
object (`fetch_product`, `fetch_categories`, `fetch_subcategories`), with the
retry loop of `_send` around each GET.  A step ends at the GET or at the
`yield`.

| State | Code |
| --- | --- |
| `settings` | what is read, pagination mode, inference of `has_more`, whether URL and credentials are configured; and the server: honest or arbitrary, the size of its catalog, how much it may gain, its own cap of a page |
| `catalog` | the server's catalog |
| `request`, `seen`, `rounds` | the next `ProductPageRequest`, the identities of the pages asked for, rounds of the loop |
| `attempt`, `status`, `waited` | the retry loop of the current GET, its last answer, the time slept |
| `last`, `yielded`, `result` | whether a page follows, the items handed out, how the read ended |

| Action | Code |
| --- | --- |
| `AskPage`, `AskRefused`, `AskStopped` | a round begins: the GET is sent; the URL, link or credentials are refused, or the link is malformed; the page is a repetition or one too many |
| `AskObject` | a read of one object: a blank id, missing settings, or the GET |
| `GetFails`, `GetRaises`, `GetRejected` | a transport error or retryable status, with `Retry` until the attempts are spent; another `httpx` error, which is not caught; a status that is not retried |
| `GetUnreadable`, `GetPage`, `GetObject` | `_parse_envelope` refuses the body, or yields the page and computes `_next_request`; the object |
| `Resume`, `Drop` | the consumer asks for the next page, or drops the iterator |
| `Publish` | the server gains an item, anywhere in its order |

The server is environment.  An *honest* one cuts its catalog into pages as the
mode says, perhaps shorter ones than asked for, and may gain items between two
pages; an *arbitrary* one answers anything that parses, also more items than
were asked for, and links to other origins or to nothing `urlparse` accepts: the
`ValueError` of a malformed link is one of the ways of `AskRefused`.
`RetryDelay` is the delay of `_retry_delay`: the server's `Retry-After` or an
exponential one, up to the longest.  A `Retry-After` may be NaN, which `min`
lets through; `Retry` then sleeps for it and goes on, or raises, as the event
loop does.  `Query` is the part of an identity that a request sends.
`Fits` says exactly which catalogs a client accepts: an inferring client cannot
tell a catalog that fills exactly `MaxPages` pages from a longer one, and in the
modes `cursor` and `link` asks for a page that has no name after a full last
page.  `PagesAgree` names the settings under which client and server mean the
same by a page: where a server caps the page, an advancing offset skips items
and inference takes the short page for the last, and nothing in the answer lets
the client notice.  The filters and the limit of a request never change and are
not part of its identity.  A server that *loses* items between two pages is left
out: no client could help it.

`PageFeed` is the abstract feed: hand out the catalog in order, say "whole" only
at its end, or break off.  `ProductPages!ImplementsFeed` is the refinement.

### `ProductPipeline` - what becomes of an item

`ProductPipelineProcessor.process` for one item after another: map, normalize,
build, upsert.  The slot (`CatalogSync!SingleActiveRun`) leaves one execution
to do so, which handles its items in order, so that an item is one step; in
`CatalogSync` the same step is `ItemProcessed` or `ItemFailed`.

| Definition | Code |
| --- | --- |
| `Mappable` | `map_external_product` and its transport schema |
| `Normalizable`, `Normalized` | `NormalizeProductUseCase`: what it refuses, what it returns |
| `Valid`, `ValidPrice`, `ValidCurrency`, `ValidImage` | the checks of `Product`, `ProductPriceOption`, `Money`, `ProductImage` |
| `Applied`, `Stored`, `Fingerprint` | `apply_external_snapshot`, the columns' rounding, `fingerprint_product` |
| `Insert`, `KeepUnchanged`, `Update` | the three branches of `upsert_incremental` |
| `Overflows`, `Unreadable`, `UpsertRaises` | a text or a number that its column cannot hold; the row cannot be read back; the transaction raises, committed or not |
| `Refuse`, `Import` | `process`, by whether the item reaches the repository; `Refusal` is the stage that refuses it |

A text is a member of a small set, and functions say what the code makes of
it: `Strip`, `Clean` (Unicode form and single spaces), `Upper`, `Url` (the host
in lower case, the fragment dropped), with the sets `Spaced`, `Codes`, `WebUrls`
and `Long` for what the validators and the columns ask of a text; `Blank` is the
text nothing is left of.  Quantities count 1/100000 and amounts 1/1000, one
digit finer than the columns, so that rounding shows.  Two more numbers stand
for what the decimal context of Python cannot hold: `Tiny` (`1E-1000027`), which
`normalize()` and `quantize()` make zero, and `Huge`, which they refuse.
`QuantityLimit` and `AmountLimit` are where `Numeric(14, 4)` and `Numeric(14, 2)`
end.  `Image` is the address the normalizer makes of one, which may have lost
its host (`"http:// #x"` becomes `"http:// "`); `ProductImage` strips it once
more (`Address`).  So `Normalized` is what normalization returns and `Snapshot`
the aggregate built from it.  Category and subcategory
are one field, as they are protected together.  The fingerprint *is* the
snapshot it hashes.  An aggregate protected before its first upsert
(`Protections`) is what `tests/integration/catalog/test_product_repository.py:134`
does; the pipeline itself protects nothing.

`ProductRegister` is the abstract register: identity and protected values of
the first import, snapshot of the last, a report that tells new from known.
`ProductPipeline!ImplementsRegister` is the refinement.

### `Users` - the user use cases

Any number of calls over the table `users`.  An action ends at an `await`.

| State | Code |
| --- | --- |
| `users`, `clock` | the table; the creation time, which several creations may share |
| `pc[c]`, `operation[c]`, `target[c]`, `draft[c]` | where the call waits, which use case it is, of which user, and the `User` in its memory |
| `loaded[c]` | the row as the session of `update` read it |
| `listing[c]` | a client that lists page after page: offset, users seen, users there at the start |
| `answer[c]` | what the call returned or raised |
| `alone[c]`, `expected[i]` | history: no other update of the user overlapped the call; the answer of the last update, if so |

| Action | Code |
| --- | --- |
| `Create`, `CreateRefused` | `CreateUserUseCase` up to the insert |
| `Insert`, `InsertRefused`, `InsertRaises` | `save`: commit, unique violation, another error with or without a commit |
| `Rename`, `Deactivate`, `UpdateRefused` | `get_by_id` and the method of the aggregate |
| `Reload`, `Commit`, `CommitRaises` | `update`: the second read, then an `UPDATE` of the columns that differ from it |
| `ListPage`, `ReadRaises` | `ListUsersUseCase`; a read that raises |

An update reads its user in one session and writes it in another, from an
aggregate that may be stale.  `UpdatedRow` is what SQLAlchemy writes then: a
rename that read the user before a deactivation and reloads it after sees
`is_active` differ and writes the old value back, so the user is active again.
`AnswerIsTheRow` is therefore claimed for calls no other update of the user
overlapped, and says nothing of that hazard; what comes of it, the violated
`DeactivatedOnce` shows.  Left out: `updated_at`, `GetUserUseCase` (a read that changes
nothing), the bounds check of `limit` and `offset`, and clocks that go back.

### `CatalogImport` - the synchronization over its real source and products

What `bootstrap.py` wires: `StartCatalogSyncUseCase` over `ProductApiClient` and
the product pipeline.  `CatalogSync` leaves open which pages arrive and what an
item changes; here `Sync` and `Client` are instances of `CatalogSync` and
`ProductPages`, and every action is a joint step:

| Action | Code |
| --- | --- |
| `Acquire` | the slot is taken and `iter_pages` is called: a new iterator |
| `Fetch` | the run waits for its iterator: a `ClientStep`; if it yields, the page is received, and if it ends, the loop ends or raises, as `result` says |
| `ProcessItem`, `FailItem` | the next item of the page is upserted, and `ChangeOf` its row is what is counted; or it fails, perhaps after its commit |
| `LeaveLoop` | the save of a page raises and the iterator is dropped |
| `Alone` | the steps of `execute` that concern its repository alone |
| `Crash`, `Publish` | the process dies; the server gains an item |

One set of client variables serves all runs, because no two of them work at
once (`CatalogSync!SingleActiveRun`, which is proved).  A product is three
values here, `absent`, `stale` or `current`: what `ProductPipeline` says of a
row, as far as a reported change tells.  `before` is history.

### `Service` - readiness checks and shutdown

The process of the API: any number of `GET /ready` at once over one connection
pool, and what follows the `yield` of the lifespan in `main.py`: three closes
in a row, in no `try`, so that the first that raises is the last.

| State | Code |
| --- | --- |
| `health`, `present`, `changes` | environment: what each facility answers, whether the extension and the bucket exist |
| `stage`, `open`, `broken` | the lifespan: serving, the resource being closed, what is open, the close that raised |
| `free` | connections in the engine's pool |
| `probe[c][f]`, `answer[c]` | the three gathered probes of a check; the status of its response |
| `met[c]`, `unmet[c]` | history: what was there, and what was missing, at some moment of the check |

| Action | Code |
| --- | --- |
| `Begin`, `Reply` | `check` gathers its probes; the report and its status |
| `Connect`, `ConnectTimesOut`, `Select`, `SelectVector` | `_database`: a connection from the pool or none in time, `SELECT 1`, the query for the extension |
| `Ask`, `ProbeFails` | Redis and MinIO; any probe that raises, which gives its connection back |
| `StopServing`, `Close`, `CloseRaises` | the three closes of the shutdown, in their order; the first that raises ends it |
| `FacilityChanges`, `ContentChanges` | the environment |

### Runs

| Run | Instance | What it shows |
| --- | --- | --- |
| `sync_ledger` | 1 execution, 3 pages of 0 to 2 items, all faults, fair | stored rows balance, evidence lags at most a page behind the products, and never goes back; its call is answered |
| `sync_slot` | 3 calls, 1 page of 0 or 1 item, all faults | types, mutual exclusion, answers agree with rows, only closed executions are reprocessed, `SyncSlot` is implemented |
| `sync_poison` | 1 call, poisoned records only | **violated**: one failed item aborts the batch |
| `pages` | 5 modes, with and without inference; honest servers with 0 to 7 items, with a cap of 1 or none, and growing ones; arbitrary servers, with over-full pages, malformed links and a `Retry-After` of NaN; single reads; pages of 2, 3 pages, 3 attempts, fair | no query twice, the retry budget and its waits, which catalogs are accepted, nothing skipped, the feed, the end |
| `pages_capped` | a server with pages of 1 | **violated**: a read that ends well has read every page |
| `pipeline` | 3 imports, 2 products, payloads that vary each field, protected fields, failing transactions | the validators disagree on two things only, a row is what the source sent and fits its columns, `ProductRegister` is implemented |
| `pipeline_readable` | two imports, one with a tiny quantity | **violated**: a stored product cannot be read back |
| `import` | 2 runs over 4 servers and a table with an older row; source, database and process fail; fair | every item handed out is counted, the evidence matches the table, a completed import is whole, a slot is given back |
| `service` | 2 checks, a pool of 1, one facility not up, one change, then the shutdown; fair | reports are witnessed, connections come back, what a shutdown leaves open, every check is answered |
| `service_silent` | 1 check, a silent Redis; fair | **violated**: a failing Redis is answered 503 |
| `users` | 3 calls of any use case, 0 or 2 users at first, failing database | one user per mailbox, answers that agree with the table, complete listings |
| `users_twice` | 3 calls, renames and deactivations of 1 user | **violated**: two deactivations succeed |

**Bounds.**  *Synchronization*: counters are per execution and executions share
only the slot, so the ledger needs one execution with more than two pages
(first, middle, last) of 0, 1 and more than one item; the slot needs three
calls: one that holds it, one that is refused, one that reprocesses.  No call waits
for another (a taken slot is refused, not awaited), so that whether a call is
answered is a question about one call, asked where its pages are most.  `MaxPages` is
the client's own limit, so the pagination of the model ends for the reason the
code gives.  *Pages*: catalogs of 0 to 7 items over pages of 2 are empty, short
of a page, exactly full, exactly the limit of 3 pages, and one beyond; a cap of
1 is below the limit; two items gained are a whole page of them; an arbitrary
server sends up to one item more than the limit, and its tokens are two that
let it cycle with and without its first page, one that is a link to another
origin and one that is a malformed link; a `Retry-After` of 0 and of 9 is below
and above every delay, and `NotANumber` is the NaN `float` parses.  *Pipeline*: three imports of one
product are a creation, a change and a repetition, in every order; the payloads
vary one field at a time from a base, since each stage handles its field alone,
except the options, where all marks of up to three are tried; the numbers lie
on both sides of zero, of the columns' limits (scaled down to 2 and 2) and of
the decimal context.  *Import*: one
run that fails and one that repeats it; the four servers are one page of two
items, two pages, a catalog that gains an item so that one is sent twice, and
an arbitrary server; one attempt per GET, as `ProductPages` alone checks the
retries, and one token, a malformed link.  *Service*: two checks compete for one connection; `MaxTroubles` and
`MaxChanges` bound the environment, which changes only while a check runs: a
change before it is a state it may begin in.  *Users*: three calls are two that
race and one that lists, or three that race; two users and pages of one let a
row move across the offset a listing reached.

**Fairness.**  `CatalogSync` and `CatalogImport`: `WF_vars(Step(r))` for each
call that has started: the event loop resumes a task whose await was answered,
and every await of `execute` is answered, since the HTTP client has a timeout
and the database answers or raises.  Nothing is assumed about starting calls,
about crashes or about the server gaining items.  `EverySlotReleased` excepts
runs that died or ended in a bare error: nothing in the code takes an abandoned
slot back, and `SyncSlot` says so (`abandoned` has no way out).  `ProductPages`:
`WF_vars(ClientStep)`: each GET is answered or times out, and the consumer,
which is `execute`, asks on or drops the iterator.  `Service`: `WF_vars(Reply(c))`,
and `WF_vars(ProbeStep(c, f))`, whose guard excepts a facility that is silent:
the probes have no timeout of their own, so `EveryCheckAnswers` supposes that no
facility stays silent for ever.  That supposition is the hazard itself: the
property says that nothing else keeps a check waiting, and the violated
`SilentRedisIsAnswered` drops it for Redis.  The other modules assume none.

### What the violated runs show

- `sync_poison`: `catalog_sync_errors.item_reference` holds 250 characters and
  the reference is copied from the payload at any length.  One failed item that
  does not fit makes every later save of its execution raise: the batch is
  lost and the slot stays taken.
- `pages_capped`: a server that sends fewer items than the limit asked for makes
  the offset skip items, and inference stop early; the read ends as a success.
- `pipeline_readable`: a quantity below 0.00005 passes every validator and is
  stored as 0.0000, which the aggregate refuses: later imports of the product
  fail for good.
- `users_twice`: two overlapping deactivations, or a deactivation that a stale
  rename undid, and both callers are told that they deactivated the user.
- `service_silent`: nothing ends the wait for a Redis that keeps the connection
  and does not answer `PING`.

The models contain further ways in which the code is not what its documents
say, which the passing runs go through without a run of their own:

- `float` parses a `Retry-After` of `nan`, `min(nan, limit)` is nan, and uvloop
  refuses to sleep for it with a `ValueError` that nothing catches: no retry, and
  none of the documented errors (`Retry`).  The loop of asyncio takes it, and
  its timer has no defined place among the others.  `BoundedPatience` excepts
  it by name.
- A 5xx outside `RETRYABLE_STATUS_CODES` ends the iteration at once as a response
  error (`GetRejected`), where `docs/integrations/external-api.md:110` promises
  unavailability.
- Normalization accepts two items that a constructor of the catalog refuses:
  the quantity `1E-1000027`, above zero where the normalizer looks and zero after
  `normalize()`, and the image `"http:// #x"`, whose host is a space
  (`Refusal`).  `ConstructorsAgree` says that there is no third reason.

## 3. What is proved

For every value of the constants that meets the module's named assumptions, and
from nothing else: types and signs of the constants, values such as `None` that
are no data, and of the system

- `Users!ConfigAssumption`: the tables to begin with are finite and have no
  mailbox twice;
- `ProductPages!ConfigAssumption`: the links of an honest server stay in its
  origin (those of an arbitrary one need not);
- `ProductPipeline!ConfigAssumption`: what the text functions keep
  (stripping, cleaning and upper case twice change nothing, white space around
  an address does not decide whether it is one, and so on); nothing is assumed of
  what dropping the fragment makes of an address;
- `Service!ServiceAssumption`: finitely many checks;
- `CatalogImport!ImportAssumption`: those of its two components, the reader is
  `iter_pages`, and `Items` is finite with room for all a server sends.

TLC evaluates each of them in the runs below.  Pages of `CatalogImport` may have
any size, so that its `Sync` is the instance with `PageSizes <- Nat`.

`CatalogSyncProofs`:

- `TypeCorrect`: `Spec => []TypeOK`.  `TypeOK` is not inductive, as `left` is
  counted down; `ItemsLeft` (an execution that waits for an item has one) makes
  it so.
- `MutualExclusion`: `Spec => []SingleActiveRun`.  The invariant `SlotInv` says
  that one row holds the slot (`SlotUnique`), that whoever works holds it
  (`WorkingHolds`), and that an aggregate stored before it is closed is
  running (`OpenIsRunning`): without the last, the save of a page could give
  the slot back too early.  `SlotInvKeepsRow` and `SlotInvWritesRow` reduce the
  actions to the two things they can do to a row.

`CatalogSyncEvidence`:

- `LedgerBalances` (`StoredCountsBalance`), `OnePageOfEvidence`
  (`EvidenceLagsOnePage`), `AnswersAreStored` (`AnswerMatchesStore`) and
  `EvidenceIsKept` (`EvidenceOnlyGrows`).  All follow from one invariant of a
  single run, `Sound`, in four parts: `Ledger` (what was received is processed,
  failed or left, and the row is the present state of the execution or an
  earlier one, `Precedes`), `Progress` (what each await says of the row and the
  status), `Answer`, and `Evidence` (the products written are counted, and all
  but those of one page are in the row).  `Sound` is a predicate of the values
  of one run, so that the lemmas `SoundReceived`, `SoundItem`, `SoundStored`,
  `SoundAborted`, `SoundClosed` and `SoundEnded` speak of no steps at all;
  `LocalStep` maps each action to one of them, and `StepsApart` says that a step
  of one run touches nothing of another.
- `ReprocessesTheClosed` (`ReprocessedIsClosed`).  It relates two runs:
  `Linked` says that who reprocesses an execution found its row, and that this
  execution does not hold the slot once the other has a row.  It is inductive
  because a row that gave the slot back never takes it again (`RowsLast`).

`CatalogSyncRefinement`:

- `SlotImplemented`: `Spec => ImplementsSlot`, the step simulation of
  `SyncSlot`.  `Moves` says what a step does to the phase of its run, by
  `StepMoves`; `SlotNext` turns each move into a step of the slot.

`ProductPagesProofs`, for any configurations, limits, delays, status codes and
any server:

- `PagesTypeCorrect`, `BudgetIsKept` (`RetryBudget`) and `PatienceIsBounded`
  (`BoundedPatience`; and a wait that is NaN was the server's), from one
  inductive invariant, `IInv`: `DataTyped` and `Counted`, which adds what the
  loops know at each await (the budget is not spent while a GET is out, the
  identities seen are finite and as many as the rounds).
- `QueriesDiffer` (`NoQueryRepeated`).  The client compares identities of four
  parts and sends one of them.  `Shaped` says how the others follow from it in
  each mode (page and offset move together, a cursor or a link comes with
  neither), so that `Query` tells the identities seen apart, and there are as
  many queries as rounds.  Mode `none` is excepted: there the page number
  advances and is not sent, and an inferring client asks for the same URL up to
  `MaxPages` times, under new identities.
- `NoItemSkipped` (`NothingSkipped`).  `SkipInv`: the catalog keeps every
  item it began with (`CatalogHolds`), and those before the next page were
  handed out (`PassedIsHanded`).  The lemmas about `Publish` say that
  an insertion only moves an original item away from the pages already read;
  those about a page (`Stop`, `More`, `Stride`) that the next request starts no
  later than the page stopped, where client and server agree.
- `FeedImplemented` (`ImplementsFeed`), the step simulation of `PageFeed`.
  `FeedInv`: what was handed out is the catalog up to the start of the next
  page, or up to `Stop` at a `yield`; a page hands out a longer piece, every
  other step none or the end.
- `HonestAccepted` (`HonestServerAccepted`).  `AcceptInv` adds to the counts
  where the loop stands: each page read moved the start on by a page
  (`Placed`), the client asks on only for a reason (`AskedOn`), and the
  identities seen have smaller keys than the next (`NoCycle`), so that a cycle
  is found only where a page has no name.  From `Placed`, a catalog longer
  than `MaxPages` pages is one the client does reach the limit on, and
  conversely.

`ServiceProofs`, for any number of checks and any pool:

- `ServiceTypeCorrect`, `ReportsAreWitnessed` (`ReportIsWitnessed`),
  `PoolIsWhole` (`ConnectionsReturned`) and `ShutdownIsOrdered` (`LeftOpen`).
  The invariant says for each check that its probes begin and end together
  (`Gathered`) and that each was shown what it got so far (`Shown`): a probe
  that holds a connection is one that met the database and the pool.
  `ConnectionsReturned` needs the checks to be finitely many.

`UsersProofs`, all on top of one inductive invariant, `UsersInv`:

- `UsersTypeCorrect`, `UniqueMailbox` (`OneUserPerMailbox`) and
  `AnsweredStored` (`AnsweredIsStored`).  The invariant adds what a call knows
  between its awaits (`CallKnows`): an id about to be inserted is not stored,
  a user about to be updated is, with the e-mail the stale aggregate has, so
  that the `UPDATE` cannot touch the e-mail; and two inserts have ids of their
  own (`InsertsApart`).  `InvKeepsTable` and `InvWritesRow` cover the steps
  that leave the table alone and those that write one row.
- `AnsweredIsTheRow` (`AnswerIsTheRow`).  `RowKnown`: two calls in the middle of
  updates of the same user are neither of them alone (`Overlapping`), and one
  that is alone has, between its two sessions, the row itself in its memory
  (`LoadedIsTheRow`).  Without that, the columns that do not differ could
  keep another call's values.
- `NoUserUnlisted` (`ListMissesNone`).  `ListInv`: the table is finite, and a
  lister has returned every row it began with whose rank, the number of rows
  before it, is below its offset (`ListerKnows`).  The order of the rows is
  total (`creation time, id`), ranks leave no gap, and a row never gets a
  smaller rank (`Grows`), so that a page shorter than asked for is the last.

`ProductPipelineProofs`, for any texts and functions on them that meet
`ConfigAssumption`:

- `AcceptedUnless`: an item the mapper and the normalizer let through meets the
  checks of the constructors exactly if none of its quantities became zero
  (`KeepsQuantities`) and its image has kept its host (`KeepsAddress`).  Its
  core, `OneDefault`, is that exactly one option is the default however many
  were marked, by the least marked index.  `ConstructorsRefuseTwoThings`
  (`ConstructorsAgree`) is the invariant that follows.
- `PipelineTypeCorrect` (`TypeOK`): what is stored has the decimals of its
  columns and fits them.
- `RowFollowsSource` (`RowIsTheSource`): in every field that is not protected,
  a row is what its fingerprint says the source sent.  `Agrees` is inductive
  with the types, because normalized amounts are whole cents (`InCents`), so
  that storing them again changes nothing.
- `RegisterImplemented` (`ImplementsRegister`), the step simulation of
  `ProductRegister`: an import that reaches the repository is an import of the
  register, or a failed one that took effect or did not; a refused item is a
  failed import of no product.  It needs only the types of the rows, and that a
  repeated fingerprint leaves the entry as it is.

`CatalogImportProofs`, for any runs, faults, servers, page sizes and tables:

- `ItemsAreCounted` (`EveryItemCounted`), `EvidenceIsTrue`
  (`EvidenceMatchesTable`) and `CompletedImports` (`CompletedIsWhole`), from one
  invariant, `JointInv`.  Three parts of it are those of the components:
  `SyncInv` and `ClientInv` come from instances of `CatalogSyncEvidence` and
  `ProductPagesProofs`, and a joint step keeps them because it is a step of each
  component or leaves it alone; `TableInv` says that rows only become current.
  What is new relates the two (`RunInv`): the run counted what the iterator
  yielded, and waits where the iterator rests (`Reading`); created and updated
  rows are counted, or failed after their commit (`Tallied`); an item that was
  handled is current or failed (`Missed`); and hence an import about to
  complete has brought the whole catalog (`Whole`), by `SkipInv` of its
  iterator.  `Fresh` says that a run that did not yet acquire the slot counted
  nothing.  The proof rests on the slot: whoever works is alone
  (`SingleActiveRun`), so the client and the table are its own.

With this, every invariant, action property and refinement that a passing run
checks is a theorem.  Only model-checked are the four liveness properties,
which are out of the prover's reach: `EveryCallAnswers`, `IterationEnds`,
`EverySlotReleased` and `EveryCheckAnswers`; and the violations, which are
counterexamples.

## 4. Not modelled

- The in-memory execution repository: tests use it, and it grants the slot by
  the same test as the unique column, without failures.
- The category aggregate: it has no repository and no caller.
- The HTTP routes of users, the error table, the correlation middleware and the
  logging: they hold no state that another step reads.
- Database session and migrations: configuration of SQLAlchemy and Alembic; a
  transaction is one atomic step of the modules that use it.
- The import checker: a build-time script.
- `protect`, `unprotect`, `activate`, `deactivate` of a stored product: nothing
  in the program stores the aggregate afterwards.
- The validators of the settings: per-field checks of strings; the settings of
  the external catalog are the constants of `ProductPages`.

`PROJECT.json` gives the reason for each component.

## 5. Plan

Done: `CatalogSync` and `SyncSlot`; `ProductPages` and `PageFeed`; `Users`;
`ProductPipeline` and `ProductRegister`; `CatalogImport`; `Service`; the proofs
above.  What could come next:

1. An abstract import, a catalog and a table that agree in the end but for the
   failed items, with `CatalogImport` shown to implement it from `JointInv`.
2. The use cases that will store a product protected or deactivated by hand,
   once the program has them: `apply_external_snapshot` already keeps their
   fields, and two sessions would then race for one row as in `Users`.
