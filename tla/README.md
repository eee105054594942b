# TLA+ models of the PACT directory service

This directory models the PACT Network directory: the registry of *nodes* that
organizations run, the *connections* between nodes with their credentials, the
exchange of product carbon footprints (PCFs) over those connections, and the
user accounts that act on all of it (the API server, `apps/api`); the client
with which a node calls another node (`packages/pact-api-client`); and the paged
lists of the portal (`apps/directory-portal`). Paths below are relative to
`src/apps/api/src/` unless they start with `packages/`, `apps/` or `docs/`.

## 1. The system

### Components

| component | state | operations that change it | modelled in |
|---|---|---|---|
| nodes (`services/node-service.ts`) | `nodes` | create, update, delete | `NodeConnections` (update changes nothing a property depends on) |
| connections (`services/node-connection-service.ts`) | `connections`: from, target, credentials, status | createInvitation, acceptInvitation, rejectInvitation, removeConnection, rotateCredentials | `NodeConnections`, abstractly `ConnectionLifecycle` |
| tokens of internal nodes (`services/internal-node-auth-service.ts`) | none; signed JWTs in circulation for an hour | generateToken | `NodeConnections` |
| PCF requests (`services/pcf-request-service.ts`) | `pcf_requests` | create, fulfill, reject | `PcfExchange`, abstractly `PcfLifecycle` |
| events of internal nodes (`services/internal-node-pact-service.ts`) | writes `pcf_requests`, `product_footprints` | handleEvent | `PcfExchange` |
| footprint query (the same file, `getFootprints`) | none; reads in two statements | – | `FootprintQuery`, `FootprintPages` |
| footprint records (`services/footprint-service.ts`) | `product_footprints` | create, import, delete | `PcfExchange`, `FootprintPages` |
| API client (`packages/pact-api-client`) | a token cache and an endpoint per instance | authenticate, listFootprints, getFootprint, sendEvent | `ApiClient`; as the caller in `PcfExchange` and `FootprintPages` |
| accounts (`services/user-service.ts`, `middleware/authentication.ts`) | `users`, `password_tokens`; JWTs for six hours | signup, verifyEmail, resendEmailVerification, addUserToOrganization, setPasswordWithToken, forgotPassword, resetPassword, login | `Accounts` |
| members (`services/organization-service.ts`) | `users` | updateMember; listMembers reads | `Accounts`; `PortalTable` |
| listings (`common/list-query.ts`, `services/test-run-service.ts`) | none | – | the paging, in `PortalTable` |
| policies (`common/policies.ts`) | a table filled at start-up | none later | `NodeConnections` |
| portal (`apps/directory-portal`) | component state in the browser | paging, searching, selecting, bulk actions | the paged table, in `PortalTable` |

Not modelled: the activity log, the proxied calls of the conformance tests,
e-mail and feedback, the older organization connections, the generated data
model, and the other pages of the portal. Section 5 says why.

### How the parts interact

The server is a single Node.js process (possibly several) over one PostgreSQL
database and keeps nothing between requests. A handler is a sequence of awaited
SQL statements and HTTP calls; between any two of them any other handler may
run. Apart from sign-up and `setPasswordWithToken` nothing uses a transaction,
and no statement locks rows for a later one. What a handler has read may
therefore be stale when it writes, and the constraints of the database (unique
indexes, foreign keys, cascades) are the only synchronization there is.

A PCF request between two internal nodes makes the server call itself: `create`
posts a RequestCreated event to the events endpoint of the target, `fulfill`
posts RequestFulfilled to that of the requester and waits for it. Two handlers
then work on *one* row of `pcf_requests`, keyed by the id of the event, and
`fulfill` writes the footprints a second time, directly, because the callback is
refused where no connection leads back. With an external partner the other
handler is somebody else's.

A data recipient reads a node's footprints page by page, each page a request of
its own that the server serves with a count and a select. The client object it
uses keeps one access token for all its calls. The portal, in turn, keeps the
last page it was given and does not cancel a load when it starts the next.

### What is hard

* two handlers that both pass a check and both write (accept and reject,
  fulfil and reject, two uses of a set-up token, two disabled administrators);
* rows that cascade away under a handler about to UPDATE or INSERT them;
* the two writers of the shared request row, in either order, with an answer in
  between; answers delivered twice, or before the row they answer;
* effects committed before a step that can still fail (the lookup after an
  accept, the INSERT after an event was sent, footprints stored one by one);
* stateless tokens that outlive what they were issued for;
* a list read by offsets while rows come and go, and a count that belongs to
  another state than the rows beside it;
* a token whose lifetime the two sides count from different moments, shared by
  overlapping calls that overwrite it;
* answers that reach a table in another order than they were asked for.

`PROJECT.json` lists each hazard at its line, with the property that watches it
or the reason why none does.

## 2. Modules

| module | what it is |
|---|---|
| `ConnectionLifecycle` | abstract specification: what the connection subsystem promises, one link at a time |
| `NodeConnections` | nodes, connections, credentials, tokens: every handler, step by step |
| `ConnectionsInSequence` | the same with a history of overlapping requests, and what holds where there are none |
| `NodeConnectionsProofs`, `NodeConnectionsRefinement` | its inductive invariant and safety theorems; it implements `ConnectionLifecycle`, strictly as long as requests do not overlap |
| `PcfLifecycle` | abstract specification: the life of one request and what is delivered for it |
| `PcfExchange` | requests, events, callbacks and footprint records |
| `ExchangeInSequence` | the exchange between nodes of this directory with a history of overlapping decisions |
| `PcfExchangeProofs`, `PcfExchangeRefinement` | its inductive invariant and safety theorems; it implements `PcfLifecycle`, strictly as long as decisions do not overlap |
| `Accounts`, `AccountsProofs` | users, tokens, sessions, membership |
| `FootprintQuery` | the filters and the page links, as pure operators |
| `FootprintPages`, `FootprintPagesProofs` | a walk through the pages while the records change |
| `ApiClient`, `ApiClientProofs` | the client's token cache against a clock |
| `PortalTable`, `PortalTableProofs` | the portal's paged table and the listings that serve it |
| `MCNodeConnections`, `MCPcfExchange`, `MCPcfSequence`, `MCAccounts`, `MCFootprintPages`, `MCApiClient`, `MCPortalTable` | instances for TLC |

### Common conventions

*Handlers are processes.* `req[h]` (and in `PcfExchange` also `job[h]`) is a
handler in flight: the step it is at and what it remembers of the rows it read.
One step is one SQL statement or HTTP call together with the decisions taken on
its answer. Consecutive reads are merged where no later step depends on their
being apart: the owner and type of a node never change, node ids are never used
again, and a node deleted meanwhile is caught by a foreign key at the write.
A handler refused by a check is one that never starts: nothing has been written.
`Abandon` ends a handler anywhere: the process dies, the pool or a mail fails, an
exception is thrown. Its earlier writes stay.

`NodeService.delete`, the footprint handlers `create`, `import` and `delete`, and `forgotPassword`
read, check and write; nothing the others do between the read and the write changes what
the write does, so each is one action.

*Constraints are guards.* `PairFree` is the unique index on a pair of nodes,
`ForeignKeysHold` and `OutboxKeysHold` the foreign keys, `Cascade` and
`CascadeAll` the ON DELETE CASCADE; an INSERT they refuse is an action of its
own that writes nothing (`CreateInsertFails`) or a branch that does not.

*History variables* record what the tables no longer show and are never read by
an action's guard, save where they stand for the uniqueness of ids drawn by the
database or at random (`ledger`, `minted`, `asked`, `token`), and where they
keep an external partner to one story (`asked`, `verdict`).

*In sequence.* Several things the code or its tests promise (a request is
answered once, a set-up token works once, the last enabled user stays) hold only
as long as no two requests overlap, because a check and its write are statements
apart. A history variable `overlap` remembers whether any did; a property whose
name ends in `InSequence` speaks of the states, or steps, where none has. Crashes,
lost calls, expiries and everything else that is not another request may still
happen. `overlap` is part of `Accounts` and `ApiClient`, and is added
to `NodeConnections` by `ConnectionsInSequence` and to `PcfExchange` by
`ExchangeInSequence`, which take the same steps (`SequenceIsSpec`,
`ExchangeSequenceIsSpec`).

*Faulty variants.* An operator marked so is a plausible bug in the operator
defined below it (a missing index, a dropped guard, an upsert that overwrites).
No specification uses it. Put in the place of the right one it makes a property
fail, which shows that the property can see that bug: `PROJECT.json` pairs each
property with one.

### `NodeConnections` and the code

| model | code |
|---|---|
| `node` | `nodes`: an id the serial has not reached, a row, or a deleted row |
| `rows` | `connections` |
| `ledger`, `minted`, `consent` | history: the pair an id was inserted for, the connection credentials were generated for, the users whose accept reached the row |
| `tokens` | JWTs from `generateToken` not yet expired |
| `CreateBegin`, `CreateCheck`, `CreateCleanup`, `CreateInsert` / `CreateInsertFails`, `CreateEmail` | `createInvitation`: the lookups, the SELECT, the DELETE of rejected rows, the INSERT, the mail |
| `AcceptBegin`, `AcceptUpdate`, `DecideReply` | `acceptInvitation`: the read with the checks, the UPDATE by id, the late lookup |
| `RejectBegin`, `RejectUpdate`, `DecideReply` | `rejectInvitation` |
| `RemoveBegin`, `RemoveDelete`; `RotateBegin`, `RotateUpdate` | `removeConnection`; `rotateCredentials` |
| `CreateNode`, `DeleteNode` | `NodeService.create`, `delete` |
| `IssueToken`, `ExpireToken` | `generateToken` with `verifyConnectionCredentials`; the hour passing |

`expiresAt` of a connection is written but nothing reads it: it is not
modelled. The client id and secret are one value `cred`; outside development
both are compared.

### `PcfExchange` and the code

| model | code |
|---|---|
| `requests` | `pcf_requests` by event id; `source` says whether the callback address is a node of the directory, elsewhere, or absent (an outgoing row) |
| `records` | `product_footprints`, the ids held by each node |
| `link` | a connection while it is accepted: what `NodeConnections` does, reduced to `Connect` and `Disconnect` |
| `CreateBegin`, `CreateAuth`, `CreatePost` / `CreatePostFails`, `CreateInsert` | `create`: the read, the token of the client, the event (for an internal target, with the INSERT of its event handler), the INSERT ... ON CONFLICT |
| `FulfillBegin`, `RejectBegin`, `Callback`, `Await`, `Update`, `Check`, `Store` / `StoreFails` | `fulfill` and `reject` |
| `JobUpdate`, `JobStore`, `JobFails` | `handleEvent` for RequestFulfilled and RequestRejected |
| `Import`, `DeleteFootprint` | `FootprintService` |
| `ExternalAsk`, `ExternalAnswer` | an external partner, modelled from what the server sends it and accepts from it; it may repeat itself |
| `Aliases`, `SourceNodes` | the numbers another directory gives to nodes of its own: `handleEvent` takes the number from any source that reads `.../api/nodes/N` and does not look at the host, so the request of such a partner may be recorded as one of the local node N |

Left out: filters, payloads beyond the id, which user may use which dashboard
(the same checks as in `NodeConnections`).

### `Accounts` and the code

`user` is the `users` table by address, `token` all random tokens (verification
tokens, although stored in the user's row, and `password_tokens`), `session` the
roles in JWTs still valid. A password is told by its origin: the form, the
placeholder, or the token it was set with. `proven` remembers who presented a
mailed token, `uses` how often a token set a password, `overlap` whether two
requests were ever in flight together.

`Bodies` are the roles and statuses a request may ask for. `updateMember` checks the
statuses `enabled` and `disabled` and the roles `user` and `root`, and writes whatever
else the body holds, `unverified` and `deleted` included; `addUserToOrganization` checks
neither the role it is given. In the model they do the same. (A user of role root
comes to be by either of them; the one the database is seeded with is not modelled.)

### `FootprintQuery`, `FootprintPages` and the code

| model | code |
|---|---|
| `Matches`, `ValidOn`, `ValidAfter`, `ValidBefore`, `ValidFrom`, `ValidTo` | `applyFilters`: the conditions on the JSON of a footprint, with SQL's null and the derived period of three years |
| `Limit`, `Links`, `Rels`, `Target`, `LastOffset` | `limit \|\| 10` and `buildPaginationLinks` |
| `table` | the rows of `product_footprints` of one node: when each was stamped, and its content |
| `walk` | the recipient: what it asked for, the request on its way, the links of the last answer |
| `Ask`, `Follow`, `Repeat`, `Leave` | a first request; the link of an answer as it stands; the same query with the offset moved on; giving up |
| `CountRows`, `SelectPage`, `AskAgain` | the two statements of `getFootprints`; a request or answer lost |
| `Insert`, `Rewrite`, `Delete` | an import (rows of one INSERT), an upsert of an id already there, a deletion |

The order of rows with the same stamp is chosen anew by each statement
(`TieBreaks`), as SQL leaves it open: the rows of one import share a millisecond
easily. The properties about walks are therefore stated for rows with different
stamps (`Untied`). A stamp is taken before the INSERT runs, so an inserted row may
stand anywhere in the order.

### `ApiClient` and the code

`cache` is `tokenCache`, `endpoint` is `tokenEndpoint` (not yet known, published by
the partner, or the fallback), `call` the calls in flight. `Begin` is the test of
`ensureAuthenticated`; `Discover`, `Grant` and `Receive` are
`authenticate`, with the answer of the partner's token endpoint issued at one moment and
received at a later one; `Adopt` is the read of `tokenCache!` after the await; `Finish` and
`Fail` the outcomes of the call itself, neither of which touches the cache. `now` is a
clock; `Tick` lets time pass only while a message on its way has time left.
The partner (`Grant`, `Rekey`) is external.

### `PortalTable` and the code

`box`, `applied` and `timer` are the search box and its debounced value; `load` are
the calls of `loadData` under way, with the answer once the service has listed;
`data`, `paging`, `loading` and `error` what is on the screen; `selected` and
`bulk` the selection and the bulk action of `OrganizationUsers`; `enabled` the
members' status on the server. `Counted` and `Uncounted` are the two kinds of page information:
`ListQuery.pagination` computes the number of pages, `listTestRuns` says -1. `Debounce`
(an effect that runs when its value changes), `Search` (Enter), `Forward`,
`Previous` and `BulkEnd` start loads; `Arrive` and `Fail` come in any order.
`Forward` and `Previous` load for `applied`, as the code does, also when the screen shows
the answer to a search entered ahead of the half second. `Updated`, `Refused` and
`Unheard` are the outcomes of one call of a bulk action: done, not done, and done
with the reply lost, which the portal takes for a refusal. `Deleted` are the rows
that cannot be selected.

`Orders` are the orders the listing may come in: by `Name`, and at random where names tie,
chosen anew for every page.

Four histories say when nothing can be expected of the screen: `outrun`, the answer that
arrived last is not that of the newest load; `entered`, the newest load is one
by Enter for a search that is not applied; `unheard`, the reply to a change was lost
since the newest load began (`newest`). `shownFor` is the search whose answer is shown.

## 3. What the runs check

| run | question | result |
|---|---|---|
| `connections` | two requests in flight: is the table consistent, do tokens go back to consent, does a deleted row stay deleted, is the lifecycle implemented? In sequence: do the checks of `createInvitation` suffice, are decisions final? | holds |
| `accept_answers` | does a committed accept answer? | **violated**: the late lookup is forbidden across organizations |
| `exchange_local` | a request between local nodes, two handlers: is the life of a request implemented, do the footprints arrive? In sequence: is it answered once? | holds |
| `exchange_partner` | an external partner, answering twice or at once, whose number may be that of a local node: do rows show what was asked and answered, is the life of a request implemented, does every decision end? | holds |
| `answer_correlated` | does the answer of an external target find its row? | **violated**: the event is sent before the INSERT |
| `asker_served` | does a request serve nobody but the node that asked? | **violated**: a partner of another directory is taken for the local node of the same number |
| `accounts` | is nobody let in unproven, whatever status an update asks for? In sequence: which updates alone take the last enabled user away, does a set-up token work once, do the disabled stay so? | holds |
| `footprint_pages` | does a walk lose rows when others are inserted; is a quiet walk exact; does the last link lead to the end; do the date filters split the records? | holds |
| `filter_kept` | does following the links keep the filter? | **violated**: links carry limit and offset only |
| `api_client` | does every token reach the partner in time; how long are withdrawn tokens used; is the cache filled with a young token; in sequence: is discovery made once? | holds |
| `portal_table` | is a selection always on the screen; does the table show what a bulk action did; does the strip lead on while names follow, and to no empty page; does the search catch up? | holds |
| `pages_reachable` | can the rows of every listing be reached? | **violated**: without a page count there is no strip |

Each violated run states what a comment, a document or a test of the
repository says; `findings` quotes it.

The properties, by what it would take to break them:

* `OnePerPair`, `NoDangling` — two invitations, or an invitation and a deletion,
  between check and INSERT;
* `NoRevival` — a handler that read a row before it was deleted;
* `TokenProvenance` — a token from credentials that were never accepted, were
  accepted for another pair, or belong to another connection; `InFlight` and
  `RowsBacked` are what its induction needs;
* `ImplementsLifecycle` — any step with an effect on a link that the abstract
  lifecycle does not have; `StrictLifecycleInSequence`, where only pending links
  are decided, and `InsertFindsPairFreeInSequence` — a check that lets through
  what the write must not do;
* `RowsMatchAsk` — a request row whose connection or nodes are not those that
  were asked;
* `ImplementsPcfLifecycle` — a settled request going back to pending, fulfilled
  without an offer, or footprints delivered to a node that did not ask, by any of
  the three writers. The abstract specification allows one exception (`Misdeliver`): to a local
  node whose number an external asker bears in its own directory, which the code does,
  as `asker_served` shows; `OneAnswerInSequence` — a second answer that passes the
  checks, after a crash or a lost callback of the first;
* `SourceKept` — the two writers of a shared row undoing the callback address;
* `AnswerOnRecord` — the direct write, the callback and a second answer leaving
  a count or ids no answer had;
* `OffersArrive` — footprints offered to a local requester that never reach it,
  with or without a way back for the callback, with callbacks lost or failing
  half-way. It is stated for runs in which no handler died, nor a callback that no handler
  awaits (`lost`), because nothing retries;
* `DecisionsFinish` — a decision held up by its callback, a deleted requester or
  a vanished row;
* `OnlyProvenAreLetIn` — a reset, an administrator or an update in between
  letting in an address nobody answered from. An update may set an account nobody has verified to
  `deleted`; that is a way past `unverified`, but not to a login;
* `LastOnesKeptInSequence`, `SetupTokenOnceInSequence`,
  `DisabledStaysInSequence` — a stale session, a crash between two statements or a
  token used again defeating a check. An update of the last enabled user to `deleted` or
  `unverified` meets no check and is allowed for by name;
* `InsertsOnlyRepeat` — rows inserted between two pages making the walk skip a row, or
  end early. Insertions between the count and the select of one page, and deletions, are
  excluded: either can lose a row (below);
* `QuietWalkIsExact`, `LastHoldsTheEnd` — an off-by-one in the links, with a zero
  limit or a total that is a multiple of it;
* `ValiditySplits` — a date at the boundary of a stated or derived period;
* `TokensArriveInTime` — a delayed answer, an overlapping call that fills the
  cache with an older token, or a buffer that does not cover the way back;
* `WithdrawnTokensAgeOut`, `AdoptsYoungToken`, `DiscoversOnceInSequence` — the
  cache kept too long, not overwritten, or a failed discovery not remembered;
* `SelectionIsShown` — a late answer replacing the rows under a selection;
* `ShowsTheOutcome` — some calls of a bulk action refused, others not, a reply lost
  ahead of the refresh;
* `CountedPagesReachable` — a last page that is full, or not; a tie across the end of a
  page; a page turned while the half second of another search is running;
* `SearchCatchesUp` — a search whose answer never reaches the screen.

Where promises fail. The code allows the following; the properties exclude each of them by a
precondition, or promise less, and none has a run of its own:

* Two overlapping decisions on one invitation, or on one request, both succeed: the
  UPDATE goes by id alone.
* Two overlapping uses of one set-up token both set a password.
* Two overlapping changes can disable the last two enabled users, and one change to
  `deleted` or `unverified` takes the last one away without any overlap.
* A verification under way undoes a disabling.
* Two overlapping calls of one API client both discover the token endpoint.
* A footprint inserted between the count and the select of a page can end a walk one
  row early: the links are made from the older count. A deletion moves rows to a page
  the walk has passed.
* An answer of an older load that comes last stays on the screen until the next load.
* A search entered ahead of the half second and then cleared leaves its results
  on the screen, and turning a page from there leads into the search applied
  before, where the page may be empty.
* A bulk change whose reply is lost is not shown until something loads the list anew.
* Names that tie may change places between two pages: the strip then leads to every page
  but not to every row.
* Deleting a footprint at one node deletes the copies of all nodes: the DELETE goes by the
  footprint's id alone, while the key of a record is its id together with its node.
  `DeleteFootprint` does so as well.

### Bounds

| run | bound | why it is enough to be interesting |
|---|---|---|
| `connections` | 2 nodes of 2 organizations, an administrator and a root user, 2 connection ids, 3 credentials, 2 requests | both directions of a pair, or a rejected row and its successor; a rotation; every pair of overlapping handlers, and runs in which none overlap |
| `exchange_local` | 2 internal nodes, links both ways, 1 event, 1 footprint, 2 handlers with a callback each | create and decision, two decisions, with and without the reverse link |
| `exchange_partner` | 2 internal nodes and a partner that may bear the number of one of them, 4 links, 1 event, 1 footprint edited at one node, 1 handler with a callback and the partner's own | the partner as requester and as target, under its own or another's number, repeated and early answers |
| `accounts` | a founder and a colleague, 2 tokens, 2 requests, 5 bodies (each status, a role alone, both), no two roles in one user's sessions (`OneRoleEach`) | one user's verification against another request on the same user; both members leaving, by a guarded status and by an unguarded one |
| `footprint_pages`, `filter_kept` | 3 rows of 2 kinds (period stated, period derived), 2 queries, limits 1 and none (zero, so the default of 2), 3 stamps, 2 changes during a walk, 6 days | three pages, a total that is a multiple of the limit and one that is not; an insertion before and after the offset, between count and select; every day around the borders of both periods |
| `api_client` | 2 calls, lifetime 5, buffer 2, default 4, lag 1, clock up to 9, 2 keys | the token renewed within the run, two grants answered in either order, a rekey between grant and arrival |
| `portal_table`, `pages_reachable` | 5 rows, a term that matches 2 of them, pages of 2, 2 loads under way, one during a bulk action (`OneLoadBesides`) | three pages, the last one partial; a tie across the end of the first; one full page only; two rows to select; answers in either order |

With one footprint a callback cannot fail between two of them, nor can the ids of an
answer differ from its count. Two footprints take either exchange run past what is
practical; the theorems `OffersDoArrive` and `AnswersAreOnRecord` are for any number.

`HasToken` lets a partner go on using a token after the connection
it was issued for is gone.

`Authors` (who edits footprints directly), `Bodies`, the counters `uses`, `shown` and
`searched` (they stop at 2), `Changes` and `MaxTime` are bounds of the model as
well. Symmetry is used over ids, credentials, tokens, rows, calls
and slots, which nothing tells apart, and never in the run with a liveness property.
Deadlock is not checked: ids, events, tokens and the clock run out, and a server
with no request to serve stands still.

### Fairness

Only `exchange_partner` uses `FairSpec`: weak fairness of `Proceed(h)` and
`Serve(h)`, the continuations of a handler that has been admitted. The event
loop runs every continuation whose call has returned, and each call either
returns or is lost, which is `Abandon` or `JobDies`. Nothing is assumed of users, partners or
administrators: no request need ever be made or answered.

## 4. What is proved

TLAPS checks the theorems below for every value of the constants that the named
assumptions allow: any sets of nodes, organizations, users, ids, credentials,
tokens, footprints and rows, and any number of concurrent handlers, calls and
loads.

**Connections** (`NodeConnectionsProofs`): `Invariance`: `Spec => []IInv`, and
from it `TypeCorrect`, `RequestsKnowTheirRows` (`InFlight`), `RowsAreBacked`
(`RowsBacked`), `PairsAreUnique` (`OnePerPair`), `RowsJoinLiveNodes`
(`NoDangling`), `TokensGoBackToConsent` (`TokenProvenance`) and the action property
`DeletedRowsStayDeleted` (`NoRevival`).
`TokenProvenance` is not inductive: a token is issued
from a row, so one must know that a row's credentials were generated for it and
that an accepted row has been consented to (`RowsBacked`); the consent is written
by a handler that checked its right some steps earlier, so one must know what a
handler in flight still may rely on (`InFlight`: its ids are well formed, the row
it read was for the pair it remembers, whoever is about to accept manages the
target). `InFlight` is stable because it speaks of history (`ledger`) rather than
of the row, which may be gone: this is the precise sense in which a stale read is
harmless here. `OnePerPair` and `NoDangling` need only the guards of the INSERT
and the cascade. `OnlyInsertMakesRows` reduces most steps to the INSERT.

`NodeConnectionsRefinement` proves `LifecycleImplemented`:
`Spec => ImplementsLifecycle`. `live` is mapped to the live nodes and `link[p]` to
the status of the row of `p`, well defined by `OnePerPair`. Each UPDATE of a
decision settles a link or stutters, the clean-up clears rejected links, rotation
stutters, and deleting a node retires it with its links.

The same module proves what a request that is alone may rely on. `SequenceIsSpec`
(the watched steps are the steps of `NodeConnections`) makes all of the above
available, and `AloneAndInformedHolds` adds that without overlap one request at
most is in flight and what it read is still true of the table: no row engages the
pair it is about to invite, the link it is about to decide is pending unless its
row is gone. Nodes may be deleted meanwhile, which only takes rows away. Hence
`InsertFindsPairFreeOneAtATime` (`InsertFindsPairFreeInSequence`) and
`DecisionsFinalOneAtATime` (`StrictLifecycleInSequence`).

**Exchange** (`PcfExchangeProofs`): `ExchangeInvariance`, `ExchangeTypeCorrect`,
`RowsTellWhoAsked` (`RowsMatchAsk`), `AnswersAreOnRecord` (`AnswerOnRecord`),
`SourcesAreKept` (`SourceKept`) and `OffersDoArrive` (`OffersArrive`). A handler
writes to a row it read some steps ago,
or that it never read, so the invariant again says what it may rely on in terms of
history: `OfHandler` and `OfJob` (between which nodes its event was asked, and
what has been offered in answer), `Matching` and `Answered` (what a row shows).
`Answered` is stronger than `AnswerOnRecord`: the ids listed on a row stay true
while the count of another answer is on its way. `RowStep` says once and for all
what any step can do to one row (nothing, delete, insert, link, settle); the
properties and the refinement follow from it.

`OffersArrive` speaks of the moment when all handlers are done. Its invariant is
`Delivery`: until then each footprint offered to a requester served here has
arrived, or a handler carries it that answers from a row naming that requester, or
a callback does (`HandlerCarries`, `JobCarries`). The delicate step is `Check`, where
the handler lets go of what it carries because the requester does not exist here:
then nothing is owed to it (`Owed`). A callback that is
refused takes nothing from the handler, which is why the direct write is needed. A callback that dies is made good for in the same way, unless
no handler awaits it any more.

`PcfExchangeRefinement` proves `LifeOfRequestsImplemented`:
`Spec => ImplementsPcfLifecycle`, for any `External` and `Aliases`. That a
footprint goes only to the node that asked, or to a namesake of an external asker, rests on
the invariant: the source recorded of an external request is absent or in `Aliases`. For the exchange between nodes of this directory it proves
`ExchangeSequenceIsSpec`, `AloneAndUndecidedHolds` and `AnsweredOnce`
(`OneAnswerInSequence`). A decision writes its answer up to twice, by its callback and
by its own UPDATE; `AloneAndUndecided` says that a callback awaited brings the
answer of the handler that awaits it, and that, until the last of the two writes, the row is
pending or shows that same answer. A callback whose handler died counts as a
decision of its own. Without a partner no row has a source elsewhere (`HomelyRows`).

**Accounts** (`AccountsProofs`): `AccountsInvariance`, `AccountsTypeCorrect`,
`NobodyUnprovenIsLetIn`, `SetupTokensWorkOnce`, `LastOnesAreKept` and
`DisabledUsersStay`. The invariant separates what an admitted request may rely on
whatever others do (`Fits`: rows stay, tokens keep their type, a proof once given
stands) from what only a request that is alone may rely on (`Fresh`: the user it read is
still unverified, the token unused, the count of the enabled still true). The case an
update is not counted for, a change of the last enabled user to `unverified` or
`deleted`, is named in the statement of `LastOnesAreKept`.

**Footprint pages** (`FootprintPagesProofs`): `WalkInvariance`, `WalkTypeCorrect`,
`InsertionsNeverLose` (`InsertsOnlyRepeat`), `QuietWalksAreExact` (`QuietWalkIsExact`),
`LastPageHoldsTheEnd` (`LastHoldsTheEnd`) and `ValidityAlwaysSplits`, with
`DateSplits` and `LastIsLast` about the pure operators. Everything rests on the
*age* of a row, the number of rows of the query that are newer (`Newer`). A walk that loses
nothing to deletions keeps `Lag`: each row not shown yet is at least as old as the offset the
walk goes on from. A walk over records that stay as they are keeps `Exact`:
the rows shown, once each, are those younger than the offset (`ShownBefore`). And a link to the last
page keeps `Still`: its offset is less than the total and at most a page away from
it (`EndsAt`), so that the oldest row, whose age is the total less one, is on that
page. The lemmas about ages are that older rows have more newer ones (`NewerGrows`)
and that every age below the total is taken (`AgeTaken`); the second is proved without
induction: ages are an injection between two finite sets of the same size.
The assumptions are that limits are natural numbers and the default is not zero.

**API client** (`ApiClientProofs`): `ClientInvariance`, `ClientTypeCorrect`,
`NoStaleToken` (`TokensArriveInTime`), `WithdrawnTokensLeave`
(`WithdrawnTokensAgeOut`), `CacheHoldsYoungToken` (`AdoptsYoungToken`) and
`DiscoversOnce` (`DiscoversOnceInSequence`). The argument is about times (`Timing`): what the cache calls
fresh ends a buffer before the token does, give or take the lag of the answer, so
the lag of the call still fits. It rests on `2 * Lag <= Buffer`: messages that take more than two
and a half minutes would break it. It rests as well on `AnswersAssumption`: a partner that
leaves `expires_in` out issues tokens that last an hour at least. `DiscoversOnce`
is about counting instead: while the endpoint is unknown nothing has been searched,
and afterwards once, provided that one call at a time is under way (`Discovery`).

**Portal table** (`PortalTableProofs`): `NothingHiddenIsSelected`
(`SelectionIsShown`), `TableInvariance`, `TableTypeCorrect`, `OutcomeIsShown`
(`ShowsTheOutcome`), `StripLeadsOn` (`CountedPagesReachable`) and `SearchIsCaughtUp`
(`SearchCatchesUp`). What the settled screen shows was decided when its load was served
and when it was started, so the invariant (`IInv`, in `PortalTable`) follows the
loads: every answer under way is a whole page, in one of the orders, of what its load
searched for (`PagesAreWhole`); the answer to the newest load tells of each row what is true
of it on the server, except while a bulk action that has changed something waits for its refresh
or after a reply was lost (`RowsAreFresh`), and unless Enter was pressed early it is one to
the search applied (`SearchesAgree`). Loads may overlap in any number: older answers only
matter when one of them comes last (`outrun`).
`StripLeadsOn` then is arithmetic about pages: a name that follows all names of
a page is that of a row behind its window, and a row is behind it just if the
total is beyond that page; a page within the count has rows in every order. Like the ages
above it needs that each place in a finite set of rows is taken.

Two assumptions say that `None` is not one of the records it stands in for
(`NullAssumption` of `PortalTable`, `JobsAssumption` of `PcfExchange`).

Model-checked only: `DecisionsFinish`, since liveness is beyond the prover, and what
the violated runs refute. Every invariant and action property of the
passing runs has a theorem. What recursive definitions compute is not an issue
here: no module has any.

## 5. Not modelled, and why

* The data model (`packages/pact-data-model`): types and JSON schemas generated
  from the OpenAPI documents. It has no behaviour, and it is some four fifths of
  the lines of the repository: the share of lines that the models can cover
  is bounded by it.
* The other pages of the portal: forms and details that show one answer each.
  Sorting, columns, and the refresh of the member panel after a single edit.
* The activity log (written without being awaited, read for display), e-mail and
  feedback (pure I/O, except that they may fail after a write), the proxied calls
  of the conformance tests, the older organization connections.
* Descriptive fields of nodes and organizations, `expiresAt` of connections:
  nothing decides on them.
* Filters in PCF requests; schema validation of footprints; several versions of one
  footprint, except that an upsert may change what a query finds.
* Negative limits and offsets of the footprint query: the database refuses them.
* Concurrent sign-ups with one organization name (there is no unique index):
  organizations are told apart by their founder here.
* The time of passwords' tokens and of sessions: any may expire at any moment.

## 6. Running

    tlc -config MCNodeConnections.cfg MCNodeConnections
    tlc -config MCPcfExchangeLocal.cfg MCPcfSequence
    tlapm NodeConnectionsProofs.tla

The passing runs take from a few seconds to four minutes with two workers; the
violated ones seconds. The proofs take one to several minutes per module.

## 7. Plan

Done: connections, exchange and accounts, each with its proofs; the two abstract
lifecycles with their refinements; the footprint query and its pages; the
API client; the paged table of the portal.

Next, in this order:

1. A composition of `NodeConnections` and `PcfExchange` over one connections
   table, replacing `Connect` and `Disconnect`.
2. Organization names in `Accounts`, with two sign-ups at a time.
