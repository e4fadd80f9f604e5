# Formal models of the NestJS applications

The repository holds seven independent NestJS applications. This directory
holds TLA+ models of their stateful parts, TLC configurations that check the
models on small instances, and TLAPS proofs of what matters most for every
instance.

    tlc -workers 2 -config MCPresence.cfg MCPresence     # one of the runs
    tlapm PresenceProofs.tla                             # one of the proofs

`PROJECT.json` lists the runs, the source lines each definition stands for, the
hazards of the code and the properties that cover them.

## The system

| Application | Part | State it keeps | Operations | Module |
|---|---|---|---|---|
| Nest_Websocket | presence: ChatGateway, UsersService, login | `userSockets` Map (memory), `users.isOnline` (PostgreSQL), events sent | connect, disconnect, login, restart | `Presence` |
| | conversations and messages: ChatService, ChatGateway, ChatController | conversations, messages, `isRead`, `updatedAt`; socket.io rooms | getOrCreate, send, mark read, join, leave | `Messaging` |
| | front end: chat store, socket listeners, queries | message list, conversation list, badge | apply an event, replace by a fetched list, select, write | `ChatStore` |
| | reactions | rows, the reactions a tab shows | add, remove, toggle, fetch | `Reactions` |
| | typing | refs and timer of MessageInput, `typingUsers` | type, send, switch conversation, expire | `Typing` |
| | the browser's session: auth store, axios, socket service | two localStorage keys, the tabs' stores and sockets | load, log in, log out, 401 | `WebSession` |
| Fundamentals of Nest | cart, orders, payments, products | Cart, CartItem, Order, Payment, `Product.stock` (SQLite); the provider's charges | addToCart, cart, checkout | `Checkout` |
| | pricing: PricingService and two rules | none | priceCart | `Pricing` |
| Nest_Redis | limiter: RateLimitInterceptor | `ratelimit:<ip>` | INCR, EXPIRE, verdict | `Shortener`, `Redis` |
| | UrlService | `url:<code>`, `clicks:<code>` | shorten, resolve | `Shortener`, `Redis` |
| POC | shipments, their cache, live stream and clean-up | Shipment documents, `shipment:*` keys, a Subject | create, track, assign, attach, read, clean up | `Shipments` |
| | job queues: QueueService, processors, BullMQ | jobs (Redis), their effects | add, attempt, fail, stall, retry | `Jobs` |
| | documents: DocumentsService | Document rows, `Shipment.documents` | store, attach, queue | `Documents` |
| | sessions and users | users, `refreshTokenHash`, welcome mails | register, login, refresh, logout, remove | `Sessions` |
| | dashboard and carriers | `dashboard` and `carrier:*` keys | read through, store, bust | `CachedReads` |
| | providers: ExternalApiService | calls in flight | ask, retry, give up | `Outbound` |
| Core Concepts | the guards of a route | `request.user` | JwtAuthGuard, then AuthGuard('jwt') with JwtStrategy, then RolesGuard | `Guards`, `Directory`, `Accounts` |
| | employees, departments, accounts, audit log | User, Department, Employee, AuditLog (PostgreSQL) | create, change, delete, assign; one audit row each | `Directory` |
| | statistics | the same | getStatistics of both services | `Reports` |
| Core Concepts, Nest_Websocket, nest-unit-testing, RBAC_NEST | accounts and tokens | `users` | register, log in, refresh, change password, address, activity; remove | `Accounts` |
| Core Concepts, POC, nest-unit-testing | paginated lists | the rows listed | nine `findAll`s | `Paging` |
| RBAC_NEST | abilities, articles, users | permission rows, articles, users | evaluate the rules, change by id | `Articles` |

The applications share no code and no state. Within one, the parts interact
through a database or Redis, through events and queues, and through calls that
await one another; that is where the interesting behaviour is.

What makes them hard to test is the same everywhere. Node runs a handler
without interruption up to its next `await`; every `await` on a query lets the
handlers of other requests run, and no application uses a transaction or a lock
around a sequence of queries. So the models have **one action per step between
two awaits**, a program counter per handler, and every interleaving of handlers.
An action named `Db...` is the database performing the query a handler awaits
(with the handler's resumption up to its next query, unless the model needs the
two apart). A `Fail...` action ends a handler at any query, which also stands for
the process ending where memory holds nothing else; `Crash` restarts the process
where memory and database disagree after it.

A **history variable** (or field) never restrains a step. It states the exact
condition under which the code keeps a promise: a property that holds "unless
raced" says that *only* that race breaks it, and the run finds no other way.

## The modules

### The chat (Nest_Websocket)

**Presence.** `Connect`, `WriteOnline`, `AnnounceOnline` and
`JoinRooms` are the pieces of `handleConnection`; `Close`, `WriteOffline` and
`AnnounceOffline` those of `handleDisconnect`. A write is issued, performed and
answered at three moments, for two writes in flight use two pooled connections
and may be performed in either order. `FailConnection` is the catch, whose
`client.disconnect()` runs `handleDisconnect`; `Login` is the write of
`AuthService.login`; `Crash` loses the Map. `suspect` is a history variable: a
user whose writes overlapped, failed, came from a login or met a restart.

**Messaging.** Conversations are created by
`POST /conversations` (`DbFindFirst`, `DbCreateConversation`); rooms are joined by
`handleConnection` and by join_chat; `createMessage` goes through its three
queries (`DbAssertParticipant`, `DbCreateMessage`, `DbBumpConversation`) to the
emission. Time stamps are modelled by the set of messages they are not older
than. Histories: `behind` (conversations a tab cannot know of), `raced`
(conversations with overlapping or failed sends), `twins` (pairs that two
requests asked for at once).

**ChatStore** composes the two sides of one conversation: the gateway's handlers
(`DbCreateMessage`, `EmitMessage`, `DbMarkRead`, `EmitRead`), the socket of the tab
`Me` that delivers in order and may drop and return, the two queries of the page
(`DbConversations`, `DbMessages`, their answers `SetConversations` and
`SetMessages`), and what the user does (`Select`, `StartChat`, `Back`, `Send`). An HTTP
answer overtakes events or is overtaken. The history is read as the client asks for it:
one page, the `Take` newest messages (`getMessages`: skip 0, take 50), which replaces what the
tab shows. No component asks for the page before it, so of a conversation longer than a page the
tab never shows the older messages, except those it saw arrive since. Histories: `lost` (no event
will bring the message), `cut` (the messages older than the page that was last put on
the screen), `skewed` (the badge was counted past the server's count), `swapped` (two
messages emitted in the other order).

**Typing** is MessageInput with its two refs and its timer, which survive a change
of conversation, the relay of the gateway and the readers' `typingUsers`;
`orphans` are timers whose component is gone, `stuck` the conversations whose stop
went elsewhere. **Reactions** are a click in the popover (`QuickClick`) or on a pill
(`PillClick`), which add or remove by what `groupReactions` makes of the pills shown
(`Grouped`), the handlers with query and emission apart, another tab's (`Elsewhere`), and the store, which a
history query may replace; `torn` names the pairs that may be shown otherwise.
**WebSession** has the two keys of localStorage, written by `SetAuth`, `Logout` and the
401 interceptor, and what each tab keeps for itself until it is loaded again.
After a logout the chat store keeps its list while react-query takes it to be
fresh (`leftover`).

### The shop (Fundamentals of Nest)

**Pricing, Checkout.** `Checkout` has one program counter
per GraphQL request: `addToCart`, the `cart` query, and `checkout` with its
charge, payment row, status update, stock decrements and cart closing, each a
step of its own. Prices, discounts and the decline limit are the code's
(`Pricing`, `Approves`). `charged` is what the provider took: external, known
from the gateway interface. `Fail` ends a request at any query. History:
`mixed` (a cart two requests used at once, or whose checkout failed after the
charge).

### The shortener (Nest_Redis)

**Redis, Shortener.** `Redis` has the commands the wrapper issues, on
entries of a value and a TTL. `Shortener` has POST /shorten (`CountHit`,
`StartWindow`, `Judge`, `DrawCode`, `SetUrl`, `InitClicks`) and GET /:code (`FindUrl`,
`RecordClick`), a failure at any command, and `Tick`, one second for every key.

### The logistics platform (POC)

**Shipments.** `Create`, `DbCount`, `DbCreate` are the creation with its
count-plus-one number and the unique index; `DbFind`, `DbSave` and the three steps
of the invalidation (`DelKey`, `ListKeys`, `DelKeys`) are `addTrackingEvent`, which then
publishes (`Finish`); `AssignCarrier`, `AttachDocument` and `CleanupStaleShipments` are
the other writers; `Miss`, `DbRead`, `Fill` are the cached GET, whose fill is not
awaited. A copy of a shipment is "current" or "old". Histories: `raced`,
`bypassed` and `excused` name why a property may not hold of a shipment.

**AtLeastOnce** is the abstract specification of work that is retried: an item is
owed once it is taken on, owed work is done or, after more faults than
`Tolerated`, abandoned; work that was done stays done; and nothing stays owed.
**Jobs** is BullMQ with the options of `QueueService`: an attempt that throws before
or after its effect (`FailAttempt`), a worker that vanishes or loses its lock
(`Stall`) and may go on as a `stray`. It implements `AtLeastOnce` with one fault
tolerated, by the mapping `Fate`, `Faults`. **Outbound** is `ExternalApiService.request`
with its timeout, `retry` and `catchError`; it implements `AtLeastOnce` with
`MaxRetries` tolerated, by `LookupFate` and `attempts`.

**Documents** adds the upload to Jobs: `DbStore`, `DbAttach`, `InvalidateCopy`,
`EnqueueProcessing`, each a command that may fail with what came before left done.
**Sessions** adds users and their one session to Jobs (the listener of USER_CREATED
queues the welcome mail). Of the bcrypt hash of a refresh token only its presence
tells, as the module's head explains. Histories: `entered` and
`revived`, why a session is open.

**CachedReads** keeps the dashboard and a carrier in `Redis`: a copy is made of what
several queries found at different moments, and stored and deleted by commands of
their own; its value is 1 while what it says is so.

### The directory (Core Concepts) and what it shares

**Guards.** Nest runs the guards of the application before those of a controller. AppModule
provides one, `JwtAuthGuard` (`CanActivate`): it authenticates nobody, it asks whether
`request.user` is set. Only the strategy behind the controllers' `AuthGuard('jwt')` sets it, later;
the one middleware sets a request id (`UserIsSet`). So **every route that is not `@Public()` answers
403, whatever the token.** The constant `AppGuard` says whether the guard is there. It is TRUE of
the source: the run `guards` shows what it does, and `AppGuardRefusesAll` proves that no row of
the directory then ever changes. What the services behind the guards promise is checked with
FALSE, for nothing else exercises them: it is the program as its documents, its tests and its
controllers take it to be, and as it is once the guard lets a token through. The theorems hold of both.

**Directory.** A request is `Authenticate`d (`ReachesController`, then `JwtStrategy.validate` and
`RolesGuard`, in one step: the guard reads the object the strategy made), then its
service looks (`DbFind`, `DbCheck`), writes (one `Db...` action per Prisma call, with the
unique indexes, foreign keys, cascades and SetNull of the schema) and the controller
logs (`DbLog`). `Fail` ends it at any query. Handlers differ only in the queries they make, so a
request has one program counter for all of them. Histories: `applied` (requests that
changed a row), `cut` (a query failed), `shifted` (the account changed while its request was in
flight), `filled` (a member came between a deletion's count and its delete).

**Accounts** has the four programs with accounts; `service` says which one runs.
`grounds` is what entitled a request at some moment since it began: login and
refresh judge a row that was read before bcrypt. **Paging** is the walk of a client through the
pages of any of the nine lists, whose rows and total are two queries in either
order (`Api` names the lists by what they answer beside the rows). Eight of the nine are sorted
by one column (`Sorted`), whose ties are open; `BookService.findAll` sorts nothing and MongoDB
then promises no order, so a page of books is taken of the rows in any order. **Reports** sends
the counts of a report together and performs them at different moments, while
employees and departments change.

### The articles (RBAC_NEST)

**Articles.** `Allowed` evaluates the permission rows as `CaslFactory` and CASL do, with
their conditions; `DbGuard` is the guard's look at the user, `DbFind` the copy on which a
handler decides, and the write goes by id. The field `moved` says that somebody else has
written to the caller, the article or the user since.

### Compositions

Parts that meet in the code are composed where they meet: Documents and Sessions with
Jobs, CachedReads and Shortener with Redis, both ends of the chat in ChatStore. Parts
of an application that share no state gain nothing from interleaving; they are checked
together in one instance whose behaviours exercise one part each (`used`, `part`), which
keeps the sum of their state spaces instead of the product:

- `MCChatSignals`: Typing, Reactions, WebSession.
- `MCOffice`: Documents, Sessions, CachedReads, Outbound, and Articles, which is another server.
- `MCDirectory`: Directory, Accounts, Paging, Reports. They share tables; each has
  what happens to its rows meanwhile as actions of its own (Directory any change of
  account and role, Accounts activity and removal, Paging and Reports rows that come,
  go and change).

## The runs

| Run | Properties | Shows |
|---|---|---|
| `presence` | RegistryExact, ColumnRightAtRest, BroadcastAgreesAtRest, OfflineOnlyWhenRaced, RegisteredGetsRooms | The Map is exact; column and broadcast are right at rest unless a named race happened; offline is broadcast past an open tab only in that race; a registered socket joins its rooms or is closed (liveness). |
| `messaging` | ReceiptCoversSeen, ListOrderAtRest, OneConversationPerPair, DeliveredToOldRooms | A receipt covers every message of others the tab had been sent (one's own are not marked, not even those of another tab); `updatedAt` is not behind the last message unless sends overlapped or failed. A pair has one conversation unless two requests raced; emission reaches every tab that could know the room. |
| `chat_store` | ShownOnce, ShowsAllAtRest, BadgeAgreesAtRest | No order of events and answers shows a message twice; what is missing, out of order or miscounted at rest has one of the named causes; what is older than the page is missing, and nothing newer. |
| `chat_signals` | PillsAgreeAtRest, OneIdentity, TypingEnds | Reactions are shown as stored up to the named races; a tab is one person everywhere up to two causes; "typing..." ends when the writer pauses (liveness). |
| `web_session` | LoginAfter401 (violated) | The interceptor's "Handle 401 globally" fails: the login page finds `auth-storage`, and leads back to the next 401, for ever. |
| `checkout` | QuantitiesAddUp, SoldOnceInFull, StockBalances, ChargedGetsSold | A cart that no two requests used at once holds what was asked for and is sold once, line for line; the stock balances; a charged customer gets the order (liveness) unless the request fails. |
| `shortener` | QuotaKept, CounterWillExpire, ClicksAddUp | The quota holds per window, a counter without expiry has one cause, clicks add up unless the code's making was disturbed. |
| `shipments` | NumbersDense, StatusIsLastEvent, LiveAgreesAtRest, CacheFresh, HistoryFollowsMachine | Numbers are dense and unique; history, status, stream and cache agree, and the history follows the table, up to the named races. |
| `shipments_enforced` | TransitionsEnforced (violated) | "Enforced by the ShipmentService" fails: assignCarrier ignores the table. |
| `directory` | RowsConsistent, AuditTellsTruth, AuthorityAtWrite, EmptyWhenDeleted, WasEntitled, WalkMissesNothing, ReportsAddUp | Rows hang together; the audit log is true and, up to failures and deleted accounts, complete; changes are authorised, departments deleted empty, up to the named races; tokens and new passwords go to whom they were due at some moment of the request; a walk through pages misses and repeats rows for the named causes only (a list without order is one); a report is right for every row that did not change. |
| `guards` | EntitledGetIn (violated) | "Guard to check if user is authenticated" fails: with JwtAuthGuard as the source provides it, a request of an active user with the role the route asks for is refused by its first step. |
| `office` | UploadIsWhole, OpenNeedsEntry, Promised, ChangesArePermitted, FreshAgain, KeepsTrying | An upload that was answered is whole; a session is open for a cause; queue and provider calls implement AtLeastOnce, liveness included; a change of an article or user is permitted at the moment of the write unless somebody else wrote in between; copies come to be true when nothing changes any more. |

### Bounds

Each bound is a CONSTANT given in an MC module or cfg, or a named guard.

- `presence`: two tabs of one user and one of another. Every race of the gateway is
  between two handlers of one user; the second user shows that users do not mix.
  Slots are reused, so histories are unbounded.
- `messaging`: a behaviour belongs to one of two parts (`part`). *Messages*: one conversation,
  two users, three tabs, two of them of one user, two messages. A user with two tabs is what tells
  "every message" from "every message of others" in `ReceiptCoversSeen`. *Pairs*: two
  conversations and two requests, the least in which a duplicate exists; a third user, who has no
  tab and posts by HTTP, so that pairs can differ; one message, by event or by POST. The clients
  named by `Mover`, `Reader` and `Poster` use the rest of the protocol: reading in the
  one part, joining by hand, posting and marking one message in the other. One tab closes (`Stays`),
  in the part of the pairs: at any moment, with the handlers it has left running on.
- `chat_store`: two tabs of the followed user and one of the peer, a message of
  each user. Two messages make every reordering; the store treats conversations alike. A page is
  one message (`Take` = 1, the code's 50), so that the second message makes the conversation
  longer than the page.
- `chat_signals`: two conversations of a writer, events to the gateway sent while at
  most `MaxWire` = 1 is on its way; two users who react with one emoji through two
  handlers in flight, requests made while fewer than two events are on their way to
  the tab; two members and two tabs of a browser. `web_session`: one tab.
- `checkout`: one customer, two additions and two checkouts, three carts, two
  products at catalogue prices; the wanted quantities reach both discounts and
  both sides of the decline limit. Customers share only stock, whose decrement
  is atomic.
- `shortener`: three POST /shorten against a quota of one, two clicks, two codes,
  window and lifetime of two seconds: a request can be early, late or across an
  expiry.
- `shipments`: two creations, and one shipment that two tracking requests, an edit
  and a cached read meet, again and again; tracking requests report three
  statuses, among them an end of the machine.
- `directory`: three requests, each any of 17 calls by either of two users, an
  administrator and a manager, on the seeded rows (two departments, two employees, one the
  manager of the other) and one unused id of each kind. Two requests make every race of a read
  and a write; of three, one changes an account, and so what its owner may do meanwhile (`Third`).
  `AppGuard` is FALSE, and TRUE in `guards`, on the same instance. Accounts: two persons, one
  an administrator, two addresses, two passwords, two requests. Lists: three rows, three
  values, two rows a page, so that a walk has two pages and a row can cross between
  them. Statistics: two employees, one department beside "none" (a second department would only be
  another elsewhere), one report. Symmetry over requests, which name the rows of the lists too.
- `office`: one upload, its job with three attempts as configured; one user with three
  requests, the least in which a refresh, a logout and a login meet; one article and two
  persons with two requests and the seeded kinds of rules; two addresses of one carrier
  and the dashboard, two requests, TTLs of 1 and 2 (one shorter than the other), two
  changes (`MaxChanges`, so that changes end); one lookup with three retries.

Requests in `Messaging`, `Checkout`, `Shipments`, `Documents`, `Outbound` and `Directory` are made
once, and a conversation is at rest when all is sent and read; those runs may
stop and set `CHECK_DEADLOCK FALSE`. In `Presence` and `Shortener` deadlock is
checked. Symmetry is used only in runs without liveness properties.

### Fairness

- `Presence`, `Checkout`: weak fairness of a handler's own steps. PostgreSQL
  and SQLite answer, and Node's event loop resumes a handler that was answered.
- `Typing`: timers whose component is gone fire, the writer's socket returns (socket.io), events
  are relayed and applied. Not the live timer: typing restarts it, so `TypingEnds` assumes a writer
  who keeps pausing.
- `Jobs`: workers run as long as the process does, and it is restarted when it ends.
- `Outbound`: the HTTP client ends every attempt by its timeout, the timer of a
  pause fires.
- `CachedReads`: time passes. Nothing is asked of requests.
- `WebSession`: a tab loads and asks; strong fairness of an answer, for the token may
  expire in between, and of requests asked again and again one is answered.

Opening and closing a tab, sending, typing, failing, stalling, dropping and crashing have none.
The other modules state safety only.

### Refinement

`Promised` and `KeepsTrying` are `AtLeastOnce!Spec` under two mappings, checked by TLC with
liveness; their safety halves are proved. The first says that
one fault of either kind, a failed attempt or a vanished worker, never loses a job
(BullMQ's `maxStalledCount` of 1, which the code leaves alone, is what bounds it, not the three
attempts); the second that `count` of `retry` is the number of retries, not of attempts.

## The proofs

TLAPS proves these for every value of the constants: **every invariant that a passing run
checks, every action property, and the safety half of both refinements.** Eight modules
hold them, one for the parts of each application that belong together. A component's
theorems are about its own specification (`AccountsSpec`, `ReactionsSpec`, ...); where a run
composes parts of which one moves at a time, its steps of that part are those of that
specification.

None of the properties is inductive, for they speak of the end of handlers: at
rest, when answered, at the write. The inductive invariant says in each case, for each
`await` at which a handler may be suspended, what it has achieved and what it relies on
until it resumes. The steps of a proof are one lemma or case per action; what a step
leaves alone is dealt with once, by a lemma about stuttering on the variables concerned.

**PresenceProofs**, from `OwnerAssumption` (a socket has one user).
`IInv`: a user who is not suspect has at most one gateway write in flight (`LoneWrite`),
an online write with a tab open or an offline write with none, and once performed the
column has its value; a slot is reused only after its departure ended
(`DepartedIsClosed`). From it follow `TypeCorrect`, `RegistryIsExact`,
`ColumnIsRightAtRest`, `BroadcastIsRightAtRest` and, from the step, `OfflineNeedsRace`.

**MessagingProofs**, from `OwnerAssumption` and `DisjointAssumption` (rooms of users and
sockets differ). One invariant per property beside the types (`MessagingTypes`):
`PairsInv`, a request that found no conversation still finds none or its pair is
`twins` (`PairsShareOne`); `RoomsInv`, a tab that is joining has its rooms on its list, and one
that has joined is in them, up to `behind` (`DeliveredLive`); `ReceiptsInv`, whose `Covers` says that
what a mark_read was to cover is read once its update is performed, up to the reader's
own messages (`ReceiptsCover`); `OrderInv`, in a conversation that is not raced one
send runs at a time and knows of all its messages when it writes `updatedAt`
(`ListsInOrder`). The exception in `Covers` was found by the proof: the
property as first stated counted the user's own messages, which another tab of theirs
may have sent; the code marks `senderId: { not: userId }`.

**ChatProofs.** From `NobodyAssumption` and `MemberAssumption` (the marks for "nobody",
"not asked" and so on are no members): `IdentityInv`, where the token a tab would take from
localStorage is its user's or gone (`TabsAreOnePerson`). From `SelfAssumption` and
`EmojiAssumption`: `PillsInv`, a pair that is not torn has one handler at work at most, and when
all events on their way have been applied the tab will show what is stored
(`PillsAgree`). From `TabAssumption`, `TakeAssumption` (a page has one message or
more) and `PeerAssumption` (a conversation has two participants): `StoreInv` of the message list. `RowsInv`: every event follows
the row of its message, and a page under way holds the newest of the rows there were when it was
read (`PageInv`). `FlowInv`: a row is on the screen, in a page or an event to come, `lost`, or `cut` off by
the last page. `CutInv`: what a page cut off is older than all that a page may still bring, so the
exception covers nothing but the far end of the conversation. `OrderInv`: what is shown follows the rows but
for `swapped` pairs; to keep it where an answer and an event meet, it also speaks of rows not yet shown.
`BadgeInv`: the badge counts what is settled while no mark_read is under way. From it
`MessagesShownOnce`, `TabShowsAll` and `BadgeAgrees`.

**CheckoutProofs**, from `RequestAssumption` (finitely many requests, each of a user and a
kind) and `CatalogAssumption` (whole cents and quantities). Quantities, units and prices
are sums over sets. The library's induction theorems cannot be used here (they take an
operator), so the module starts from the fact that a non-empty family of finite subsets has a
minimal member, and proves from it that the fold behind `Sum` exists, what it
gives for the empty set, and what adding, removing or changing an element does to it.
On these rest `CartsAddUp` (`FoundInv`: the row addToCart found is up to date unless somebody else
works on the cart), `CartsSoldOnce` (`SaleInv`: the lines read and ordered are those the cart
still has, and it has one paid order at most) and `StockAddsUp` (`StockInv`: what is gone from
the stock is what the checkouts of paid orders have taken so far, also from carts that
are mixed); beside them `ShopTypes`, which needs that `PriceCart` gives whole cents.

**ShortenerProofs**, from `SettingsAssumption` (positive settings) and
`RequestAssumption`. `QuotaKept` rests on `Numbered`: the requests counted by a
counter hold different numbers from 1 to its value, so those with a number within the quota are
at most as many as the quota. `CounterWillExpire` needs `StartersPending`: the request
that made a counter holds number 1 and is between INCR and EXPIRE. From the
invariant: `QuotaIsKept`, `CountersExpire`, and `WindowIsFixed` (a client who keeps
trying does not prolong its wait), which no run checks. A step of UrlService is
shown once to be quiet for the limiter. `ClicksAreCounted` has an invariant of its own, with
`MadeOnce`: outside `collided`, one request makes a code at a time and nobody clicks it between its
two SETs.

**ShipmentsProofs**, from `ConstantsAssumption` (finitely many shipments, handlers of one kind
each). `IInv` says where a handler in flight stands: it is about a shipment that exists (`Placed`,
`Unmade`); a number drawn is at most one more than there are shipments (`Drawn`), from which the
unique index makes `NumbersDense`; a request about to save has checked the status it found, which
still is the status unless somebody interfered (`Checked`), and two at once have been noticed
(`Noticed`); past the save it reports the last event (`Reporting`), and the stream is behind only
while one is to publish (`Lively`). `CacheFresh` is inductive beside them. From it: `TypeCorrect`,
`NumbersAreDense`, `StatusFollowsEvents`, `StreamAgrees`, `CacheIsFresh` and, from the step,
`HistoryFollows`.

**OfficeProofs** has five parts. *The queue*, from `AttemptsAssumption` (more attempts than
faults tolerated): `JobsInv`, a job that was not added has no past (`Fresh`), past the effect
the work is done (`Worked`), and a job has failed exactly when its attempts are used up or it
stalled too often (`GivenUp`); the last is what a `GiveUp` of the abstract queue needs.
`QueueKeepsPromise`: `JobsSpec => Promise!Safety`. *Documents*, from `DocAssumption`: `Achieved` says what an
upload has done where it stands; a job once added is never as if it were not.
`UploadsAreWhole`, whatever else is in the queue. *Sessions*, from `UserAssumption`: `OpenNeedsEntry` is not
inductive, for a refresh in flight will write later; `Covered` says that a refresh not overtaken is
of a user whose session still has a cause. `SessionsHaveCauses`. *Providers*, from `RetriesAssumption`: `Spent`
bounds the failed attempts of a call in each of its states; `CallsKeepTrying`: `OutboundSpec =>
Provider!Safety`. *Articles*, from `RuleAssumption`, `StaffAssumption` and `IdsAssumption` (NULL
is no id): `Grounded`, whoever is about to write may do so to what the row holds, or
somebody has `moved` it. `ChangesPermitted`.

**DirectoryProofs** has four. *The directory*, from `IdAssumption` (kinds of ids do not overlap),
`CallAssumption` (calls are those the DTOs let through) and `SeedAssumption` (the database starts
consistent). `CallsKept` says that a handler past the guards
has a call its service would make (an employee is never to manage itself: that is
refused before the first query, long before the write). `Standing`: the account of a request in flight
is as it was read, or the request is in `shifted`. `CountedNobody`: a deletion about to write has
counted nobody, or is in `filled`. `Audit`: a request that changed a row has its audit row, is
about to write it, failed, or its account is gone. `RowsConsistent` is part of the invariant
because each cascade relies on the references being good. From it: `TypeCorrect`,
`RowsStayConsistent`, `AuditHolds`, and from the step `AuthorityHolds` and `DeletionHolds`. All five
hold whether `AppGuard` is true or not; of the source, where it is, `AppGuardRefusesAll` says the rest: every
request is refused at the guards, and what the other four protect cannot be changed at all.
*Accounts*, from `AdminAssumption`: `EntitledSoFar` says of each stage what must already have been true
at some moment of the request. `EntitlementHolds`. *Statistics*, from `FiniteAssumption` and
`PlaceAssumption` (finitely many employees and departments; "company" and "nowhere" are none): a
figure that has been read is right but for rows touched since, while the
others are out (`FiguresRight`). `ReportsHold`. *Lists*, from `PagingAssumption` (a positive page size,
finitely many rows): in a sorted list without ties a row's place in any order is the number of
rows before it (`PlaceIsAhead`); so it is in a list of one row, which is all that is said of the books. So a row not shown is at or behind the place the walk has reached as long
as no row leaves, one shown is before it as long as none enters, and a total that awaits its rows is the
number of rows unless one entered or left (`AllToCome`, `AllPassed`, `CountHolds`). That the
walk goes on while such a row is behind the page is shown for the four ways in which the lists tell of a
next page (`MoreRows`). `PagingInvariant`, and from the step `WalkShowsAll`.

Only model-checked:

- Liveness, which is out of the prover's reach: `RegisteredGetsRooms`, `ChargedGetsSold`, `TypingEnds`,
  `FreshAgain`, and the liveness in `Promised` and `KeepsTrying`. `Typing` and `CachedReads` promise nothing
  else and have no theorem; `Redis` is proved about where `Shortener` uses it.
- The three runs that find what the code says of itself violated: they show a behaviour.
- What `Pricing` computes is checked where a run depends on it (the totals in `checkout`); of it only the type is
  proved.

## Where the code parts from its documents

- `guards`: JwtAuthGuard refuses every route that is not public
  (`src/Core Concepts/src/common/guards/jwt-auth.guard.ts:24`).
- `shipments_enforced`: assignCarrier moves a shipment past the transition table
  (`src/POC/src/modules/shipments/shipments.service.ts:87`).
- `web_session`: a 401 leads to the login page and back, for ever
  (`src/Nest_Websocket/frontend/src/api/axios.ts:22`).
- Without a run: `src/POC/README.md:201` promises "refresh-token **rotation** and reuse detection
  (hash stored per user; mismatch revokes the session)". bcrypt hashes the first 72 bytes, which all
  refresh tokens of a user share (JWT header, start of the payload): an older token matches the
  newer hash, and the branch that revokes the session is never taken. `Sessions` therefore keeps
  of a hash only that there is one; no property could fail by it.

## Not modelled

- Of every application: validation of inputs, response formats, logging, start-up wiring,
  rate limits and CSRF checks that a library makes, and single queries that read or write
  what no other operation looks at (books, carriers' lists, `PATCH /users/:id`, the sales report,
  getStats). They have no steps to interleave.
- Chat: users who mark or join conversations of others, and pages of the history beyond the first
  (`GET /conversations/:id/messages` takes skip and take): the inputs are what the shipped client sends. `user.store`, which no component reads, and the
  layout of the pages.
- Shop: the catalogue's queries, discovery and request context; products a catalogue does not
  have and quantities below one. Nothing bounds the stock from below; `StockBalances` says what is taken.
- Logistics: the year in a shipment number (one calendar year) and the age of a stale shipment
  (any CREATED shipment may be a week old). Notifications, audit, plugins, health, scheduled
  reports and the realtime gateway: single writes with simulated delivery, rows appended and
  never read by the code, and a relay of the stream Shipments has. The mail on delivery: its event is
  created without the owner's address, and the listener then queues nothing. The report queue: nothing adds to it.
  An outbound call that a restart loses: nobody waits for it any more. geocode
  without a key, which makes no call.
- Directory: whether a department is active and the columns of an employee nothing depends on (both are in
  Reports where they are counted); the average salary, one more figure of the same kind.
- Articles: changes of roles and permission rows, for which there is no endpoint.
- Accounts: what a token says beyond whose it is, and its expiry (WebSession has that of the chat).

Parts without a module are listed in `PROJECT.json` with the reason.

## Plan

1. Abstract specifications, with their refinements proved: a presence register that `Presence`
   implements for users who are not suspect; an order ledger that `Checkout` implements.
2. The safety that the liveness properties rest on: what a response of Redis may be when a copy
   is stored (`CachedReads`), which timers are left when a conversation is closed (`Typing`).
3. `ChatStore` for two conversations at once, with the list of the one behind the other.
