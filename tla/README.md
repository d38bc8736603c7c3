# Verification of StorePulse

StorePulse collects the sales and refunds of shops in real time. POS simulators
post events to a FastAPI backend, the backend records them in PostgreSQL and
tells the dashboards that something has changed. This directory holds TLA+
models of the program, the TLC configurations that check them and TLAPS proofs.
`PROJECT.json` names, for every definition, the lines of the source it models.

    tlc -workers 2 -config MCRefunds.cfg MCEventIngestion     # one run
    tlapm EventIngestion_proofs.tla                           # the proofs

Each `.cfg` is run with the `MC*` module that `PROJECT.json` names for it.

## 1. The system

| Component | State | Operations | Talks to |
|---|---|---|---|
| Event ingestion (`backend/app/event_ingestion.py`, `main.py`) | `pos_events`, `stores.last_seen_at`, a transaction per request | `POST /api/v1/events`: record a SALE, record a REFUND, recognise a retry | PostgreSQL (locks, COMMIT), the connection pool, realtime broadcast |
| Schema and rules (`schemas.py`, `models.py`) | none | shape of a body, column types, check constraints, foreign key | ingestion |
| POS simulator (`simulator/simulator/*.py`) | bounded queue, ledger of refundable sales, workers | make an event, post it, retry, replay it as a duplicate, commit or roll back a reservation, heartbeat | backend over HTTP |
| Store connectivity (`main.py`, `services.py`) | `last_seen_at` | heartbeat, `GET /stores`, `is_store_online` | ingestion writes the same column |
| Realtime (`realtime.py`) | set of WebSockets | connect, disconnect, broadcast | ingestion and heartbeat call it, dashboards listen |
| Dashboard (`frontend/src/App.vue`, `api.ts`) | timers, one socket, one request | refresh, coalesce, poll, reconnect, unmount | `GET /stores`, `/ws/dashboard` |
| Engine lifecycle (`db.py`) | lazily created engine and session factory | session per request, `dispose_engine` | all handlers |
| Smoke harness (`scripts/verify_simulator_smoke.py`) | none of its own; containers and tables | start simulators, wait for evidence, stop all writers, clean up, restart | docker compose, psql |
| Migrations and seed, settings, health, scripts, CI | - | run once, or read only | - |

What is hard in it, and what each part must get right:

* **Ingestion.** Handlers of the same event and of different refunds of one sale
  interleave at every `await`. An event must be recorded once, a retry must be
  told so, a different body under the same id must be refused, and the refunds of
  a sale must never exceed its quantity or amount. A COMMIT may be lost on the
  way, a process may die between COMMIT, broadcast and answer, locks must end
  with the request and nobody may wait for ever.
* **Simulator.** A request that timed out may have taken effect, may still take
  effect, or never. Retries, deliberate duplicates, reservations and restarts must
  not make the backend refuse a business event, lose one or record it twice; the
  bounded queue must not block the workers that empty it.
* **Realtime and dashboard.** A broadcast is sent to a snapshot of the sockets and
  is only a hint. The page must never overlap requests, must not miss a change
  that arrives while a request is in flight, must keep one socket, must do
  nothing after it is unmounted, and must converge by polling.
* **Connectivity.** Two kinds of transactions write one `last_seen_at`, with stamps
  of two clocks taken before they wait for the row. A store that beats must be
  online, and one that is silent must be seen to be offline although nothing
  announces it.
* **Harness.** Every docker and psql command may fail half-way. Rows may only be
  deleted when no writer is left, and a run that passes must leave no trace.

The list `hazards` of `PROJECT.json` has each of them with its line.

## 2. The modules

    RefundRules  <- EventLedger                 what POST /events promises
         ^             ^ (refined by)
         +---- EventIngestion
         +---- Producer
    Realtime <- Dashboard
    Connectivity
    SmokeHarness

The theorems are in modules of their own, each of which extends the module it is
about:

    RefundRules_proofs <- EventIngestion_proofs <- EventAnswers_proofs <- EventLedger_proofs
                       <- Producer_proofs
    Dashboard_proofs    Connectivity_proofs    SmokeHarness_proofs

**RefundRules** holds the pure rules: which events count as refunds of a sale,
their sums, the limits, what the schema accepts. `Total` is a sum written as the
cardinality of a set of pairs, which the library's theorems apply to;
`MCEventIngestion` checks it against a fold on all small inputs.

**EventIngestion** is `ingest_sale_event` and `ingest_refund_event` with
`create_event` around them. Each SQL statement is an action: `Begin` (first look
for the event), `Resolve` (store and product), `LockOriginal` (`SELECT ... FOR
UPDATE`), `Recheck`, `ValidateRefund`, `Insert` (`ON CONFLICT DO NOTHING`),
`Flush` (the `UPDATE stores` that `commit()` emits), `Commit`, `Classify`,
`Rollback`, `Broadcast`. `pc[t]` is the statement a handler is at. PostgreSQL is
modelled by what the handlers rely on in READ COMMITTED: a statement sees
committed rows, row locks last until the transaction ends, an insert waits for a
transaction that has inserted the same key, `now()` is the start of the
transaction. `LoseCommit` is a connection that breaks after COMMIT was sent: the
handler answers 500, and `OrphanCommit` or `OrphanAbort` decides later. `Crash`
kills the process at any point; of its transactions only a COMMIT that was sent
survives. `DatabaseError` fails any statement, or the checkout from the pool.
`_find_store` and `_find_product` are one action: the tables do not change while
the backend runs, and the order of their errors is kept. A store code stands for
the store, a SKU for the product, `info` for the fields the handlers only compare
(`occurred_at`, `source_instance`, `metadata`, `note`). `RoundTrip` is what JSONB
gives back for an `info`, `PyValue` what Python's `==` sees of it.

**EventLedger** is the abstract specification: a ledger to which an accepted event
is appended in one step that respects the refund rules; every refusal is justified
at one moment between the arrival of a request and its answer. `EventIngestion`
implements it (`ImplementsLedger`, refinement mapping at the end of the module).

**Producer** is one simulator process: `_traffic_loop` (`MakeSale`, `MakeRefund`
with its reservation, `Put` into the bounded queue), `_delivery_worker` (`Get`,
`Deliver`, replay, `Abandon`), `post_event_with_retry` (`Serve`, `NoAnswer`,
`Resend`, `GiveUp`), and `Restart`, which loses queue and ledger. The backend
serves a request in one step, as `EventLedger` allows; a request its client has
stopped waiting for may still be served (`ServeLate`) or be lost (`LateEnds`).
`limit` is `MAX_RETRY_ATTEMPTS`, chosen once from `Limits`, so that one run covers
limited and unlimited retries. `Doublings` is the attempt up to which
`2 ** (attempt - 1)` fits a float, 1024 in Python; after it `Raise` ends the
process. A run that is not about so long an outage sets it to 0 and counts no
attempts of unlimited retries.

**Realtime** has `ConnectionManager` and the handlers that commit a change and
broadcast it. Sections under its `asyncio.Lock` contain no `await` and are one
action each; the sends in between are an action each, one socket after the other
in the order of the snapshot. A link is dialled, open, cut, or stalled: open, but
with full buffers, so that a send to it waits. uvicorn pings each websocket every
20 seconds and closes one that does not answer within 20 more (`EndStall`).
**Dashboard** adds one page:
every callback of `App.vue` is one action, because a browser runs one callback at
a time. What a page shows is abstracted to the number of committed changes it
reflects. A message or a callback arrives in any order the browser allows; links
are cut and the backend restarts at any time.

**Connectivity** has time. A stamp is kept as its age, and `Tick` may not pass
what is due: the end of a sleep, of a request, of a transaction, of a polling
period. `Post`, `Fail` and `Answer` are `_heartbeat_loop`; `Stamp` is the
`datetime.now(UTC)` of the heartbeat handler, after its `SELECT`; `BeginEvent` is
the start of an event's transaction, whose `now()` by PostgreSQL's clock becomes
`last_seen_at` when it commits; `Update` waits for the row of the store.
`ListStores` applies `is_store_online`, and the page's callbacks are those of
`Dashboard`, with the period of the polling timer.

**SmokeHarness** is `run_smoke` and `finalize_verification_run`: docker's and
psql's commands succeed, fail, or fail after they took effect. `committing` are
handlers whose COMMIT PostgreSQL has: they outlive the backend and hold the row
lock of their store, and of their sale.

In every module a definition after `\* Fault:` is a plausible mistake in the
definition that follows it. No action uses it; `PROJECT.json` pairs it with the
property that notices it.

## 3. The runs

| Run | Instance | Shows |
|---|---|---|
| MCRefunds | 3 handlers, 2 connections, 1 sale, 2 refunds that do not both fit | the inductive invariant, refund limits, one acceptance per event, locks end and are taken in an order that never deadlocks, exact retries are never refused, waiting for a lock with a connection in hand blocks nobody for good |
| MCRequests | 2 handlers, 12 bodies of every kind, clock 0..1 | types, what is stored, acknowledged, refused and seen; the invariant of the answers; refinement of the ledger |
| MCAnswered | 2 handlers, one refund id for two sales | every request is answered, across row, key and store locks |
| MCProducer | 2 workers, unlimited retries or 2 attempts, late requests, restarts | the inductive invariant; without a limit the backend refuses nothing; a replay is always a duplicate; the local ledger balances; no event is dropped or recorded twice |
| MCProducerSettles | 1 worker, queue of 1, delays overflow after 2 attempts | every event is delivered, given up or lost with its process |
| MCConnectivity | default times in units of 5 s, 2 requests at a time, skew of one unit | the inductive invariant; a store that beats is online; a silent one is not shown online for long |
| MCDashboard | 1 page, 2 sockets, 1 change, links cut or stalled | the inductive invariants of page and backend; each page is told of a change at most once; one request, one socket, no step back, pushed changes are shown, broadcasts end, polling converges |
| MCSmoke | 2 simulators | the inductive invariant; no writer during cleanup; a passing run is clean; the harness ends |

Four runs expect a violation; they are explained below. `TypeOK` is a conjunct of
`IInv` in MCRefunds, MCProducer, MCConnectivity and MCSmoke.

The bounds are the smallest in which the hazards happen. Two refunds and three
handlers let one refund be validated while another commits and a third is a
retry of either; two handlers are enough for a disagreement about an id; three on
two connections for one that holds a lock while the others hold or want a
connection. `MaxBigInt` is 2, so that quantities 1, 2 and 3 are below, at and
above the limit of a column. `MaxTime` bounds the clock and is 0 where no property
reads it. Two sockets are the one that closes and the one that replaces it, and
let one fail during a broadcast to both. `MaxChanges` bounds the changes, which
must end for a page to converge: the page only tells data that reflects a change
from data that does not. `FirstAnswered` asks of one handler what
`EveryRequestAnswered` asks of all, which are alike. Handlers, workers and events
are symmetric where no liveness is checked.

The times of MCConnectivity are the defaults of the code in units of five seconds:
a heartbeat every unit, a request of at most one, offline after more than six, a
poll every two. What no timeout in the code bounds is a named assumption: `Lag`,
the longest transaction with its waits for locks, `FetchTime`, the longest
`GET /stores`, and `MaxSkew`, the difference between the clocks of PostgreSQL and
the backend. `OnlineWhileBeating` gives the gap that `n` missed heartbeats leave:
`n + 1` intervals and timeouts, one more timeout, a transaction, and the skew.
With the defaults one missed heartbeat is tolerated with nothing to spare (6 of
6 units, when PostgreSQL's clock is not behind), two are not guaranteed.
`REQUEST_TIMEOUT_SECONDS` is httpx's timeout of each phase of a request, so a
request that takes long in two of them counts as two units.

### Where the code and its documents disagree

* **MCBignum.** A retry of metadata that JSONB does not return as it was sent (the
  float `1e30` comes back as an integer) is answered 409, not `200 duplicate`. The
  same comparison uses Python's `==`, for which `true` and `1` are equal: there a
  different body is answered `200 duplicate`. The properties hold when
  `RoundTrip` and `PyValue` are exact, as in the other runs.
* **MCOverbooking.** With a limit on attempts, a refund given up after its COMMIT
  returns its reservation, and the next refund overbooks the sale.
* **MCLongOutage.** "Retry without a producer-side attempt limit" holds for 1024
  attempts, about 85 minutes: the next delay is `0.25 * 2 ** 1024`, which raises
  `OverflowError`, and nothing catches it. The process ends, its container is
  started again, and queue and ledger are gone.
* **MCSmokeBackend.** If the command that confirms the stop of the backend fails,
  the backend stays stopped.

## 4. Fairness

* `EventIngestion`: strong fairness of what a handler does next. PostgreSQL queues
  the waiters of a lock and SQLAlchemy those of its pool in order, so a handler that
  can move again and again is served. Nothing forces a fault, a crash or a request.
  Its broadcast is one step: that it ends is `BroadcastEnds` of `Dashboard`.
* `Producer`: the traffic loop and `Resend` are weakly fair (asyncio runs what is
  ready); `Serve` and the end of a delivery strongly fair: outages end.
  A process that has ended is started again (`restart: unless-stopped`).
* `Dashboard`: timers, callbacks and handlers are weakly fair, each by itself; a
  stalled link ends, because the page reads again or the keepalive closes it. The
  step of a broadcast is strongly fair: a send that waits goes on once the socket
  takes data, also if it stalls again later. That
  requests which are made again and again are served is a hypothesis of `Converges`
  alone. `fetchStores` has no timeout of its own: a request must end, with an
  answer or an error, which a browser guarantees.
* `Connectivity` has no fairness: its deadlines are in the guard of `Tick`.
* `SmokeHarness`: commands end and polling has a deadline; PostgreSQL ends a COMMIT.
  Nothing is assumed of a statement that waits for a lock.

## 5. The proofs

Every invariant and every action property that a passing run checks, and the
refinement of the ledger, is also a theorem about its module. `PROJECT.json` lists
the theorems under `theorems`. Each rests on an inductive invariant that a run
checks as well; the proof that a step keeps it has one case per action.

**RefundRules_proofs**: adding an element to a function's domain adds its value
(`TotalAdd`), appending an event adds to the refunds of its original and to no
others (`RefundedAppend`), and a part of a table refunds no more than the whole
(`RefundedMonotone`). `EventIngestion` and `Producer` both rest on them.

**EventIngestion_proofs**, for any number of handlers, stores, products, events
and payloads, and any clock and pool: `TypeCorrect`, `ReferentialIntegrity`,
`ClassificationFindsRow` (`ConflictRowVisible`), `RefundsWithinLimits`
(`RefundLimits`) and `AppendOnly` (no step changes a recorded event).
`RefundLimits` is not inductive by itself: a commit keeps the limits only if what
was validated is still true, and that is so because of the lock. `IInv` adds, for
each handler, `RequestOK` (its body passed the schema, store and product were
found), `RefundOK` (it holds the row lock of its original, a recorded sale; once
validated its refund fits what is recorded now) and `InsertOK` (it holds the
event's key, and no row with that key is committed). A commit by one handler could
break `RefundOK` of another only with a refund of the same sale, but that handler
would hold the same lock. `OrphanCommit` keeps its locks, so the argument covers
COMMITs that outlive their handler or the process.

**EventAnswers_proofs** is about what a client is told, and about the locks.
`AnswersInv` is kept by every step from states in which `IInv` holds.

* `OutcomeOK` ties a verdict to the statement the handler is at, `ReceiptOK` ties
  it to the row, and `RowsWereSent` says that each row is a body that was sent.
  With them `AcceptedOnce` and `LastSeenWitnessed` are kept, and
  `AcknowledgedIsStored` follows.
* `RetryOK` is the reason for the second look after the row lock: a refund about
  to be validated is not itself in the table, because a copy of it would have
  needed the same lock. Without it `ExactRetryHonoured` fails, for a retry whose
  first copy used up what was left of the sale.
* `LocksEnd` says between which statements a lock is held. It gives the order of
  the locks: a handler that waits for a store already has its key, one that waits
  for a key already has its row, one that waits for a connection has nothing.
  `HandlersNeverDeadlock` (`NoDeadlock`) follows: of any set of handlers, one
  waits for no lock of the others and for no connection that only they have.
* `AcknowledgedEventsAreStored` and `RetriesAreHonoured`, and the refinement
  below, have the hypothesis `Lossless`: Python's `==` on what JSONB returns tells
  apart exactly the bodies that are stored differently. It is about values, not
  about behaviour, and holds of most metadata; it fails for `true` next to `1`, and
  for the float `1e30`, where MCBignum shows that the conclusion fails too.

**EventLedger_proofs** proves `ImplementsLedger`. The ledger's requests are the rows
that the bodies would become (`RowOf`), its phases are those of `PhaseOf`, its
ledger is the table. Statements between arrival and verdict are stutters; a COMMIT
appends; each verdict is justified by the table at the moment it is reached, and the
facts that make it so are those of `IInv` and `AnswersInv` (`NextRefines`).

**Producer_proofs**, for any catalogue, queue, number of workers and events, and any
retry limit: `NothingRefused`, `ReplayIsDuplicate`, `LedgerBalances`,
`EachEventOnce`. The invariant says that an event is in one place (`PlacedOnce`:
the hand of the traffic loop, one place of the queue, one worker, or one fate), that
a refund was made of an acknowledged sale and within what the local ledger had left
(`MadeOK`), and that what is recorded is what was made (`ServedOK`). The backend's
limits follow: the refunds recorded are some of the refunds made and not given up,
and a part sums to no more than the whole. That step needs an empty `failed`, which
is where unlimited retries come in; with a limit it is MCOverbooking. Of the
backend's requests nobody waits for, the proof uses only that they are of events
that were made.

**Connectivity_proofs**, for all times, skews and numbers of requests. `Beating`
bounds the age of `last_seen_at` at each place of the heartbeat loop: each miss adds
one interval and one timeout, and a stale event can take back no more than a
transaction and the skew. It implies `OnlineWhileBeating`. `PageFresh` bounds how
long a store was silent that the page shows online, with `AnswerFresh` for the
answer on its way and `FetchFresh` for why no request is older than the last poll
unless another follows. `SilenceIsShown` has the hypothesis `Lag <= Threshold`:
nothing in the code bounds a transaction, and one that is longer puts
`last_seen_at` back by more than the threshold while the page still shows an answer
from before.

**Dashboard_proofs**, for any number of sockets, writers, requests and changes: the
page has one request in flight (`OneRequest`), one socket (`SingleSocket`), nothing
left once it is unmounted (`Quiet`), and never shows an older state after a newer one
(`Monotone`). `IInv` adds what these rest on: `FetchOK`, the request in flight is the
only one, and what it read lies between what is shown and what is committed;
`SocketOK`, only the current socket has a link, a closed socket has none, and an
unmounted page's socket is closed. `Monotone` follows from `FetchOK`: with a second
request in flight the older answer could come last. `TellsOnce` (`TellingInv`) is
about `ConnectionManager`: the messages a socket has not read, and the handlers that
have still to tell it of their change, are together no more than the changes: a
snapshot names a socket once, and a socket that is dialled again starts with no
mail. `DashboardTypes` needs both invariants.

**SmokeHarness_proofs**, for any set of simulators: `CleanupIsUndisturbed`
(`WritersBarred`) and `PassingRunsAreClean` (`PassIsClean`). The invariant is what
the harness knows in each step: `SimulatorsStopped` when it stops the backend,
`LastWords` (without a backend only a COMMIT that was sent is left of a request),
`Unattended` (its own transaction has waited for these), and `StaysQuiet` from the
restart of the backend on, as long as nothing failed: nobody is left to send a
request.

The assumptions are the modules' `ASSUME`s: finite sets of handlers, workers, events
and sockets, sentinels that are not values, bodies of the schema's shape, positive
prices, times that are numbers, an answer to the page within a polling period. TLC
evaluates them in every run.

Only model-checked: the liveness properties (`FirstAnswered`,
`EveryRequestAnswered`, `EveryEventSettled`, `RefreshCatchesUp`, `Pushed`,
`BroadcastEnds`, `Converges`, `HarnessEnds`), which need fairness and so ENABLED,
that the prover does not have; that `Total` is the fold over a function's values,
which would need an induction over data; and the four violations, which are
counterexamples.

## 6. Not modelled

* String lengths, UUID and date parsing: they only turn a request into a 422.
* `dispose_engine` against requests. `get_engine` and `get_session_factory` have no
  `await` and run as one step of the event loop; `dispose_engine` is called by the
  lifespan of the application, which uvicorn ends after it has ended its requests.
* The length of the reconnect delay and of the retry delays (except that the latter
  overflow), statistics that are only logged, late `occurred_at`.
* Parsing of the simulator's environment variables, once at start. What `validate`
  ensures is assumed of the constants. It does not relate `HEARTBEAT_INTERVAL` to
  the backend's threshold: a store whose gap exceeds it may be shown offline
  between heartbeats, which is why `OnlineWhileBeating` has a condition.
* Migrations and seed, which end before the backend starts: the tables they leave
  are the constants `Stores` and `Products`.
* Settings, health endpoints, scripts and CI, formatting and layout, the text of
  SQL and of logs.

## 7. Plan

Done: ingestion and its ledger, the simulator, realtime with the dashboard,
connectivity, the harness, and the proofs of section 5. Next, in this order:

1. More of what the ledger promises: that the simulator's backend, which serves a
   request in one step, is one `EventLedger` allows.
2. Action properties: what a step may never do to a sale's reservation, to the
   order of the queue, to `last_seen_at`.
3. The liveness arguments, as far as they are safety: `NoDeadlock` is the part of
   `EveryRequestAnswered` that is; the bounded queue and the cleanup's waits for
   locks have such parts too.
