# A TLA+ model of the crypto auto trader

The service receives trading signals from TradingView over a webhook, records
each as a row of the `trades` table, sends one market order for it to the
Binance testnet from an in-process queue, and writes down what became of the
order. Everything that is hard about it lies between those steps: the process
may die, the database may refuse or lose an answer, the exchange may act on a
request whose response never arrives, the same signal may arrive again, and a
reconciliation job may look at a trade while somebody is still sending it.

This directory models that part of the program, checks it with TLC on small
instances, and proves all of its safety with TLAPS, for every instance.

## The system

| Part | State | Operations | Talks to |
| --- | --- | --- | --- |
| Webhook (`api/routes/webhook.py`) | none | authenticate, hand the signal on | trading service |
| Trading service (`services/trading_service.py`) | the request's or worker's session, a cached owner id per process | validate, resolve owner, insert `PENDING`, claim, submit, record success, refusal or doubt | database, Binance client, executor, reconciliation |
| Binance client (`services/binance_service.py`) | a connection pool | `place_market_order`, `get_order`; every failure becomes one of five error classes | exchange |
| Executor (`services/execution_queue.py`, `main.py`) | a bounded queue of trade ids, worker tasks, one queue per process | `start`, `resume_pending`, `submit`, `_worker`, `stop` | trading service |
| Reconciliation (`services/reconciliation_service.py`, `scripts/reconcile.py`, `POST /trades/{id}/reconcile`) | a session with copies of rows | find trades in flight, ask the exchange, write the answer | database, Binance client |
| Database (`db/`, `alembic/`) | `users`, `trades` | commits; unique indexes on `signal_id`, `client_order_id`, `email`; a foreign key that cascades | everybody |
| Sessions and pool (`db/database.py`, `dependencies/services.py`) | connections checked out, one session per request or item | take a connection at the first statement, give it back at a commit or on the way out | everybody who talks to the database |
| Accounts (`services/auth_service.py`, `core/security.py`, `dependencies/auth.py`) | `users`; tokens that clients hold | register, login, check a token | database |
| Trades API (`api/routes/trades.py`, `routes/auth.py`) | none | list, get, reconcile, who am I | trading service |
| Payload and numbers (`schemas/webhook.py`, `core/numbers.py`) | none | validate a quantity, render one | webhook, Binance client, API |
| Configuration, errors, logging, middleware, health | constants | none that write | |

What is hard, and the property each part owes:

* *Submission.* Several workers, requests or processes may hold one id. One of
  them sends, after the row says so (`OneOrderPerSignal`, `WriteAhead`).
* *Outcomes.* A row that has settled tells the truth about its order, whole and
  for good (`SettledMatchesExchange`, `MirrorNeverAhead`, `TerminalIsFinal`). However
  runs and submitters overlap, no row claims more than the exchange has done
  (`NeverAheadOfExchange`).
* *Recovery.* No trade stays in doubt for ever (`DoubtEnds`), no committed trade
  is forgotten (`EveryTradeGoesOut`).
* *The queue.* Its count of unfinished work is right on every path, so a stop
  that drained has drained (`UnfinishedCounts`, `DrainedMeansDone`).
* *Intake.* One acceptance per signal, and what callers are told is true
  (`AcceptedOnce`, `RepliesAreTrue`, `RegistrationsAreTrue`).
* *Reading.* Nobody is served on a stale right, sees another's trades or misses
  one between two pages (`LateNeverServed`, `OnlyOwnTrades`, `WalkMissesNothing`,
  `TotalNotAhead`).
* *Amounts.* The order asks for what the signal said, digit for digit, as far as
  the JSON parser has kept the digits (`SentAsAsked`, `OneRendering`,
  `AcceptedFits`).
* *Connections.* None is lost and nobody waits in a circle (`NothingLeaks`,
  `EveryoneServed`, `RecordsWithoutWaiting`).
* *The whole.* What the webhook has accepted is concluded
  (`EverySignalConcluded`).

## Modules

```
TradeModel            rows, statuses, the ORM's write-back      (db/models.py, database.py)
  BinanceClient       one HTTP attempt -> one outcome           (binance_service.py)
    Exchange          the wire and the order book               (external)
      TradingService  insert, claim, submit, record             (trading_service.py)
        Reconciliation            the job and the endpoint      (reconciliation_service.py)
          TradingSystem           composed with TradeExecutor   (all of the above)
SignalLedger          the promise TradingService implements
TradeExecutor         queue, workers, lifespan                  (execution_queue.py, main.py)
SignalIntake          deliveries, owner cache, registration     (webhook.py, auth_service.py)
TradesApi             login, tokens, reads and pages            (auth_service.py, routes/trades.py)
OrderQuantity         a quantity from the body to the order     (webhook.py, numbers.py)
ConnectionPool        sessions and the engine's pool            (database.py)
MC*                   small instances

ReconciliationProofs          the service on its own, then with reconciliation at any time
  SettlementProofs            under a discipline, and what is left without it
    TradingSystemProofs       the composition; instantiates TradeExecutorProofs
TradeExecutorProofs, SignalIntakeProofs, TradesApiProofs, OrderQuantityProofs,
ConnectionPoolProofs
```

**TradeModel.** A row keeps the columns some control flow or property reads. A
timestamp is whether it is set, an error code is its class, the quantities a
fill reports are one number of units. `Flush` is how a SQLAlchemy session with
`expire_on_commit=False` and no version column commits an object: only the
columns that differ from the loaded value are written.

**BinanceClient.** Pure functions. `request` and `handle_response` classify an
attempt in the order of the code; `place_market_order` and `get_order` are what
callers see, the synthetic result of a dry run included.

**Exchange.** The environment. A `POST` is on the wire (`open` while somebody
waits, `orphan` afterwards), is executed or refused, and its answer arrives, is
replaced by a gateway's 503, or is lost. `LateArrival` says whether an order may
still be created after the client has stopped waiting. With the defaults
(`recvWindow` 5 s, timeout 10 s) a timeout alone cannot do that, because the
exchange refuses what is older than the window; a gateway that answers 5xx early
can (`Stall`), and so can a timeout configured below the window. Orders never
take the status `PENDING_CANCEL` in the configurations: the exchange documents
it as unused, and the status map treats it as final while the order is live.

**TradingService.** `db` is the table, `sub[w]` the session of a submitter: an
executor worker, or a webhook request in inline mode. Which id reaches which
submitter is left open, so whatever a queue may do is included. An action spans
the code from one answer of the database or the exchange to the next call.

| Action | Code |
| --- | --- |
| `create_pending_trade` | the INSERT of `_create_pending_trade` |
| `claim_for_submission` | the conditional UPDATE; its commit may be applied and still raise |
| `submit_to_binance` | loading the row and sending the POST |
| `finalise_success`, `finalise_failure` | the three error classes and success, with a commit that may raise |
| `handle_uncertain_outcome`, `ask_at_once`, `record_answer` | `UNKNOWN`, the immediate query, the write of its answer |
| `Abandon` | a kill, a cancellation or an exception at any await |

After a failed commit the code rolls back, which expires the object, and then
formats log lines from it; that access can itself raise. Either way the session
ends with the row unchanged, which is what `Commit` says.

**Reconciliation.** `rec[r].todo` holds the copies a run has loaded, which nothing
refreshes. The job takes the oldest `Limit` rows in flight below a cutoff; the age
of a row grows with its primary key, so the cutoff is a key. The endpoint takes
any row; whose row it is does not matter here. `AfterSubmitters` and `OneAtATime`
describe a discipline the code does not enforce; the runs that set them say so.

**TradeExecutor.** Several processes over one database, because a deployment
overlaps the old and the new one. Of a trade only absent, unsent or claimed is
kept. `crash` is possible everywhere, `start` may find the database down, in
which case nothing is resumed.

**SignalIntake.** Deliveries of signals and registrations of the owner's account,
each split at its database calls; `cache[p]` is `_owner_user_id`. Deliveries have
passed the secret and the validation, which write nothing. Client order ids are
left to `TradingService`; here two signals have different ones. `delete_account`
stands for a row of `users` deleted in the database, which the schema's cascade
provides for and no endpoint does; `deleted` remembers it, because the replies
are only promised to be true while the cached owner exists (`StaleOwner`).
`TradesHaveOwner` holds regardless.

**SignalLedger.** The promise, per signal: unseen, recorded, submitted; at most
one order, which appears only after submission and before a verdict; one verdict,
which agrees with the order and is never changed. `TradingService` implements it
by the mapping at the end of that module (`ImplementsLedger`).

**TradingSystem.** The composition: every worker of every process is a submitter
of `TradingService` with at most one session. The parts share the table, and each
action that touches it is a joint step: `claim` is the service's conditional
UPDATE and what the executor makes of its result, `submit` the service's steps
with the item ending when the session does, `crash` ends a process's sessions,
cuts its requests and empties its queue at once. `trade` of the executor is a
function of the table (`StageOfRow`), so `ImplementsExecutor` says that neither
the service nor reconciliation does anything to a row that the executor's own
specification does not reckon with. Reconciliation keeps its discipline here
(`AfterSubmitters`, `OneAtATime`), because without it signals are not concluded
(`UnsentFailed`).

**TradesApi.** Each request is split at its statements: login reads the account,
then hashes for a quarter of a second, then looks at the copy's `is_active`; a
protected request checks the token, reads the account, and runs the route's
queries. Between any two, the clock ticks, accounts are registered, deactivated
or deleted and trades appear. Deactivation and deletion are an operator's SQL;
the schema provides for both. A client pages with a limit, starting again after
a short page. `Request.late`, `Token.email` and `Walk` are history: what was true
when the request arrived, whom the client logged in as, what it was shown.
`Pages` allows each page the `ORDER BY` does, so that an order with ties shows.

**OrderQuantity.** A `Decimal` is a coefficient and an exponent, because the schema
counts written places and `normalize`, `format` and `rstrip` work on them; a
rendered number is its digits and how many follow the point. A body may write the
quantity as a JSON string, from which the Decimal is made as it stands, as an
integer, which is exact too, or as a number with a point or an exponent, as the
schema's example and the repository's README do. That one FastAPI's parser turns
into a float, and the Decimal is made of what `repr` shows of the float (`Parsed`).
The way through the float is the parameter `Repr`, and all that is assumed of it is
what holds of doubles: a numeral of at most `FloatDigits` digits (15) that comes out
as a valid quantity comes out with its value. Longer ones may come out as anything,
and the places the schema counts are those of the result: written zeros count in a
string and are gone from a number. The configured limits are floats as well; here
they are finite and stand for what `str` shows of them. The webhook's answer
may be made from the payload's own object or from the row read back, depending on
the execution mode; the order and the API always use the row.

**ConnectionPool.** A handler is a sequence of steps of which only the kind is
kept (statement, commit, order sent, something else awaited, a place where the
code may return), for each path
through the code, together with the part of the request that runs it. `get_db` is
resolved once per request, so authentication and the service share a session.
What a session does with its connection is SQLAlchemy's behaviour and marked
external. A wait that times out is one of the errors of `raise`.

## Runs

| Run | Instance | Shows |
| --- | --- | --- |
| `Reconciliation` | 2 signals, 2 trades, 2 submitters, 1 run over both trades, quantity 2, five order statuses, no late arrival, with the discipline | the whole promise of the service and the job, with every crash and failing commit |
| `AnyTime` | 1 trade, 1 submitter, 2 runs, orders that are new and filled later or at once, late arrivals, no discipline, fairness | what holds regardless; a sent trade leaves doubt for good |
| `TradeExecutor` | 2 processes with 2 workers, 2 trades, queue of 1, one process restarted, fairness | accounting, drain, one submitter, every trade claimed in the end |
| `SignalIntake` | 3 deliveries, 2 signals, 2 processes, 2 registrations, an account that may be deleted | replies are true, no orphaned trade |
| `TradesApi` | 1 client, 2 accounts, 2 addresses, 3 trades, pages of 1, 2 instants, tokens that live for one | no stale right, no foreign trade, no gap between pages |
| `OrderQuantity` | `NUMERIC(4, 2)`, 103 values written in up to 3 ways, floats of 8 bits that keep 2 digits, 3 configurations of the limits | the order is what was asked for, rendered in one way |
| `ConnectionPool` | 3 tasks with any handlers, 2 connections, fairness | no leak, no cycle, no wait between an order and its record |
| `TradingSystem` | 2 processes with 1 worker, 1 signal, 1 reconciliation run, one process restarted, fairness | the parts fit, nothing is sent twice, and a recorded signal is concluded |

The bounds are small and the interesting cases fit: a race needs two actors on one
trade, interference between trades needs two trades, a mixed row needs two
reports with a live order between them (quantity 3: two different partial fills
and the end), a duplicate race with a retry needs three deliveries, a backlog
needs more trades than the queue has places. Rows that appear before, inside and
after the part of a list already shown need three trades and pages of one; whose
token a reused address leaves needs two accounts; two instants give ties and
differences. A circle of waiting tasks needs two and as many connections, a third
task overtakes. The column, the context and the float are to each other as in the
code: a float keeps fewer digits than the column has. `BinaryRepr` of
`MCOrderQuantity` is a real binary float with a real shortest `repr`, only smaller,
so TLC also evaluates the assumption on `Repr` for every value. The composition has
one trade, because the interference between trades is covered in the parts; what is
new there needs a session, an item and a process that dies under both. `posts` needs no bound, because it never passes
one; the database sequences are bounded by the number of requests.

`TradingSystem` knows the order status `FILLED` only and `AnyTime` `NEW` and
`FILLED`, to keep the liveness checks small; further statuses add reports, which
`Reconciliation` and `MixedRow` have. A second submitter in `AnyTime` would add
nothing but lost claims, since a trade is claimed once; two that race are in
`Reconciliation`. One of its invariants, `IInv`, contains `OneOrderPerSignal`.

Deadlock is checked where the system can always restart, in `SignalIntake` and
`TradeExecutor`. In the other models there is nothing left to do once all trades
are settled, the bounds are used up or the one quantity is listed.

### Where code and documentation part

| Run | Statement | What happens |
| --- | --- | --- |
| `UnsentFailed` | a trade the queue did not take "stays PENDING and will be submitted by the next resume/reconcile run" (`execution_queue.py:139`) | the reconcile run selects it, the exchange knows no such order, and the trade is FAILED without having been sent |
| `FailedWithOrder` | FAILED: "we know for certain no order exists" (`models.py:67`); reconciling is "safe to call at any time" (`routes/trades.py:93`) | a query that overtakes the submission writes FAILED; the submitter's own outcome is then lost in a crash |
| `MixedRow` | "running it twice is harmless" (`scripts/reconcile.py:10`) | two runs with different answers leave columns of both in one row |
| `StaleOwner` | 409 is for "a signal_id we have already processed" (`exceptions.py:93`) | a cached owner id whose account is gone turns every signal into a duplicate |

The first two need nothing but an unlucky order of steps; the age filter of the
job looks at `created_at`, so it does not protect a trade that waited in the
queue. `FailedWithOrder` is why `AfterSubmitters` exists, `MixedRow` why
`OneAtATime` does. With both disciplines, and no order created after the client
has given up, the `Reconciliation` run shows that nothing else is wrong.

More are in the model without a run of their own. Terminal statuses "never change
again" (`PROJECT_IMPLEMENTATION_NOTES.md:797`), but a submitter whose request has
timed out writes UNKNOWN over a row that reconciliation has meanwhile made FILLED:
without `AfterSubmitters`, `TerminalIsFinal` fails too. With `LateArrival` the
query right after a 5xx (`trading_service.py:514`) can find no order and close as
FAILED a trade whose delayed request then creates one, without any
reconciliation; -2013 is not "the definitive proof that a submission never
landed" (`binance_service.py:450`) until the request can no longer arrive.
"An order quantity must survive the round trip unchanged" (`schemas/webhook.py:56`),
and "at most 12 decimal places" are supported (line 115), but a JSON number with more
digits than a float keeps is changed before anything looks at it:
0.10000000000000000001 is accepted and ordered as 0.1, 123456.123456789012 as
123456.123456789. Without `Kept`, `SentAsAsked` fails. With the default maximum of 1
it takes a number of more places than the schema means to allow.
`resume_pending` reads as many ids as the queue holds, once per start, where
`execution_queue.py:24` says that startup "re-enqueues everything that was never
sent"; `EveryTradeGoesOut` shows that further restarts make up for it.
`total` is described as the "total trades owned by the caller"
(`schemas/trade.py:64`) and counts those of the filtered status. And
`/health/ready` reports PostgreSQL as down (`routes/health.py:46`) whenever its own
statement gets no connection, a pool that busy handlers have emptied included.

## Fairness

* Requests end: the client has a timeout (`RequestsEnd`, weak).
* A worker that holds a trade goes on or its session ends (`WorkersProceed`, weak).
* The job runs again and again, and now and then a query is answered and a
  commit succeeds (`JobKeepsRunning`, `RunsSucceed`, strong, because any one try
  may fail). The job is scheduled outside the program; the README of the
  repository asks for it.
* One process is restarted now and then and finds the database up now and then;
  starting, taking an id and claiming succeed now and then although a crash may
  cut any try short (`Fairness` of `TradeExecutor`, over `Restarted`). Nothing is
  assumed of other processes. Without a restart a trade the full queue has
  dropped waits for ever, so that part cannot be weakened.
* A task that waits for a connection may be overtaken, since asyncio's waiters are
  not served before newcomers, but not for ever (strong); statements, the password
  hash and the exchange's client come back, the last because of its timeout (weak).
  Giving up after the pool's timeout is possible and never assumed
  (`PoolFairness`).
* `SystemFairness` is the above, said of the joint actions.

`DoubtEnds` is checked with a limit no smaller than the number of trades. With
more live orders than the limit the oldest fill every batch, and younger trades
wait for as long as those orders live.

## Proofs

Every safety property the passing runs check is proved for every value of the
constants. Each row of the table has one inductive invariant; the other theorems
follow from it.

| Module | Invariant | Proved of every reachable state or step |
| --- | --- | --- |
| `ReconciliationProofs` | `IInv` | of `Spec`: `TypeOK`, `OneOrderPerSignal`, `WriteAhead` |
| | `RIInv` | of `RSpec`: the same, `RTypeOK`, `RefusalMeansNoOrder` |
| `SettlementProofs` | `SInv` | `SettledMatchesExchange`, `MirrorNeverAhead`, `TerminalIsFinal`, `ImplementsLedger` |
| | `NInv` | `NeverAheadOfExchange` |
| `TradeExecutorProofs` | `EIInv` | `ETypeOK`, `UnfinishedCounts`, `DrainedMeansDone`, `OneSubmitter` |
| `TradingSystemProofs` | `TInv` | `SystemTypeOK`, `DrainedMeansNothingSent`, `ImplementsExecutor`; and of the whole system again: `OneOrderPerSignal`, `WriteAhead`, `RefusalMeansNoOrder`, with `SInv` the row of it, and with `NInv` `NeverAheadOfExchange` |
| `SignalIntakeProofs` | `IntakeInv` | `IntakeTypeOK`, `AcceptedOnce`, `RepliesAreTrue`, `RegistrationsAreTrue`, `TradesHaveOwner` |
| `TradesApiProofs` | `ApiInv` | `ApiTypeOK`, `LateNeverServed`, `OnlyOwnTrades`, `WalkMissesNothing`, `TotalNotAhead` |
| `OrderQuantityProofs` | `QuantityInv` | `QuantityTypeOK`, `SentAsAsked`, `OneRendering`, `AcceptedFits` |
| `ConnectionPoolProofs` | `PoolInv` | `PoolTypeOK`, `NothingLeaks`, `RecordsWithoutWaiting` |

The assumptions are the named `ASSUME`s of the modules: keys are numbers, tables and
sets of workers are finite, a queue, a page and a pool have room for one, a digest
exists for each signal (not necessarily a different one), NULL and the mark of a
deleted row are none of the other values, switches are Booleans, and in the
composition a submitter is a worker of a process. Of decimals it is assumed that the
column's digits fit the context that `normalize` rounds to and the bound on zeros:
the code has `NUMERIC(28, 12)` and Python's default of 28 digits, the least that
will do. Of floats it is assumed that they keep numerals of up to `FloatDigits`
digits (`ReprAssumption`). Two groups of theorems assume more, and say so in their
statement:

* What follows from `SInv`, in `SettlementProofs` and of the whole system
  (`SystemDiscipline`, `SettledEndToEnd`, `FinalEndToEnd`, `LedgerEndToEnd`), assumes
  `Discipline`: reconciliation keeps off trades that are
  being sent, no trade is in two runs, no order is created after its client has
  given up, and the exchange does not use `PENDING_CANCEL`. None of it is enforced by
  the code, and none can be dropped: `FailedWithOrder` and `MixedRow` are what happens
  without the first two, the section above says what the third is needed for, and
  `PENDING_CANCEL` is a live status that the code takes for a final one. The
  refinement of `SignalLedger` also needs orders to be real (`~DryRun`): a dry run
  settles signals for which there is no order.
* `ExecutorIsImplemented` assumes the first of these, because a run that takes an
  unsent trade for FAILED takes it from the queue (`UnsentFailed`).

Everything else holds with reconciliation at any time, late orders, dry runs, and
signals whose digests collide: then the index on `client_order_id` keeps the second
signal from ever being recorded, hence from being sent.

**The service.** "At most one POST" is not inductive: a claimed session about to send
must not have been preceded by another. `IInv` adds what makes it so:

* `SessionsHoldRows`: a session under way holds a row whose `submitted_at` is set,
  and once it has sent, its object carries that row's client order id;
* `OneHolder`: no two sessions hold the same trade;
* `UniqueCids`: no two rows share a client order id;
* `SentIsClaimed`: nothing was sent for a row that is not claimed, nor for one
  that is claimed and not yet sent.

Most steps neither insert, claim nor send: they keep keys and `submitted_at`
(`SameKeys`), put nothing new on the wire (`NoNewRequest`), and end sessions or go
on with the trade they hold (`SessionsGoOn`). One lemma,
`KeepingKeysPreservesIInv`, covers them all, and the lemmas per action only show
that they are such steps. Three actions need an argument of their own. An insert:
its order id was never sent, because by `WriteAhead` a row with that id would
exist and the index would have refused the new one. A claim: no session holds the
row, because such a row would say it was submitted. A send: no other row and no
other session shares the order id.

**Reconciliation at any time.** A run's write is a step of the same kind, since the
columns it flushes are none of the keys (`RunsHoldRows`). That a recorded refusal
stays true needs more: nothing is known of an order id before its POST
(`QuietBeforePost`), a refusal on its way is true (`RefusedReplies`), and one in a
row is true and its only POST lies in the past (`RefusedRows`). By
`OneOrderPerSignal` there is no second POST that could make it false.

**Settlement.** `SInv` says that memory and table agree: the object of a session and
of a run is the row as it stands (`SessionsRight`, `RunsRight`), an answer waiting
to be read was really given and its request is over (`RepliesRight`), and what a
row says of its order was reported of it (`RowsRight`; `Reported` allows the order
to have moved on). With that, a flush writes a whole report and never an old one
over a newer. The refinement is proved signal by signal: by `UniqueSignals` a step
on one row is a step of one entry of the ledger, and the exchange's own steps are
its order appearing.

**Without the discipline.** Objects are of any age, so none need be the row as it
stands, and rows may be mixed (`MixedRow`) or settled too early (`FailedWithOrder`).
What survives is that every column errs on one side only. `NInv` says it of each
object in the system, of rows, of the copies of sessions and runs and of the answers
they hold: an order it names exists, no more is recorded as executed than was, and
what it calls filled or expired is (`Truthful`). Each of these is about one column
and stays true as the book moves on (`TruthStays`), so a commit that takes some
columns from the object and leaves others to the row cannot break them (`FlushTrue`),
whatever their ages. `CANCELLED` is left out because of `PENDING_CANCEL`. `REJECTED`
and `FAILED` are the program's own verdicts as well, and `FailedWithOrder` shows that
the second may be false.

**The executor.** The count is the length of the queue plus the busy workers, the
latter a cardinality. A start, an offer, a get, the end of an item, a cancellation
and a crash each change both sides alike; a queue within its bound
(`QueueBounded`) is what lets `Offer` be counted. `SubmittingIsClaimed` and a claim
that is never taken back give one submitter.

**The composition.** A step is one of `Reconciliation` (or a crash, which only ends
sessions and cuts requests) and one of `TradeExecutor` on the table seen through
`StageOfRow`; the lemmas of both are used as they are, the second through an
instance of its proofs. What is new is `ItemRight`, that a session is a worker's
item from its claim to its end, and `LoadedIsSent`. For `SInv` and `NInv` only the
crash is new: it ends several sessions in one step, and by `OneHolder` and
`UniqueCids` cuts no request of another process.

**Intake.** `CacheRight` (a cached id is the account's), `DeliveryRight` (what each
delivery knows between two calls is still so) and `OneWinner` (one delivery at most
committed the row of a signal). All but `TradesHaveOwner` are promised while the
account is not deleted.

**The API.** `TokenRight` says that a token stands for an account that was once there
and keeps its address; with keys never used again and trades that go with their
account (`OwnersExist`), what was the client's own is so still or is gone
(`ShownRight`). The walk needs the argument that offset paging invites: a trade of
the start that was not shown yet has at least `offset` trades before it
(`WalkRight`). Inserts only add to those, deletions take the whole list, and
`PageOfList` shows that a page either contains the trade or is full and lies before
it, which rests on the order having no ties (`OrderIsTotal`).

**The quantity.** That the Decimal has the value written in the body is the assumption
on `Repr` (`ParsedKeeps`), and holds of nothing it does not speak of. From there on
nothing is lost. `RenderingExact` is the centre: every quantity the schema lets through
and the column holds is m times a power of ten with m not divisible by ten, in one
way (`SplitExists`); `normalize` finds m and the exponent (`ZerosSplit`,
`NormalizeSplit`) from the payload's Decimal as from the padded one of the column,
which has rounded nothing away (`ColumnExact`), and writing both out plainly gives
the same numeral (`FormatSplit`). The powers of ten are a recursive function;
that it is one, and its laws, are shown by taking the least number for which they
fail (`LeastNumber`).

**The pool.** `Framed` describes the steps a task has left: an order is sent right
after a statement and recorded right after. It holds of every handler and survives
every step, and with it goes the connection from that statement to the record.

Only model-checked:

* liveness (`DoubtEnds`, `EveryTradeGoesOut`, `EverySignalConcluded`,
  `EveryoneServed`), which is out of the prover's reach;
* what the four runs that end in a violation refute.

## Not modelled

The validators of the configuration and its testnet gate, which can only keep a
process from starting; the patterns for `signal_id`, `symbol` and addresses; the
signature of a token and the secrecy of hashes; error envelopes, middleware,
logging and the developer's scripts, which keep no state the trades depend on.
Of the health probes only the statement that competes for a connection is there.
`binance_order_id` is always written with `binance_status` and is left out with the
other columns nothing reads. The status filter of `GET /trades` is left out: a
status may change between two pages, and then neither the filtered list nor its
count promises anything.

## Plan

What remains open:

1. Liveness beyond the instances of the runs, and with a backlog larger than the
   job's limit, which needs a bound on how long orders stay live.
2. `TerminalIsFinal` and the refinement of `SignalLedger` with less than the whole
   discipline. In the code that would take a claim by the job, or a version column.
