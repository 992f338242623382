# TLA+ verification of adortb-billing

This directory holds a formal model of the billing service: TLA+ modules translated from its Go and
SQL source, TLC configurations that check them on small instances, and proofs, checked by TLAPS, that
hold for every instance. `PROJECT.json` is the machine-readable index: components, runs, mutants
(plausible bugs each property must catch), the map from definitions to source lines, findings,
hazards and theorems. Paths below are relative to the repository root.

## 1. The system

The service charges advertisers for ad events, credits publishers, and approves withdrawals.

| component | source | state | operations |
|---|---|---|---|
| advertiser repository | `internal/repo/advertiser.go` | tables `advertiser_accounts`, `balance_transactions` | `GetOrCreate`, `Recharge`, `SpendAtomic` (transactions), reads |
| advertiser service | `internal/advertiser_billing/service.go` | a Redis hash per advertiser with a hot balance | `Recharge`, `SpendForEvent`, `SpendAtomicPG`, `GetAccount` |
| publisher repository and service | `internal/repo/publisher.go`, `internal/publisher_billing/service.go` | tables `publisher_accounts`, `withdraw_requests`, the journal | `AddRevenue`, `CreateWithdrawRequest` (transactions), `ApproveWithdraw`, `SettlePending`, `GetOrCreate` (one statement each), reads |
| platform fees, daily settlements | `internal/platform/service.go`, `internal/repo/platform.go` | a row of `platform_configs`; table `daily_settlements` | `CalcFees`, `GetFeeRate`; `UpsertDailySettlement` (no caller), `GetDailySummary` |
| event consumer | `internal/consumer/event.go` | offsets and sessions, in Kafka and sarama | `Start`, `ConsumeClaim`, the event handlers |
| settlement job | `internal/platform/settlement_job.go` | a timer | `Start`, `nextRunTime`, `run` (an extension point that logs its date) |
| pacing | `internal/pacing/*.go` | campaign states in 32 locked shards, a traffic curve | `SetBudget`, `SetSpent`, `AddSpend`, `FactorAt`, `Learn` |
| HTTP API | `internal/api/handler.go` | none | decodes, refuses non-positive amounts, forwards |
| process | `cmd/billing/main.go` | the listener, the stores' connections, the background context | start, signal, drain, close |
| connection pool | `internal/repo/db.go` | at most 30 connections | one for each statement or transaction |
| mock, metrics, tracing, tenants | `internal/repo/mock_advertiser.go`, ... | none of interest | |

How they interact: HTTP handlers and the consumer call the services; the advertiser service calls its
repository and Redis; the consumer calls the advertiser service, then the fee calculation, then the
publisher service, and marks the Kafka message whatever happened. PostgreSQL, Redis and Kafka are
shared by all instances of the service. Pacing is reached from HTTP only; nothing feeds it spends.
`main` starts the listener, the consumer and the settlement timer, and on a signal cancels the last two,
drains the first, and closes the stores. Several instances of the service may run at once; nothing but the
stores relates them.

What is hard here: transactions of several statements interleaving on one row; errors and cancelled
contexts between statements; a `COMMIT` that succeeds without saying so; two stores of one balance
with no transaction over both; Redis commands repeated by the client library; consumer sessions that
end, lose their partition or crash between a charge and a credit; amounts finer than the columns; a
pacing handler that updates and reads under several locks one after the other; a pool of connections
that fills up with calls waiting for a lock; a unique key over columns that may be NULL; a timer armed
from one clock and counted by another; a shutdown with requests in flight.

What makes each component correct:

* advertiser repository: calls are atomic, nobody is overdrawn, money is conserved, the journal
  explains every balance, callers are told the truth, every call ends;
* advertiser service: the cache never holds more than was paid in, what Redis debits is bounded by
  what was written to it, a spend is charged once;
* publisher side: calls are atomic, revenue only moves between columns, withdrawals are covered and
  on file, a request is approved once, every call ends;
* platform: fee and net revenue add up to the price, the daily summary shows the last figure of each
  settlement, and reporting one again changes nothing;
* consumer: credits follow charges, no event is passed over unread, every event is passed in the end;
* consumer, fees, Redis and both journals together: what a publisher is credited for an event was charged
  for it before, in a spend row or in the cache, and the platform never pays out what it did not take
  in from one or the other. Not that the two journals agree: a charge Redis makes leaves no row in the
  advertiser's journal, so a revenue row may have no spend row (`billing_unrecorded`, below);
* process: an instance that is up leaves no day out, and settles none twice unless its clock is set back;
  the stores outlive the requests, a shutdown ends. Not that a day is settled once by the service: each
  instance runs the job;
* pacing: no update is lost, an answer is computed from a state and a plan that existed, the plan of a
  day ends with the whole budget, learning does not overshoot, every lock is given back.

## 2. Modules

| module | what it models | built on |
|---|---|---|
| `Decimal` | money: units of 0.0001, wire amounts in *grains* (`Grid` per unit), rounding | |
| `AdvertiserLedger` | abstract specification of the advertiser tables: each operation at one instant | `Decimal` |
| `AdvertiserAccount` | the same tables statement by statement, concurrent calls | `AdvertiserLedger` |
| `AdvertiserBilling` | the service: atomic ledger operations plus Redis commands | `AdvertiserLedger` |
| `PublisherLedger` | abstract specification of the publisher tables | `Decimal` |
| `PublisherAccount` | the same tables statement by statement, on the pool's connections | `PublisherLedger` |
| `PlatformFees` | `CalcFees` as operators | `Decimal` |
| `DailySettlements` | the configured rate and the table `daily_settlements` | `PlatformFees` |
| `EventFeed` | abstract specification of a consumer group on a partition: a cursor over finished events | |
| `EventConsumer` | the consumer group on one partition, session by session | `PlatformFees`, `EventFeed` (refined) |
| `BillingPipeline` | an event through the consumer, the script on Redis and its fallback, the fees and both ledgers | `EventConsumer`, instances of the two ledgers |
| `ServiceProcess` | instances of the service: `main`, the HTTP server and the settlement timer, over restarts | |
| `Pacing` | the traffic curve and the pacing factor as operators | |
| `PacingTracker` | the tracker's critical sections and the pacing handlers, concurrent calls, a clock | `Pacing` |
| `MC*` | amounts and prices for TLC | the module named |
| `AmountProofs` | lemmas about rounding, fees and sums over sets, for the other proofs | `PlatformFees` |
| `AdvertiserLedgerProofs`, `AdvertiserAccountProofs`, `AdvertiserBillingProofs`, `PublisherAccountProofs`, `BillingPipelineProofs`, `PacingTrackerProofs` | lemmas and theorems | the module named; `BillingPipelineProofs` also holds the consumer's |
| `PlatformProofs` | lemmas and theorems | `DailySettlements`, `ServiceProcess` |

### Money

A column is `DECIMAL(15,4)`: an integer number of units. An amount from a request or an event is a
`float64` that can fall between two units: an integer number of grains. `Stored` is the cast
PostgreSQL makes on assignment (nearest unit, halves away from zero), and `Grains` reads a column
back. With `Grid = 1` all amounts have at most four decimals; `Grid = 2` adds the halves, where
`balance - amount` and `total_spent + amount` both round up. Left out: the width of the column, the
error of `float64`, and the fourteen digits `tostring` keeps in the Lua script.

### Advertiser tables

`acct` is the account row, `ledger` the journal in id order. `AdvertiserLedger` has an action for
each call; `AdvertiserAccount` splits it at the statements: `Begin`/`Reject` (the amount check and
`BEGIN`), `RechargeUpsert` or `SpendSelect`, `SpendInsufficient`/`SpendUpdate`, `InsertEntry`,
`Commit`. A call keeps its version of the row in `row[c]` and shows it to others only at `COMMIT`;
`lock[a]` is the row lock, taken by writing statements and `FOR UPDATE` and released at the end of
the transaction (READ COMMITTED, what `BeginTx(ctx, nil)` gives). `Fail` is an error at any statement
followed by the deferred `Rollback`; `CommitUnacknowledged` commits and returns an error.

### Advertiser service

One PostgreSQL transaction is one step, because `AdvertiserAccount` implements `AdvertiserLedger`;
one Redis command (the script included) is one step. `useRedis` is whether the service was given a
client (`main.go` does, the tests do not). `Replied` is go-redis: a command whose reply is lost is
sent again, `MaxTries` times in all; the library's default is four, two already shows a repetition.
`Faults` selects failed transactions, failed commands, lost replies, lost keys and dying instances.
`taken`, `viaCache`, `synced` and `lost` are history: nothing in the code reads the first three.

### Publisher tables

As for the advertiser, with `requests` for `withdraw_requests` and the history `credited` (units
credited) and `rough` (calls whose amount fell between two units, the only ones that can round).
`SettlePending` has no caller, so it is called with any positive amount. `conns` is the pool:
`Connect` (`BeginTx`, or a single statement) waits for a free connection, and every end of a
transaction, `Release`, gives back the lock and the connection together. `WithdrawStatus` is the
answer `createWithdraw` maps a call's end to; that "not found" is a 500 is what the handler does.
The pool is modelled here and not for the advertiser, whose transactions use it in the same way.

### Platform

`config` is the value `GetFeeRate` finds: a rate, or none and the default applies. `settlements` is the
table in id order; `SameKey` is its unique constraint as PostgreSQL reads it, in which a NULL equals
nothing, so an upsert whose advertiser, publisher or campaign is NULL always inserts.
`UpsertDailySettlement` has no caller: it is called with any of a few settlements, in any order, again.

### Consumer

`log` is one partition; `owner`, `committed`, `fetched`, `marked` and the actions on them are Kafka
and sarama, modelled by how the code uses them. `Deliver`, `Charge`, `ChargeRefused`, `ChargeFails`,
`CalcFees`, `AddRevenue` and `Mark` are the steps of `ConsumeClaim` and `handleImpressionEvent`. A
session whose context is cancelled keeps reading its channel, every operation fails, and every
message is marked all the same. The stores appear only as results: success, refusal, error.

`EventFeed` is what a reader of the code expects of the group without knowing sessions, marks or
commits: a cursor that only moves forward, over events that somebody has finished with (`finished`), or
that were there before a group without any offset started at the end of the log (`missed`).
`ImplementsFeed` maps the committed offset to that cursor. "Finished" is a message marked after its
handler returned, whatever the handler returned: the code does not distinguish, see `consumer_exit`.

### Pipeline

`BillingPipeline` conjoins the steps of `EventConsumer` with the steps of `SpendForEvent`, as the service
`main.go` builds makes them, and with operations of the two ledgers. `redis` is the cached balance of the
advertiser. A charge is the script first: `LuaDebit` takes the price off the cache and nothing else, and
the event counts as charged; `LuaDeclined` is no key, too little, or an error, after which `ChargeStep`
goes to PostgreSQL, where the outcome is what the balance makes it (`Spend`, `Refused`), a failure with or
without its effect aside. A reply of the script may be lost and the script sent again (`left` counts the
attempts, `MaxTries` in all), or the call may turn to PostgreSQL after a debit it knows nothing of.
`debits` counts the debits of an event and `hidden` those whose reply was lost. `Recharge` happens once;
`Sync` writes its balance to Redis at any time after it, late, twice or never, and `Flush` loses the key.
Journal rows are named by the event's offset, the `ref_id` of the code. The publisher ledger is
instantiated with the columns that nothing else here writes. It is the only place where a property can
relate what the advertiser was charged to what the publisher was credited. A debit of the cache is exact
and revenue is rounded, so a sum of debits counts each as the unit it rounds to (`Paid`), up to half a unit
more than the cache lost.

### Process

Everything but `time`, which is monotonic and the same for all, is kept for each instance: a host on which
one process of the service runs after another. Processes of different hosts overlap as they please.
`Now(i)` is the wall clock that `nextRunTime` reads, `time` less the `setbacks` of the host; `timer` and
`drain` are the instants at which `time.After` fires and `Shutdown` gives up. A `Tick` advances all clocks,
`SetBack` puts one wall clock back a tick. A timer fires late by at most `MaxLag` ticks, which stands for
a busy machine. `main`, `server`, `stores` and `drain` are the steps of `main` from the signal to the
deferred closes, `request` the handlers in flight, one of which may hang; `stores` are the connections of
that process, closed by it alone. `ServerFails` is the listener's error, which is logged and leaves the
process without HTTP. `Run` asks nobody whether the date was done, as `run` does not. `runs` and `since`
are history.

### Pacing

`states`, `curve` and the locks are the tracker's and the curve's fields (`UpdatedAt`, which nothing
reads, is left out). A writing method is two steps, `LockShard` and the write that unlocks; `FactorAt`
is `ReadBudget`, `ReadSpent` and `ComputeFactor`; `Learn` and `Normalize` are the two halves of `Learn`.
`recalcPacing` is `SetBudget`, `SetSpent` and then the reading steps, `getPacing` the reading steps and
`ReadState`. Fractions are exact, a row of the curve being shares over one denominator; the hash that
spreads campaigns over shards is an arbitrary function. `target`, `mixed` and `saw` are history: the
state if each recalc were one instant, the campaigns whose recalcs overlapped, and what a reader could
have seen since it began. `AddSpend` and `Learn` are called by tests only; they are modelled as calls
the package offers.

## 3. Model checking

| run | instance | checks |
|---|---|---|
| `account` | 1 row, 3 calls, amounts -1 to 3 grains, `Grid = 2`; 215 000 states | `TypeOK`; `NeverOverdrawn`; `Conservation`; `JournalChain`; `OutcomeIsTruth`; `NoLostUpdate`; refinement of `LedgerSpec`; `CallsReturn` |
| `billing` | 1 advertiser, 3 calls, amounts 0 to 2, all faults, with and without Redis; 370 000 states up to symmetry of calls | `CacheBacked`; `CacheAccounted`; `ChargedOnce`; `SafeWithoutRedis` |
| `publisher` | 1 publisher, 3 calls, 2 reviewers, 2 connections, amounts -1 to 2, `Grid = 2`; 303 000 states | `TypeOK`; `RevenueConserved`; `NeverOverwithdrawn`; `WithdrawnIsRequested`; `NoLostUpdate`; `WithdrawOutcomeIsTruth`; `ApprovedOnce`; refinement of `PubLedgerSpec`; `PublisherCallsReturn` |
| `platform` | every price to 60 grains, `Grid = 4`, every rate to one with denominator to 12; 4 settlement keys, one of them with NULLs, 2 figures, 3 upserts; 38 000 states | `SplitIsExact`; `SummaryIsCurrent`; `RepeatsHarmless` |
| `consumer` | 2 members, 2 events, 2 sessions, all faults; 119 000 states | `CreditsFollowCharges`; `NothingSkipped`; `EventsConsumed`; refinement of `EventFeed` (`ImplementsFeed`) |
| `pipeline` | the same group, 1 advertiser, 1 publisher, 2 attempts at a script, all faults of Redis, one recharge of 8 grains, prices 0 and 5, a fee of a quarter, `Grid = 2`; 1.2 million states up to symmetry of members | `JournalsReconcile`; `PayoutsCovered` |
| `pacing` | 1 campaign, 3 calls, a day of 2 hours and the first hour of the next; 439 000 states up to symmetry of calls | `UpdatesApplied`; `AnswersJustified`; `PlanSpendsTheBudget`; `LearningConverges`; `LocksGivenBack`; `FactorRisesInTheDay`; no deadlock |
| `process` | 1 host, 3 days of 4 ticks, 2 processes, 1 request, a lag and a set-back of a tick each, a timeout of 2 ticks; 377 000 states | `NoDayLeftOut`; `SettledOncePerInstance`; `DrainedBeforeClosing`; `ShutdownCompletes` |

Why these bounds are enough. Rows of different accounts share nothing, so one account exercises every
interaction; the ledger proofs cover any number. Three calls make a reader, a writer and a third who
finds what they left: a recharge and two spends competing for it, or two recharges whose cache
updates cross and a spend between. An amount of one grain at `Grid = 2` is the half unit on which the
rounding differs. In the consumer, two sessions are a first one that ends in any way and a successor
that meets its leftovers, and two events are one to fail on and one behind it. In the tracker, three
calls are a reader and two writers, what it takes to see halves of two states; campaigns meet only in
waiting for a lock, and no call holds two locks, so one campaign shows every outcome. Two connections for
three publisher calls are a pool that the lock's holder and one waiter fill. In the pipeline, a
recharge of 8 pays for one event of 5, between two units, in each store, so the second event finds
one store too poor for it, or both. Three upserts are a settlement, its repetition, and
another between them. In the process, three days let a process see its timer
re-armed, and a second one start before, at or after 01:00; a run is never longer than a tick, as it
only logs. Instances share the passing of time and nothing else in `ServiceProcess`, and its properties are
about one of them, so one host is enough; the proofs are for any number. (Two hosts, with two days of
three ticks and without requests, are 6.6 million states up to symmetry, and agree on the dates.) Each property has a
mutant, a plausible bug in one definition, that TLC finds in the same instance, which shows the
instance is large enough for the property to bite.

### Where code and documentation disagree

| run | property | what happens |
|---|---|---|
| `billing_overspend` | `NeverOvercharged` | Recharge 1: the cache and PostgreSQL both hold 1. A spend debits the cache. The next finds the cache empty, falls back, and PostgreSQL still has 1. |
| `billing_unrecorded` | `SpendRecorded` | A Redis debit never reaches the journal, though `docs/architecture.md:147-150` inserts it at once and a comment has the consumer write it: no code does, and the publisher is credited all the same. |
| `billing_stale` | `RechargeSyncsCache` | Two recharges commit as A, B and write the cache as B, A. |
| `consumer_exit` | `GracefulExit` | A session that ends fails the messages left in its channel under the cancelled context, marks them, and commits the marks. They are never billed. |

In two places a passing property states what the code does, and the documents say something else:

* `WithdrawnIsRequested`. `docs/architecture.md:179-199` has a withdrawal request insert a pending row and
  nothing else, and the approval update `revenue_withdrawn`. In the code the request moves the amount to
  `revenue_withdrawn`, and the approval changes a status. So what the column shows includes requests
  nobody has approved, and the amount is reserved from the moment it is asked for.
* `AnswersJustified`. `docs/architecture.md:207-233` and `README.md:162` have `GET /v1/pacing` answer a factor
  that a recalc stored in Redis for sixty seconds. No code stores or reads one: every answer is computed
  from the tracker's memory of the time of the call, so an `AddSpend` shows at once.

Two more need no run. `docs/architecture.md` (section 4.4) and `README.md:41` say that the job at 01:00
settles revenue and writes the daily settlements, but `run` only logs, and nothing calls `SettlePending` or
`UpsertDailySettlement`: no code is behind the claim. And the diagram has one `Cron` trigger the job, where
each instance of the service arms a timer of its own and runs it: with several instances, several times
for a date.

`ChargedOnce` is stated up to lost replies. With `lost[c] = 0` it says that a spend is charged at most
once, one that succeeds exactly once, and one that is *refused* not at all; a lost reply of the script can
hide a debit that go-redis or the fallback then repeats, one charge for each. Of a spend that *fails* it
says no more than "at most once": its `COMMIT` may have been made and not acknowledged.

### Fairness

`account` and `publisher` assume weak fairness of each call's own progress, failures excluded: a
goroutine that has begun a transaction keeps executing it, and PostgreSQL hands a released lock to a
waiter. A call asks for its lock once, so a lock is contended only finitely often and weak fairness is
enough; the same goes for a publisher call and its connection, which it asks for once and before any
lock. Nothing makes a waiting call fail: were a lock not given back, its waiters would wait forever,
which is what `CallsReturn` rules out. `Begin` is not fair; nobody has to call. In
`consumer`, a free partition is joined by some member, sessions fetch, process, commit offsets and
end when they have lost the partition; publishing, rebalances, evictions and crashes are not fair,
and `MaxSessions` bounds those that end sessions. `billing_unrecorded` runs under fairness of each
call's steps, so its counterexample is not a system that merely stopped.

In `process` time passes, the timer's goroutine runs when it is due, and `main` goes on once it was
signalled; a handler may hang for ever, and nobody has to send a signal or to start a process again.

In `pacing` nothing is fair: the model stops only when every call has ended, TLC checks that it stops
nowhere else, and `LocksGivenBack` says that the holder of a lock waits for nothing.

## 4. Proofs

All theorems are about the modules as they stand, for all values of the constants allowed by their
assumptions (`GridAssumption`: `Grid` a positive natural; `AmountsAssumption`, `PublisherAssumption`:
amounts integers, any set; the value that stands for a free lock or for nothing is no call;
`PoolAssumption`: at least one connection; `ProcessAssumption`: the job's time lies within the day and a
late timer fires on the same date; `TrackerAssumption`: besides ranges, that every weekday has some built-in
traffic; `CalendarAssumption`, `ConsumerAssumption`, `PipelineAssumption`, `SettlementsAssumption`,
`BillingAssumption`: the ranges the modules state).

* **Amounts** (`AmountProofs`), three sets of lemmas. What integer division by `2 * Grid` brackets, and
  from it how `Stored` behaves on sums and differences: adding a whole number of units commutes with
  rounding, non-negative stays non-negative, subtracting rounds a half the other way by at most a unit.
  What a fee is: never negative, and with a positive net exactly the rest of the stored price
  (`CreditSplits`). And how a sum over a finite set changes with one term, with all terms, or with the
  set. The library defines a sum by a fold over a chosen order, so these need an induction over the
  terms. It is done without an induction rule: were there subsets for which the fact fails, one of them
  would have the fewest elements (`SmallestOf`, from `NatLessThanWellFounded` and `WFMin`), and the fact
  holds once a term is taken away from it.
* **The advertiser ledger** (`AdvertiserLedgerProofs`). `NeverOverdrawn`, `Conservation` and
  `JournalChain` are not inductive by themselves: that a debit keeps the balance non-negative needs the
  rounding facts on a row all of whose columns are non-negative; that a recharge of an absent row is
  sound needs it to be empty. `LedgerInv` says both (`Sound`) together with the chain and the drift of
  each account; `SoundRecharge` and `SoundSpend` preserve it.
* **The advertiser transactions** (`AdvertiserAccountProofs`). `AccountInv` adds to `NoLostUpdate` what a
  call's position says of its request (`Control`), that only a call past `COMMIT` has a journal row
  (`Unposted`) and that a successful one has it (`Recorded`). It gives `AccountNoLostUpdate` and
  `AccountOutcomeIsTruth`, and makes every step a step of the ledger or a stutter: `ImplementsLedger`.
  With it the ledger's promises carry over: `AccountKeepsPromises`.
* **The advertiser service** (`AdvertiserBillingProofs`). `BillingInv` has the ledger's invariant, the
  cache's (`CacheInv`: what Redis holds and has debited was written to it, and without Redis nothing
  was), that a row's balance never exceeds what was paid in (`Backed`), and, because a call may be
  about to write to the cache a balance it read long ago, that what each call carries is still covered
  by what was paid in by now; `CallInv` says that and accounts for the call's charges, stage by stage,
  up to its lost replies. From it: `CacheAlwaysBacked`, `CacheAlwaysAccounted`,
  `SpendsChargedOnce`, and for amounts of four decimals `FundsSafeWithoutRedis`. And since a call that is
  still to go to PostgreSQL has not posted, the service implements the atomic ledger and keeps its
  promises: `BillingImplementsLedger`, `BillingKeepsPromises`. `FundsSafeWithoutRedis` needs
  `Grid = 1`: finer amounts round in `total_spent` and can exceed `total_recharge` by a unit each.
* **The publisher** (`PublisherAccountProofs`). `RoundedSum` bounds what moving an amount between two
  columns can gain, for columns and amounts of either sign, which `RevenueConserved` needs since
  `revenue_pending` may be negative; `LedgerConservesRevenue` follows by one lemma per operation.
  `PubInv` is, for the transactions, what `AccountInv` is for the advertiser's, with two additions: the
  set of connections is exactly that of the calls that run and no larger than the pool's limit, and
  `revenue_settled` is never negative, which is not a property of the ledger (a settlement there may
  have any amount) but of the calls made. From it: `PublisherImplementsLedger`,
  `PublisherNoLostUpdate`, `PublisherNeverOverwithdrawn`, `PublisherOutcomeIsTruth`,
  `WithdrawalsApprovedOnce`, and `PublisherConservesRevenue` from the ledger.
  `WithdrawnIsRequested` is `LedgerReservesRequests`: an operation changes one term of the sum over the
  withdrawals on file (`SumAdd`, `SumChange`), an approval none; the concurrent transactions inherit it,
  `PublisherReservesRequests`.
* **Fees and settlements** (`PlatformProofs`): `CalcFeesSplitsExactly` for
  every price and every rate below one, and `SplitAlwaysExact` for whatever is configured.
  `TableInv` says that a key without NULL has at most one row, with the last figure (`TableCurrent`);
  that makes a repeated upsert a rewrite of what is there, `RepeatsAlwaysHarmless`. With
  `FiledEachTime`, that a key with a NULL has as many rows as it came in, it makes a summary what was
  reported: `SummaryAlwaysCurrent`.
* **The process** (`PlatformProofs`). `SettledOncePerInstance` is not inductive: whether the next run is one
  too many depends on where the armed timer stands against the clock. `InstanceInv`, one instance's part
  of `ProcessInv`, bounds its runs of a date in four situations (`WithinBudget`): at any time, up to its run
  time, while a timer is still to fire on or before the day of its run, and while one is set to fire early,
  which only a clock set back brings about and which must leave room for the run on time. `StillAhead`
  says of a date not settled that the timer is armed for it or about to be, `Lifecycle` which of the
  server, the stores and the requests go with each stage of `main`. A step of one instance leaves the
  others' variables alone (`InstanceFrame`, `SameInstance`), so each lemma is about one; a tick is the only
  step of all. From them `SettledOncePerInstanceAlways`, `NoDateLeftOut` and `StoresOutliveRequests`, for
  any number of instances, processes, days and set-backs, days of any length, and any run time whose timer
  is late by less than what is left of the day. They bound what each instance does; that several do not
  settle the same date is false of the code.
* **The consumer** (`BillingPipelineProofs`). `NothingSkipped` speaks of the committed offset, but that is
  copied from a session's mark, which follows the message it reads, which began at the committed offset
  of another time. `ConsumerInv` says of each of them that only settled events lie before it, and that
  the owner of the partition never reads behind the committed offset. From it `GroupSkipsNothing`, and
  `GroupImplementsFeed`: every step of the group is a step of `EventFeed` or a stutter.
  `CreditsFollowCharges` needs a count of what is still to come: `Counted` says that the credits of an
  event, with the members about to credit it, are no more than its charges, and these, with the
  sessions that may still charge it, no more than the sessions begun. From it
  `GroupCreditsFollowCharges`.
* **The pipeline** (`BillingPipelineProofs`). Every step of the pipeline is a step of the consumer group or
  leaves it alone (`PipelineStepConsumes`), so the consumer's invariants hold there. `PipelineInv` adds
  what ties the stores to it: every journal row is a published event's and holds what the event's price
  makes it (`Rows`); spend rows and cache debits of an event together are the charges the consumer knows
  of and those a lost reply hid, revenue rows its credits (`Posts`); and the advertiser's `total_spent`
  with what the cache was debited, and the publisher's `revenue_pending` with the platform's fees, are
  sums over the events of count times price (`Totals`), the two quantities of `PayoutsCovered` in the
  same terms. Nothing needs to be known of the cached balance: whatever Redis answers, a charge that
  succeeds was made in one store or the other. `JournalsAlwaysReconcile` follows from `Posts`, `Rows` and
  the consumer's `CreditsFollowCharges`; `PayoutsAlwaysCovered` by comparing the sums event by
  event. Neither needs the rate to be below one: the consumer credits only a positive net. The pipeline does not implement
  the advertiser's ledger, in which a call posts once: an event delivered again is charged again under the
  same `ref_id`. `RepeatsAlwaysSolvent` shows what remains in PostgreSQL: an instance of
  `AdvertiserLedgerProofs` supplies `PostSound`, that a sound account stays sound whoever posts.
* **The tracker** (`PacingTrackerProofs`). `CoreInv` is `LocksGivenBack`, shard by shard, with the types,
  what a call's position says of its request, and that the entry a writer looked up is still the
  campaign's while it has the lock. `Updates` adds what `UpdatesApplied` needs half-way through a
  recalc: unless two have overlapped there is at most one, and once it has set the budget nobody else
  changes it. `Seen` follows a reader: what it has in its hands was there since it began, and the entry
  cannot change between the two reads under the read lock. From them `TrackerLocksGivenBack`,
  `TrackerUpdatesApplied` and `TrackerAnswersJustified`, for any number of calls, campaigns and
  shards, any hash, any curve and any arithmetic of the factor.
* **The traffic plan** (`PacingTrackerProofs`). `PlanInv` says that a weekday's shares add up to the day and
  one of them is above zero, unless the call that holds the curve's lock is learning that weekday;
  between its two halves the row still has a positive share, so that `normalize` has something to
  divide by. It starts from the built-in shares, which `TrackerAssumption` takes to have a positive one
  for each weekday, as those of `curve.go` do. From it `TrackerPlanSpendsTheBudget`,
  `TrackerLearningConverges` (by `Between`: what the new share exceeds the old by, and what it falls
  short of the observed fraction by, are positive multiples of the same difference) and
  `TrackerFactorRisesInTheDay` (the factor is monotone in the plan, `FactorMonotone`, and a later hour
  adds a share to it). Their fractions are exact: what `float64` rounds off is not covered.

So every invariant and action property of a passing run is proved, for all values of the constants, and so
are the refinements of the two ledgers and of the feed. That the service implements the advertiser ledger,
and `RepeatsAlwaysSolvent`, are proved only; no run checks them. Only model-checked: the liveness properties
(`CallsReturn`, `PublisherCallsReturn`, `EventsConsumed`, `ShutdownCompletes`), which are out of the
provers' reach; that `pacing` stops nowhere but at the end of all calls; and the four disagreements
of section 3 that have a run, which are counterexamples.

## 5. Not modelled

* Reads (`Get`, `ListTransactions`, `ListSettlements`): they change no state. That `ListTransactions`
  sorts by the start of the transaction is recorded as a hazard.
* HTTP routing and decoding, configuration and secrets, metrics, tracing, the tenant columns that no
  statement uses.
* The mock repository: a test double, which neither rounds nor has statements.
* Kafka or PostgreSQL unreachable at start: the process ends, or runs without its consumer, and nothing
  has been done yet.
* Repeated client requests: the API has no idempotency key, so a repetition is simply another call.
* Two events of different partitions, or a consumer of another topic: partitions share nothing but
  the stores, which the other modules cover.
* Recharges in the pipeline beyond the first: `AdvertiserBilling` has several, whose cache updates cross.
* The idle limit and the lifetime of the pool's connections, which are `database/sql`'s.

## 6. Plan

Done, in order of importance: `Decimal`; `AdvertiserLedger` with `AdvertiserAccount` and the
refinement; `AdvertiserBilling` over the ledger; `PublisherLedger` with `PublisherAccount` and the
refinement; `PlatformFees`; `EventFeed` with `EventConsumer` and the refinement; `BillingPipeline`;
`Pacing` and `PacingTracker`; `DailySettlements`; `ServiceProcess`; the proofs of section 4.

Left:

1. Start times in the journal, for the order `ListTransactions` shows.
2. `AdvertiserBilling`: a bound on what is charged beyond the paid-in amount with Redis, in terms of the
   HSETs made, as a property and a theorem.
