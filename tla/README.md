# TinoHelm: a TLA+ verification project

TinoHelm runs every trading strategy in a pod of its own, carries their events
and commands over Redis Streams and talks to people through one Discord bot, the
notifier. This directory holds TLA+ models of the parts of it whose correctness
depends on order, timing and failure, the TLC configurations that check them and
TLAPS proofs about them. Paths below are relative to `src/tinohelm/`.

## The system

| component | source | state it keeps | operations |
|---|---|---|---|
| on-demand reports | `notifier/runner.py` (`DiscordForwarder`, `_request_report`) | `_report_listeners`, one future per target, the 120 s timer | `/positions /pnl /fills /orders`, `watch_report`, `drop_report_listener`, `enqueue`, `_dispatch_report_listeners` |
| order fills | `notifier/handlers.py` (`OrderProgressTracker`), `runner.py` (gates, `_send`) | LRU of `OrderProgress`, per-channel semaphore | `observe`, `is_complete`, `forget_if_terminal`, `should_forward_fill`, `_send` |
| channel guards, routing | `runner.py` (`validate_command_channel`, `strategies_for_channel`, `_resolve_handle`, `route_channel`) | none | decide which channel may command or receive what |
| strategy registry | `runner.py` (`read_new_announces`, `load_announce_history`, `apply_fallback_scan`, `_autodiscover_loop`), `strategy_runner.py` | handle -> mode, announce cursor | replay, poll, scan, warn about drift |
| event intake | `runner.py` (`_event_stream_loop`, `_forward_stream_entry`) | known streams, cursor of each | discover, XREAD, forward |
| in-process actor | `runner.py` (`NotifierActor`) | the same tracker and forwarder | bus callback |
| commands | `runner.py` (`_command`), `cli.py` | none | guard, then publish from a thread; fan out over the announces |
| bridge | `bridge_actor.py` | control cursor, resolved strategy id | pause, resume, flatten, ping, reports |
| reporting | `reporting_actor.py` | timers | periodic snapshots |
| sandbox recovery | `sandbox_recovery.py` | balance snapshots in Redis | recover on start, save on stop |
| daily summary | `runner.py` (`_daily_summary_loop`) | next run | sleep, post |
| configuration | `config.py`, `__init__.py` | none | TOML to NautilusTrader configs |
| rendering, book feeder, `/status`, start-up, examples, deployment | `handlers.py`, `sandbox_book_feeder.py`, ... | little or none | text, subscriptions, I/O |

How they interact. A pod's NautilusTrader kernel appends its events to
`trader-*:stream:*`; its `BridgeActor` reads `tinohelm:control:<handle>` and
appends the reports it is asked for to the event stream, `ReportingActor` appends
positions on a timer of its own. In the notifier the stream loop reads all of
them, folds order events into the tracker, gates them and hands the survivors to
`DiscordForwarder.enqueue`, which either leaves a report to the commands waiting
for it or starts a `_send` task. Slash commands run on the same asyncio loop,
publish from worker threads and suspend on futures that `enqueue`'s deferred
callback resolves. Announces and scans feed the registry that all guards read.

What is hard about it:

* **callbacks in between.** `enqueue` tests the listener table synchronously but
  pops it in a callback it defers; timers, gathers and other commands run between.
* **two sides of one wait.** The future must exist before the request is
  published; a timeout, a late reply and a second waiter all touch the same key.
* **observe now, render later.** Order events are folded when read and rendered
  when a send gets its permit; the entry may have changed or been evicted.
* **restarts.** The tracker is in memory, streams are watched from their tail.
* **numbers.** Fill sums are floats compared once with a tolerance, once without.
* **shared maps.** Worker threads change the registry while the loop iterates it.

What makes each part correct: a report request is always answered, with replies of
its own topic and strategy, and no slot outlives it; a fill that is held back is
shown later, once, with a total that is whole; a command reaches a strategy from its
own mode's channel only; every event past a stream's first cursor is
forwarded at most once, and none is skipped but those whose forwarding raised; a registry replay yields the newest announce; a
recovered balance matches the orders the pod restarts with; no day goes without its
summary; pausing and resuming reach the strategy in the order given.

`PROJECT.json` lists every component and every hazard at the line where it bites.

## The modules

| module | models |
|---|---|
| `Channels` | `validate_command_channel`, `strategies_for_channel`: whom a channel may command |
| `ReportRequests` | the on-demand report protocol on the asyncio loop, its threads, timers and pods |
| `ReportService` | what the report commands promise an operator, without loop, listeners and timers |
| `ReportRequests_proofs` | the protocol's inductive invariant and theorems; that it implements `ReportService` |
| `ReportDelivery_proofs` | the proofs that no reply is missed, no waiting command forgotten and no slot leaked without a failed publish |
| `OrderFills` | the tracker, the gates, the send tasks and the pod's order events |
| `OrderFills_proofs` | invariants and theorems on the tracker's cap and on totals |
| `OrderSummaries_proofs` | invariants and theorems on messages, kept fills and released slots |
| `Intake` | the registry, its two sources, the event loop's cursors and discovery, routing |
| `Intake_proofs` | its inductive invariants and theorems |
| `Control` | pause, resume, flatten, ping and the CLI: guard, thread, control stream, `BridgeActor` |
| `Control_proofs` | its inductive invariants and theorems |
| `SandboxRecovery` | a sandbox pod's orders, money and snapshots across stops, kills and settings |
| `SandboxRecovery_proofs` | its inductive invariants and theorems |
| `DailySummary` | the task that posts once a day |
| `DailySummary_proofs` | the proof that it skips a day only after a month end |
| `MCReportRequests`, `MCOrderFills`, `MCIntake`, `MCControl`, `MCSandboxRecovery` | the instances TLC checks |

`Channels` is used by `ReportRequests` and `Control`, which instantiate it with their registry;
`ReportRequests` instantiates `ReportService`. The pod's bridge appears in three modules,
because its operations share no state: the report actions in `ReportRequests`, the
strategy's lifecycle in `Control`, the recovery hooks in `SandboxRecovery`.

### ReportRequests

The asyncio loop is one FIFO queue of callbacks, the variable `ready`: a loop
action (`RunLoop`) runs the callback at its head from one `await` to the next, and
threads, timers and pods can do nothing to the loop's state but append to the queue.
This is what makes the races of the code visible and no others.

| model | code |
|---|---|
| `listeners` | `_report_listeners`, key (topic, strategy) |
| `fut`, `result` | the futures of `watch_report` and what they were resolved with |
| `req[c]`, `Targets` | the channel and targets of a command (`_request_report`, 1199-1229) |
| `inflight` | targets whose XADD a worker thread has yet to execute |
| `armed`, `expired`, `TimerFires`, `RunTimeout` | the timer of `asyncio.wait_for` and the cancellation it performs |
| `RunStart` | guards, subscribe to every target, then publish |
| `RunPublished`, `RunFailed` | the gather over the publishes returns or raises |
| `RunGather`, `RunWake` | the done callback of the last future, then the resumed task |
| `Finish` | un-register after a timeout, enqueue each reply for the operator's channel, answer |
| `RunBatch`, `Sent`, `Skipped` | the stream loop forwards one XREAD response; `enqueue`'s test |
| `RunDispatch`, `Takers` | `_dispatch_report_listeners`: pop, resolve what is not done |
| `PublishOne`, `PublishFails`, `PodReplies`, `PodDrops`, `PodPeriodic`, `XreadReturns` | Redis, threads and pods |

`sends` and `skipped` record what `enqueue` did with each report. They and `result`
are history: no guard reads `sends` or `skipped`. The text of reports,
receipts and the Discord interaction is left out. Finished replies are enqueued in
any order (`SetToSeqs`), although the code goes by the order of the targets; the
properties do not depend on it.

### ReportService

A command is asked, then refused at once or opened; an open command collects at most
one report of its topic per strategy it addresses; it is answered when all have replied or
its deadline is over, and fails if asking failed. One report reaches every open
command it answers in one step. The mapping (`Service` in `ReportRequests`):
`outcome` follows `pc`, a waiting command is `open`; `asked` is the request; `got` are
the reports its futures were resolved with (`Collected`); `late` are the expired timers.
So registering the futures is `Accept`, a dispatch is `Deliver`, the timer's callback is
`DeadlinePasses`; threads, pods, streams, gathers and `enqueue` stutter.

### OrderFills

| model | code |
|---|---|
| `tracker`, `Folded`, `Evicted`, `Forgotten` | `OrderProgressTracker._orders`, `observe`, the LRU trim, `forget_if_terminal` |
| `Complete`, `NothingRemains` | `is_complete` (tolerance 1e-9), the stricter test of `forget_if_terminal` |
| `Forwarded` | `should_forward_order_event` and `should_forward_fill` |
| `Consume` | `_forward_stream_entry`: observe, gate, schedule a send |
| `StartSend`, `FetchFails`, `Delivered`, `SendFails` | `_send`: channel, semaphore, render, post, release |
| `Restart` | a new process: empty tracker, streams watched from `$` |
| `Initialize`, `Accept`, `Fill`, `Amend`, `End` | what NautilusTrader publishes for a lawful order (external) |

Quantities are whole lots and the tracker sums ticks (`Unit` per lot), each addition
erring by a member of `Rounding`; `Tolerance` is the 1e-9. Of an embed only the total and the
fills it stands for are kept, not the average price shown beside them. The dictionary order of
the LRU is the field `last`. `seen` and the field `sum` of an event are history:
the fills this process has read, and what the order had filled by then.

### Intake

The two loops run on one asyncio loop but spend their time in worker threads, so the
steps between two awaits of each are actions, and so are the thread's calls that others
can observe. `AnnouncesApplied` and `ScanReturns` wait while a response is being
forwarded (`epc = "forwarding"`): the loop is busy. The scan's thread does not wait.

| model | code |
|---|---|
| `announces`, `trimmed`, `controls`, `events`, `lost` | what Redis was given and what a flush took from it |
| `registry`, `Replayed`, `WithScanned` | the registry, `load_announce_history`, `registry.setdefault` |
| `AnnouncesRead`, `AnnouncesApplied` | one round of `_autodiscover_loop`: the threaded XREAD, then registry, cursor and drift warnings |
| `ScanLists`, `ScanAdds`, `ScanReturns` | `apply_fallback_scan` in its thread: KEYS, one insertion at a time, the return |
| `Top`, `GlobReturns`, `TailReturns`, `Discovered` | the discovery of `_event_stream_loop`: due, glob, one tail per new stream, done |
| `XreadReturns`, `XreadTimesOut`, `ForwardNext` | the read past all cursors and the forwarding of its response |
| `ForwardRaises` | the scan's insertion during `_resolve_handle`'s iteration: RuntimeError, the response is abandoned |
| `StreamRedisFails`, `AutoRedisFails`, `Flush`, `Restart` | the exceptions the loops catch, a Redis that comes back empty, a new process |
| `Resolve`, `Route`, `Drifted` | `_resolve_handle`, `route_event`, `detect_protocol_drift` |

Names are not strings: `HandlesOf[s]` lists the handles that the NT StrategyId of `s`
ends in, longest first, which is all `_resolve_handle` asks. A response holds, per stream, the first and the last
of the entries XREAD returned. Entries are of three kinds:
those with a strategy (`trade`), those without (`system`) and those a gate stops
(`noise`); which order events the gates stop is `OrderFills`' subject. `out`, `start`,
`raised`, `heard` and `warnings` are history. The announce stream's cap of 1000
entries is not reached.

### Control

| model | code |
|---|---|
| `boots`, `Told` | the boots of all pods, and those whose best-effort announce succeeded (`main`, `publish_announce`) |
| `heard`, `Registry`, `Newest` | the announces the notifier has applied and what its registry makes of them |
| `Boot`, `OnStart`, `Gone` | `strategy_runner.main`, then `BridgeActor.on_start` and the strategy's start; the container is removed or its process ends |
| `OnCommand`, `Effect` | `BridgeActor._on_command` and the `*_from_id` calls of NautilusTrader's Controller |
| `Slash`, `Issue` | `_channel_mode` and the guard of `_command`; from there a worker thread has the XADD |
| `Cli`, `FanOutTargets`, `Recent` | the subcommands of `cli.py` and `_fan_out_command`'s XREVRANGE |
| `Xadd`, `XaddFails` | `_publish_command` and the threaded `_publish` return, or raise with or without effect |
| `Hear`, `Restart` | the autodiscover loop applies an announce; a new notifier replays them and the old one's threads are gone |

A pod's node reads its control stream from process start, but what it reads before the bridge
has subscribed reaches nobody: `OnStart` advances the cursor over any part of what
is waiting. A slash command that is refused changes nothing. Handles only the fallback scan
found are left out of `Registry`: the guards take an unknown handle for sandbox
too. `cmds[c].knew`, `at`, `before` and `applied` are history. A market exit also leaves the strategy
stopped; how it closes the positions is NautilusTrader's.

### SandboxRecovery

A balance is represented by the fills it includes, a fill by its order, so that "the balance is
right" is "each fill the cache knows is booked once".

| model | code |
|---|---|
| `disk`, `status` | the cache in Redis and in memory; `WriteBehind` is its background writer (external) |
| `live`, `bal` | the simulated exchange's orders and account, new on every boot |
| `snap`, `BalanceKey` | the snapshots in Redis and `balance_key` |
| `Configs`, `FlushOnStart` | `[sandbox] persist`, `[cache]`, `flush_on_start` and its mode-aware default (`build_cache_config`) |
| `Build` | `build_trading_node_config` and `node.build()`: flush or load, empty engines, starting balances |
| `OnStart`, `Restored`, `Rehydrated`, `OnStartFails` | `recover_on_start` before any strategy starts; Redis or the account raises |
| `Place`, `Trigger`, `Fill` | the strategy, the order emulator and the exchange (external) |
| `OnStop` | `snapshot_on_stop`: one venue after another, up to the one that raises |
| `Exit`, `Kill` | the end of `node.run()`; `docker rm -f` of `make deploy` and `make restart`, or a crash |

`dirty`, `saved` and `clean` are history: which venues lost a fill to one of the two stores.
Each pod's cache is its own here, while NautilusTrader keys it by trader id: with distinct traders,
which `BalancesFollowFills`, `OpenOrdersWork` and their theorems are about, that is the same; where pods
share a trader it leaves the shared cache out and makes the collision `RecoverySharedTrader` finds
milder than it is. `redis.get` may raise in `OnStartFails`: the docstring of `_redis_get_json` promises
"any failure → `None`", but only what follows the `get` is caught, and the module follows the code; what the
docstring says is the mutant of `SnapshotsNeverShrink`.
What the module takes from NautilusTrader: the cache is loaded before the account is
initialised and both before actors start, actors start before strategies, a failed start gets no
`on_stop`, fills may arrive between `on_stop` and the exit, and a flush may or may not take
TinoHelm's own keys and other pods' (both are tried). Orders in flight, cancels and snapshots
that do not parse are left out.

### DailySummary

Time is hours since a midnight; `MonthEnds` are the days after which `day + 1` is no date.
`Schedule`, `ScheduleRaises` and `Post` are the three parts of `_daily_summary_loop`. `Tick` waits for
a task that is due, which is the most favourable clock.

## Runs

All bounds are CONSTANTS: `MaxReports`, `MaxEvents` and `MaxRestarts` count what the
pods and the environment may still do; nothing in the notifier is bounded.
`CHECK_DEADLOCK FALSE` is set everywhere because the systems really stop: once every
command is answered, or every order has ended, and the bound is used up, nothing is
left to do. What must not stop early is said by the liveness properties and by
`AlwaysResumable`.

| run | what it shows |
|---|---|
| `ReportsConcurrent` | two commands, one pod, two topics, periodic snapshots, a channel without rights: `TypeOK`, no lost wakeup (`WaitersRegistered`), right answers (`ResultsMatchRequests`), subscribe-before-publish (`ReplyNeverMissed`), something always resumes a waiting task (`AlwaysResumable`), outcomes are final (`FuturesSettleOnce`), all of it a refinement of the service (`ImplementsService`) |
| `ReportsFanOut` | two commands over two pods, failing XADDs, silent pods: slots are held by waiting commands only, or by one a failed publish crashed (`SlotsHeldOnlyWhileWaiting`); with fairness every issued command ends (`EveryCommandAnswered`); the fan-out refines the service too (`ImplementsService`) |
| `OrdersRestart` | two orders, partial fills, cancel, reject, additions off by an ulp, one restart: held-back fills survive (`SuppressedFillsKept`), settled orders are fully shown (`SettledOrdersShown`), one summary each (`OneSummaryPerOrder`), shown totals are whole (`KnownTotalIsWhole`), slots come back but for those whose sum is short of the total (`SlotsReleased`), ended orders settle (`OrdersSettle`) |
| `OrdersDegraded` | a cap below the live orders, rounding beyond the tolerance, amendments, denials, expiries, failing fetches and sends, a restart: the tracker stays bounded (`TrackerBounded`) and totals stay whole |
| `IntakeRaces` | two pods, announces, commands that make one scannable, a failing call, a flush or a restart anywhere: no entry past a stream's first cursor is skipped or repeated (`EveryEntryOnce`), the registry holds the newest announce heard (`RegistryNewest`), one warning per handshake (`DriftWarnedOnce`), events go where the registry says (`RoutedAsAnnounced`), both loops catch up (`AnnouncesHeard`, `EntriesHandled`) |
| `Commands` | commands of two channels and the CLI race with boots in either mode, failed or late announces, restarts of the notifier and failing XADDs: a command crosses the sandbox/live boundary only where the registry could not know (`CrossingsExplained`), commands given in sequence act in sequence (`LastWordHolds`), none acts twice (`AppliedOnce`), what is under way to a running bridge is carried out (`CommandsTakeEffect`) |
| `RecoveryRestarts` | one pod, three orders, two venues, six settings, three boots, stops, kills and failures anywhere: a recovering pod's balance has each fill its cache knows exactly once unless a named loss hit the venue (`BalancesFollowFills`), its open orders work again and no emulated one does (`OpenOrdersWork`), no saved balance gets poorer (`SnapshotsNeverShrink`) |

Five runs check what a comment or a test says and find that the code does otherwise;
`PROJECT.json` quotes the lines under "findings".

| run | refuted statement |
|---|---|
| `ReportsNothingSwallowed` | `enqueue`'s listener test is race-free with the deferred dispatch. Two reports of a key in one XREAD response: the second is left to a listener the first one takes |
| `ReportsNoListenerLeak` | dead pods leak no listener slots. A publish that raises leaves them all |
| `OrdersAmended` | the completing fill is forwarded. Not after an amendment to a smaller quantity, which the tracker ignores |
| `RecoverySharedTrader` | the trader id in the key keeps one pod from clobbering another's snapshot. All pods whose TOML names none share one, and start with each other's money |
| `SummaryMonthEnd` | the summary comes at the configured time, every day. On the last day of a month computing the next date raises and the task is gone |

Why these bounds. Every race of the report protocol is between at most two commands
and two reports of a key: two of each, and two pods for partial replies, reach all
of the protocol's branches (the runs' coverage fires every action). A tracker
entry interacts with another one only through eviction and the semaphore, so two
orders with a cap of one or two suffice; six events let one order be submitted,
accepted, filled in two parts and have another interleave. A lot is ten ticks and an addition is off by
one at most: in `OrdersRestart` a sum may then end above, at or below the total, by no more than the
tolerance of two, so that `is_complete` and `forget_if_terminal` disagree. `OrdersDegraded` has quantities up
to three lots, so that a partly filled order can be amended upwards. In `IntakeRaces` one
pod's handle is a suffix of the other's and only the longer-named pod is commanded, so that the
scan, the announces and the resolution of a handle meet in one registry; two
announces let one supersede another, two entries let a response be cut in half, and
one fault is one exception, flush or restart at any point. `Commands` has two strategies: one
changes its mode between boots, the other announced twice as sandbox in the past and
may now come up live, untold and without its strategy, so that a fan-out over the two
newest announces (1000 in the code) has to skip a repetition to find both; two commands
are what it takes to race. `RecoveryRestarts` needs three boots for a loss to be carried from one
boot through a second into a third, and two orders on one venue beside one on another for
a save that ends half-way. The settings are the documented one, each single deviation
from it, and a listing that has dropped an order's instrument.

Each property has a mutant in `PROJECT.json`: an operator of the module with a
plausible slip in it (a dropped guard, an off-by-one, a listener popped for everyone,
a tracker that survives a restart) under which TLC finds the property violated.

### Fairness

`ReportRequests!Fairness`: the loop runs its callbacks (asyncio's queue is FIFO and no
callback blocks), the blocked XREAD returns when there are entries, a thread's XADD
ends with success or an exception, the loop notices, and the timer fires. No
fairness for operators, none for pods: a command must end even if nobody replies.

`OrderFills!Fairness`: the stream loop consumes, some scheduled send gets its permit
(asyncio's semaphore wakes its waiters) and some message in flight is delivered.
`OrdersRestart` sets `SendMayFail` to FALSE and the channel cached; Discord's refusals
are the subject of `OrdersDegraded`. `FairSpec` constrains neither the venue nor restarts.

`Control!Fairness`: a bridge handles what its pod has read, and an XADD ends. Nothing is assumed of
boots, announces or operators; `CommandsTakeEffect` lets the pod go away.

`Intake!Fairness`: both tasks get their turns and their threads return (`WF` of
`AutoStep` and of `StreamStep`). A failing Redis call costs a fault, of which there are
`MaxFaults`: the claims are that the loops recover when Redis does. `AnnouncesHeard`
and `EntriesHandled` are of the form `[]<>`: pods may go on publishing.

## Proofs

The theorems hold for every value of the constants that satisfies the module's
named assumption (`ConstAssumption`, `OrderFillsAssumption`, `IntakeAssumption`, ...: sets of commands,
pods and orders are finite, flags are Booleans, counters naturals, sentinels distinct, a pod's
own handle is the longest its strategy id ends in).

`ReportRequests_proofs`. The inductive invariant `ProtocolInv` is the conjunction of
types, `SlotsOwned` (a slot is held by a publishing, waiting or crashed command that asked
for its key, and its future is pending unless the timer cancelled it),
`FuturesOfTargets` (a started command has futures for its targets and no others; an
answered one has none pending), `CompletionIsFinal` (a queued `gather` or `wake` belongs
to a command with nothing left to wait for), `WaitersRegistered` and
`ResultsMatchRequests`. `WaitersRegistered` alone is not inductive: a dispatch pops a
whole key, so every future it finds must be of that very key, and answering a command
is harmless only because, by the time its task resumes, nothing of it is pending. From it follow

* `TypeCorrect`: `Spec => []TypeOK`,
* `NoLostWakeup`: `Spec => []WaitersRegistered`,
* `AnswersMatchRequests`: `Spec => []ResultsMatchRequests`,
* `SlotsGivenBack`: `Spec => []SlotsHeldOnlyWhileWaiting`,
* `SettledStaysSettled`: `Spec => FuturesSettleOnce`.

The same module proves `Implementation`: `Spec => Service!Spec`, the refinement `ImplementsService`
checks. `ProtocolInv` says what a pending future implies; the step simulation also needs to know
why a future is no longer pending, so `SettledInv` adds that a resolved future has its report and a
cancelled one an expired timer (`SettledForAReason`), and that an expired command waits for
nothing (`ExpiredIsOver`). A dispatch maps to `Deliver` because the listeners it pops are, by
`SlotsOwned` and `WaitersRegistered`, exactly the open commands the report answers.

`ReportDelivery_proofs`. Two invariants about what is under way. `CausedInv`: publishes, control entries,
stream entries, responses and forwarded reports that name a command name one that has
started, and have its topic; as `RunStart` subscribes before it publishes, `WaitersRegistered` then
says that a report which finds no listener has no waiter. `ResumeInv`: a waiting command with open
futures has its timer armed or queued, one without has `gather`'s callback or its own wake-up
queued (`WillResume`); `AlwaysResumable` alone would let the last future settle unnoticed.
`NoListenerLeak` is refuted by a publish that raises (`ReportsNoListenerLeak`); without one no
command crashes and no thread reports a failure (`Unfailed`, inductive beside `ProtocolInv`), and
`SlotsOwned` leaves the slots to suspended commands: the code has no other leak.

* `NoReplyMissed`: `Spec => []ReplyNeverMissed`,
* `WaitersAreResumed`: `Spec => []AlwaysResumable`,
* `LeaksTakeAFailedPublish`: if no publish raises, `Spec => []NoListenerLeak`.

`SandboxRecovery_proofs`. `MemoryInv` (per pod: `PodInv`) says what a process that is not
running remembers (nothing), that the engines work on open orders of their own pod, and which ones
after a recovery. `MoneyInv` relates the three stores: on a clean venue snapshot and stored
cache agree while nothing was filled since the boot, account and memory agree while the
pod runs, and no account falls below its snapshot (`MoneyOf`). The money theorems assume `DistinctTraders`,
which the code does not enforce; `RecoverySharedTrader` shows what happens without it.

* `TypeCorrect`: `Spec => []TypeOK`,
* `OpenOrdersAreLive`: `Spec => []OpenOrdersWork`,
* `RestartsKeepMoney`: with distinct traders, `Spec => []BalancesFollowFills`,
* `BalancesArePrivate`: with distinct traders, `Spec => []OwnBalances`,
* `SavedMoneyStays`: with distinct traders, `Spec => SnapshotsNeverShrink`.

`OrderFills_proofs`. `TrackerInv` (types and the bound) is inductive: folding adds at
most one entry, and an eviction from an overfull tracker drops the oldest one, a
least element of the `last` fields. `KnownTotalIsWhole` needs the stream's
history: ids increase (`StreamOrdered`), the fills of the venue are the fill events
published (`FillsPublished`), nothing is said of an order that does not exist
(`UnbornUnknown`), and while an `OrderInitialized` is unread so is everything that
followed it (`InitializedFirst`). With these, an entry can learn its total only
when it has missed nothing, and from then on gains exactly what the stream loses.

* `TypeCorrect`: `Spec => []TypeOK`,
* `TrackerNeverOverflows`: `Spec => []TrackerBounded`,
* `ShownTotalIsWhole`: `Spec => []KnownTotalIsWhole`.

`OrderSummaries_proofs`. The three claims about messages and slots, and `SettledOrdersShown`, which
follows from two of them, need more than the tracker: why the fill that the gate lets through is
the last. `SummaryInv` adds to the invariants above the venue's account and what the stream says
of it (`HistoryInv`: the lots of an order's unread events add up to what the venue has filled of it, `Chained`;
the event that ends an order is its last, and unread as long as any is, `EndsLast`), that an entry with
a total is as close to the sum the unread events continue as an ulp per lot (`KnownSum`), that of such an order only the end is
ever sent (`EndsOnly`), and that a message about a filled order is about its last fill and
shows them all (`SummariesWhole`, whence two such messages are the same). `SlotsInv` and `KeptInv`
put `SlotsReleased` and `SuppressedFillsKept` in terms of elements; neither is inductive without
`SummaryInv`: a delivered message ends its order by `EndsOnly`, so the entry goes unless the sum of a filled
order is short of the total, and no fill is lost with it because by `EndsOnly` the message shows them all.

The theorems name what they assume of the environment. `CloseFills`: no order is amended, some ulp bounds the
error of an addition and, taken once per lot of an order, stays within the tolerance, and twice the tolerance
is less than a lot; then a sum counts as complete exactly when all lots are in it (`CompleteWhenWhole`).
`SendsArrive`: no fetch and no send fails. `NothingDropped`: the
cap exceeds the orders, and no order expires. `OrdersRestart` is an instance of all three. None can
be left out: an amended order is never shown (`OrdersAmended`), a sum that is off by more than the
tolerance is never complete, a failed send releases the entry of fills it did not show or keeps a slot, an
eviction drops suppressed fills and an expiry is announced without them.

* `OneSummary`: with `CloseFills`, `Spec => []OneSummaryPerOrder`,
* `DoneOrdersReleased`: with `CloseFills` and `SendsArrive`, `Spec => []SlotsReleased`,
* `FillsKept`: with all three, `Spec => []SuppressedFillsKept`,
* `DoneOrdersShown`: with all three, `Spec => []SettledOrdersShown`.

`Control_proofs`. Two invariants. `CrossInv`: running processes are the last boots of their strategies
(`BootsInv`), commands have their fields (`CmdsShaped`), streams hold issued commands (`StreamsInv`),
a slash command is for one strategy and was allowed because the last boot the registry knew announced
the channel's mode (`SlashInGoodFaith`), and it is only in its own strategy's stream
(`StreamsApart`). `DeliveryInv` adds what order and number of deliveries rest on: a command's XADDs
to come are each for another strategy, whose stream does not have it yet (`TodoInv`; for a fan-out
because `Listed` is a list of the newest announce of each strategy, `ListedOnce`); a stream has a
command once, and behind those whose outcome was known when it was issued (`OrderInv`); what was
carried out is behind the cursor of the running process (`AppliedInv`); and the last lifecycle command
between subscription and cursor decides the strategy's state (`EffectInv`). `AppliedOnce` alone is not
inductive: only with the command's place in the stream is the entry read next a new one.

* `OnlyUnheardBootsAreCrossed`: `Spec => []CrossingsExplained`,
* `TypeCorrect`: `Spec => []TypeOK`,
* `CommandsAppliedOnce`: `Spec => []AppliedOnce`,
* `LastWord`: `Spec => []LastWordHolds`.

`Intake_proofs`. Two invariants, which meet only in routing. `AutoInv`: the announce cursor is at or past everything
heard and before the batch about to be applied (`AutoOrder`), so the batch decides what is newest
wherever it speaks (`NewestUnion`), and what was warned about is exactly what drifted since the start
(`Warned`). `StreamInv`: what is left of a response lies past the cursors of its streams, one
batch per stream, and what lies between cursor and batch was lost (`StreamOrder`). `EveryEntryOnce`
alone does not forbid a response that names a stream twice or starts beyond an unread entry.

* `TypeCorrect`: `Spec => []TypeOK`,
* `EntriesOnce`: `Spec => []EveryEntryOnce`,
* `RegistryIsNewest`: `Spec => []RegistryNewest`,
* `WarnedOnce`: `Spec => []DriftWarnedOnce`,
* `EventsRouted`: `Spec => RoutedAsAnnounced`, for any handles of which some are suffixes of others.

`DailySummary_proofs`. `SkipsAreMonthEnds`: `Spec => []SkipsFollowMonthEnds`, for a day of at least one
hour and a time of day within it. `NoDaySkipped` is refuted by a month end
(`SummaryMonthEnd`); the theorem says that nothing else in the loop skips a day: every day a running
process left out is later than a month end that process has lived to see. `LoopInv`: a task about
to schedule has handled every time that came, a sleeping one waits for the first that has
not, and a dead one has handled all up to its month end.

Only model-checked: the liveness properties (liveness and ENABLED are beyond TLAPS)
and the refuted statements.

## Plan

What is left: `NotifierActor` as a second intake path beside `Intake`.

## Not modelled

Rendering of embeds, tables and receipts (text without a decision a property is about),
Discord start-up and `/status` (I/O), the sandbox book feeder (one subscription per
instrument), the example strategy, containers and CI. `NotifierActor` is idle unless an
operator pins `external_streams`; its gates are those of `OrderFills!Consume`. Of the configuration only
mode, trader id, persistence and flushing have a module (`SandboxRecovery`, `Control`): the
rest turns TOML into NautilusTrader objects without keeping state. NautilusTrader, Redis, Discord
and asyncio are modelled only as far as the source relies on them: append-only streams,
lawful order events, FIFO callbacks, `gather` and `wait_for`, the order in which a node starts.

The tolerance of `is_complete` is absolute. Fills of 415711307.7, 376039097.4 and 131592053.3 sum to 1.2e-07 less
than the 923342458.4 ordered: such an order never counts as complete, and none of its fills is posted.
This is outside `CloseFills`, and no run is spent on it. Nor on the reply that one operator's command
re-enqueues and another operator's command of the same key takes: it appears in the other's channel only,
although the comment in `_request_report` says that it lands in the triggering channel.

Known and left as they are, because nothing in the repository promises otherwise: what a pod
publishes before its stream is first discovered is not forwarded; announces replayed at start
are not checked for drift; an order that expires after partial fills gets no summary; a
paused strategy runs again after a restart; a fan-out misses a pod whose announce failed
or lies more than 1000 boots back.
