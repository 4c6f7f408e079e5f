# FXP in TLA+

Models, model checks and proofs of the FXP exchange: the Rust matching core
(`fxp_core`), the Go gateway (`go_gateway`) and the FIX bridge (`fix_bridge`).
This directory is to be read beside the source. `PROJECT.json` maps every
definition to the lines it stands for, lists the runs, the mutants that show
each property can fail, the findings, the hazards and the theorems.

At present the core is modelled: its event log, book, matcher, stop book,
auctions, engine and trading sessions. The gateway and the FIX bridge are
surveyed and planned.

## 1. The system

An order enters through a gateway connection (TCP or WebSocket) or a FIX
session that the bridge translates into a gateway session. The gateway binds
it to its authenticated trader, remembers which client wants its reports, and
writes it to one of a pool of connections to the core. The core hands it to
the task of its symbol. That task stamps it, appends it to the event log if
one is configured, runs the symbol's engine, and sends reports to connections
and market data to subscribers.

| Part | State | Operations | What is hard | What must hold |
|---|---|---|---|---|
| Event log (`event_log.rs`, `persisted_input`) | one file, the next sequence number, the engines | create, append, fsync, execute, scan, replay, catch-up ticks | death at any step, torn tail, failed fsync, several tasks on one file | nothing told to a client is ever taken back; replay equals the live engines |
| Book and matcher (`order_book.rs`, `matcher.rs`) | price levels, `order_lookup`, `cum_filled`, `arrival`, `displayed` | add, cancel, replace, match, sweep, self-trade prevention, FOK scan | five copies of one truth; a queue that changes while it is swept | price-time priority; book never crossed; no self trade; FOK all or nothing |
| Stop book (`stops.rs`) | parked stops, last trade price | park, cancel, elect, cascade | several prints in one sweep, stops that trade and elect others | a stop runs if and only if a print reached it |
| Auction (`auction.rs`) | none | `uncross`, `allocate` | ties, market orders, pro-rata by time | the best price, no crossing remainder |
| Engine (`engine.rs`) | report state of live orders, call markets, held closes, status history | new, cancel, replace, mass cancel, status, subscribe | orders that move between books; late trigger and cancel reports | every live order in one place; reports, status and feed agree with it |
| Phases (`phases.rs`, `session.rs`) | phase, last time seen, operator's call | tick, boundaries, expiry, auctions | late ticks; calls over boundaries | lateness makes no difference; nothing matches in a call |
| Symbol router, connections (`server.rs`) | tasks, bounded queues, subscribers | admit, restore, stop, broadcast, order status over symbols | full queues, shutdown | one task per symbol; no report lost on a live connection |
| Gateway pool and routing (`pool.go`, `ownership.go`) | connections, `orderClientMap`, provisional routes, `pendingReplace`, `inflightRequests` | send, retry, reconnect, route a report | reordering between connections, duplicates by retry, reports after the route is gone | a live order of a connected client has its route |
| Gateway pending requests (`pending.go`) | up to 4096 requests with timers | add, get, expire, clear | answer against timeout against disconnect | one answer at most; slots come back |
| Gateway client writers (`client_writer.go`) | two queues, `draining`, `stopped` | enqueue, run, drain, fail | drain against enqueue | accepted critical data is written or the client is failed |
| Gateway sessions (`auth.go`) | sessions, cancel-on-disconnect, seen token ids | logon, logout, disconnect, loss of the core | disconnect against loss of the core | orders cancelled when the client drops, only then |
| FIX session (`session.go`) | numbers in and out, pending messages, `resendTo`, state | dispatch, logon, logout, reset, resend, heartbeat | gaps, duplicates, reconnection, resets | each message handled once, in order |
| FIX store (`filestore.go`, `store_epoch.go`) | log, index, numbers, epoch | save, compact, reset, advance, recover | exit and power loss between two files | numbers never go back within an epoch |
| FIX registry, schedule | holders of stores | acquire, release, reset at an instant | late release | at most one holder |

Every part, also those outside a model's reach, is in `PROJECT.json` under
`components`; the hazards of each, at their lines, under `hazards`.

## 2. Modules

| Module | Models | Used by |
|---|---|---|
| `EventLog` | the event log and the symbol tasks that write it | `MCEventLog`, `EventLogProofs` |
| `EventLogProofs` | theorems about `EventLog` | |
| `OrderBook` | the book as a record, its operations and one step of each matching loop, as operators | `Matching`, `Execution` |
| `Matching` | requests on one book; the matching loops run one iteration per step | `MCMatching` |
| `PriceTime` | what a book promises: an abstract specification | refined by `Matching` |
| `Auction` | `uncross` and `allocate` | `AuctionCheck`, `Engine` |
| `AuctionCheck` | all small sets of auction orders, and reference definitions | run `auction` |
| `Execution` | the stop book, execution of each order type, the stop cascade | `Engine` |
| `Engine` | the engine of one symbol, with phases, auctions, expiry, reports, status | `MCEngine` |
| `Calendar` | the date arithmetic of GTD expiry | run `calendar` |

### EventLog

The file is a sequence of frames, of which the first `synced` are on stable
storage; `tail` says whether a torn frame follows. A task goes through `Lock`
(the mutex, the clock and the number), `WriteFrame`, `SyncFrame`, `Execute`
and `Dispatch`, one step each, so that a failure or a power loss can fall
between any two. The engines are deterministic (their only inputs are the
records), so `executed`, the sequence of records executed, stands for their
state. `seen` is a history variable: what clients were told. `Kill` keeps the
file as the operating system shows it. `PowerLoss` keeps the synced frames and
any longer prefix. `AppendFails` is `persistence_failure`: the process exits.

A new log takes four steps, `CreateMagic`, `CreateHeader`, `CreateSync` (the
file) and `CreateSyncDir` (its directory), and the process may die between any
two. A start is `Open`: `Scan` checks the header and truncates a torn tail,
`Replay` executes the file, and the `Recovered` symbols get their catch-up
ticks before `Listen`. Two things are assumed of the file system. A good fsync
makes all earlier frames durable, also one whose own fsync had failed. And a
synced file keeps its name: a process that died between the two fsyncs is
followed by processes that find the file complete and never sync the directory
(`open_configured` does so only for an empty file).

### OrderBook, Matching, PriceTime

The book is a record with the fields of `struct OrderBook`: the two sides as
sequences per price, `order_lookup`, `cum_filled`, `arrival`, `displayed`.
`Matching` takes one request at a time, but its matching loops are steps of
their own, so the invariants are also checked in the middle of a sweep.
`PriceTime` knows only what a trader is promised: a set of orders with a
priority each, a fill only against the best of the other side, never between
orders that self-trade prevention separates. `PriceTimePriority` in
`Matching` says that the book implements it.

### Execution, Engine, Calendar

A symbol task runs one handler to its end before it takes another message, so
a request is one action of `Engine`. Each handler is an operator from engine
to engine. Every request starts with a tick, so `Next` computes `TickAt` once
and hands the result to the request's action. The loop of the tick,
`AdvanceFrom`, goes from instant to instant (boundaries of the schedule,
expiries, the end of an operator's call) as `advance` does. Reports are records
with the fields that properties compare. The variable `engine.out` holds the
outputs of the last request. An execution keeps its fills and the self-matches
it prevented in two lists, the latter with `before_fill`; `AbsorbStp` adds the
base of each matching run and `Merge` interleaves the lists as
`report_execution` does. `StpDefault` is the mode of orders that name none;
only a mode that is named keeps an order out of the auctions. The status history
is kept with a limit of 1 instead of 100,000, so that eviction happens.

`SendersOf` bounds who names which id. In `continuous` both traders name every
id, so that an id passes to the other trader once its order has ended. In the
other runs each id belongs to one trader, as it does behind the gateway, which
puts the trader into the id (`transport/ownership.go`).

`Calendar` states the civil-date formula of `expiry_instant` in days. TLC's
integers have 32 bits, and seconds would overflow them; the code's have 64.

## 3. Runs

Every run but `event_log` checks safety only and assumes no fairness. The runs
of `Engine` check for deadlock: the task's timer can always tick. In the
others a behaviour really ends (a refused log, the last of the bounded
requests, an auction that has run, the last day), so deadlock is not checked.

| Run | Instance | What it shows |
|---|---|---|
| `event_log` | 2 symbols, 2 records, clock 0..1, 2 failures | write-ahead, survival of what clients saw, equality with replay, monotone times, recovery |
| `matching` | 4 ids, 2 traders, 2 prices, 4 requests; plain, iceberg, IOC, FOK and market orders, all self-trade modes | the five copies agree in every loop iteration; order of queues; no self trade; FOK; refinement of `PriceTime`, from which it also follows that fills are at the resting price and an idle book is not crossed; progress of the loops |
| `auction` | up to 4 orders, limits 1..3 and market, quantities 1 and 3, with and without reference price | the clearing price is the one all four rules select (volume, imbalance, distance from the reference, side left over); the allocation is fair |
| `continuous` | 4 ids shared by 2 traders, 4 requests, no schedule | reports, prints, feed and status agree with the orders; stops are elected by every print |
| `sessions` | 3 ids, 3 requests, a full schedule in a day of 4 instants, clock to 4, default mode cancel newest | phases, auctions at open and close, AT_OPEN and AT_CLOSE orders, expiry, late ticks |
| `calls` | 3 ids, 4 requests, a close-only schedule, operator's calls of 1 and 2 | calls begin, end and are crossed by a close |
| `calendar` | 18 years at the edges of the Gregorian rules | consecutive dates expire one day apart |

Why these bounds: four orders are the fewest for an iceberg, a rival at its
price, an aggressor that sweeps both and a stop elected by one print but not
by the last. Quantities up to 3 give a partial fill, a replenishment and a
remainder. Two prices give a better and a worse level. Two traders give self
trades, replaces to an id in use and ids that change hands. Two failures give
a crash during recovery from a crash. One day and the
first instant of the next give every boundary, several of them within one late
tick. Ids and traders are compared only for equality and levels hold sequences,
so ids that the same traders may name are interchangeable, and so are the two
traders where they share all ids. This justifies the symmetry.

Fairness: `event_log` assumes weak fairness of the start-up steps, for
`Recovers`. They are consecutive statements of one function (`start_server`),
and a supervisor starts a core that is down: the restart policy
`unless-stopped` of `docker-compose.yml:16` and of the development and demo
files. It does not hold for `deploy/compose.release.yml`, whose line 11 says
`restart: "no"`: there `Recovers` needs an operator who starts the core again.
Failures are bounded, as no core starts if it is always killed.

Each property of a passing run has a mutant in `PROJECT.json`: a definition
altered the way a slip in the code would alter it, with which TLC finds the
property violated.

### Findings

Five runs are expected to find a violation of what the repository says.

| Run | Statement | What the code does |
|---|---|---|
| `close_without_schedule` | README:140, AT_OPEN and AT_CLOSE are rejected without a full schedule | an AT_CLOSE order is accepted during an operator's call, and no boundary ever moves it into a closing call |
| `call_over_close` | README:136, AT_CLOSE orders are off the book in Continuous | an operator's call that ends at the instant of the close runs Open, and the `else if` of `advance` then skips Close (phases.rs:81-83): the engine returns to Continuous with them on the book |
| `call_iceberg` | docs/iceberg-orders.md:13 and :28, icebergs cannot enter an auction, the feed shows what is displayed | an operator's call starts over resting icebergs; an auction fill then displays the whole remainder without publishing it |
| `replace_to_ioc` | README:130, the remainder of an IOC order is cancelled | a replace to IOC leaves the remainder on the book |
| `replace_to_close` | order_book.rs:22 and :300, `cum_filled` is known for each live order, a replacement rests with total - filled | a replace to AT_CLOSE forgets the fills, so a later replace rests with the whole total |

The passing runs choose their orders and changes so that these five do not
occur where they would break another property: `FillsKnownToBook` and
`FeedShowsDisplayed` are not checked in `sessions`, for instance. This is a
limit of what those runs show, and the findings say exactly how far it goes.

One more limit is seen only where traders share ids under a schedule, which no
run does. `bind_status_owner` (engine.rs:276) looks for the last report about
the new id among all outputs of a request, and these begin with the reports of
its tick. A refused cancel/replace reports under the old id. If the tick has
just filled a live order of another trader that has the requested new id, the
fill is taken for the acceptance, and the order's status passes to the sender
of the refused request, against the comment at engine.rs:295 ("Never change live
routing or expose other owners."). With `SendersOf` as in `continuous` TLC finds
`StatusCurrent` (part of `ReportsSound`) violated in `sessions` after three
requests. Behind the gateway ids do not collide between traders, and the case
does not arise.

## 4. Proofs

`EventLogProofs` proves for every set of symbols and requests, and every
number of records, crashes and clock values, that the specification of the
event log keeps `TypeOK`, `SeqContiguous`, `WriteAhead`, `SeenSurvives`,
`LiveIsReplay`, `TimesMonotone` and `RefusedLogIsUnused`. The only
assumption is `EventLogAssumption`: the bounds are natural numbers, and no
client request is called a tick or a status query.

None of these is inductive. Whether a record about to be executed is durable
depends on where its task stands, and whether a second task can interfere
depends on the mutex. `IInv` therefore adds

- `TasksInv`: the mutex is held by the one task between `Lock` and `Execute`,
  and only a serving core has tasks;
- `HeaderInv`: nothing precedes the header, and an incomplete one has nothing
  after it;
- `FramesInv`: numbers, times and the durable prefix;
- `StartInv`: during start-up the engines have executed exactly the file, and
  once the last catch-up tick is written all of it is durable;
- `FreeInv`: with the mutex free, file, engines and stable storage agree;
- `HeldInv`: with the mutex held they differ by the one record in flight, in a
  way that depends on the holder's step.

`StartInv` carries the subtle case: a frame whose fsync failed is replayed by
the next process although it is not durable yet. It becomes so with the
catch-up tick of its own symbol, before any client is served. This is why
`WriteAhead` speaks of a serving core only.

`NextIInv` has one step per action; the three ways a process dies share
`GoneFacts` and `DeathIInv`. The theorems follow from `Inductive`.

`SeqContiguous` is proved only: a run of two records adds nothing to its proof.

Only model-checked: `Recovers` (liveness under fairness is outside the
prover's reach), and everything about the book, the engine and the auctions.
What a recursive definition computes for all inputs cannot be proved here
either, which concerns the loops of `Execution`, `Engine` and `Auction`.

## 5. Not modelled

- Bytes: frames, CRCs, protobuf, FIX fields, parsing of configuration and
  schedules, report texts, execution ids.
- The directory entry of the log: see the two assumptions under EventLog.
- Integer widths: prices and quantities are small. The u32 sums of the
  snapshot are a listed hazard without a property.
- Metrics, diagnostics, traces, and the offline replay tools that read a
  finished log.
- A wall clock that steps back. `advance` ignores one, and `TimesMonotone`
  is stated for a clock that does not.
- Demo API, console, SDK, simulation, benchmarks, scripts: clients of the
  system.

## 6. Plan

Next, the gateway and the bridge:

1. `GatewayRouting`: requests over several pool connections, `writeVia`'s
   retry, the route maps, an abstract core that answers in its own order.
   Properties: a live order of a connected client keeps its route; a reject
   never removes the route of another order; a replace leaves exactly one.
   Run with 2 connections, 2 clients, 3 ids.
2. `PendingTracker`: add, answer, expire, clear. One answer per request; slots
   return. Proof of both.
3. `ClientWriter`: two queues of length 2, two producers, drain, stop, failure.
   What was accepted before the drain is written; a drained writer finishes.
4. `GatewaySessions`: logon, logout, disconnect, loss of the core;
   cancel-on-disconnect exactly for clients that dropped.
5. `MarketDataFeed`: subscriber list, full queues, reconnection and restoration;
   under fairness every subscribed symbol is subscribed again.
6. `FixStore`: save, numbers, compaction, reset, epochs, process exit and power
   loss. Proof that the numbers of an epoch do not go back.
7. `FixSession` over an abstract store and a channel that loses its tail at a
   disconnect: each application message is handled once and in order. The
   abstract specification is an in-order queue. Composition with `FixStore`.
8. `SymbolRouter`: admission at the limit, restoration, stop.

Then further proofs: `BookConsistent` and `QueuesByArrival` for `Matching`
(`OrderBook` has no recursive operators), the invariants of
`PendingTracker`, `ClientWriter` and `FixStore`, and the refinement of
`FixSession`.
