# Formal models of the anofox-visualization server

TLA+ models, model-checking runs and machine-checked proofs for the server in
this repository: `anofox_serve`, the locked dashboard server that runs inside a
DuckDB process (`duckext/src`), the host logic it shares with the other front
ends (`src/host`), and, where the two meet, the page's side of a save
(`web/app.js`).

Rendering (charts, tables, layout), SQL analysis and linting are most of the
code and pure functions of their input. What is hard to test is the server: a
pool of HTTP workers that share a result cache, connections and an append-only
log, a handful of background threads that replace the data under them, and a
disk and a remote source that fail. That is what is modelled here.

- [The system](#the-system)
- [Plan](#plan)
- [The modules and the code](#the-modules-and-the-code)
- [What the runs check](#what-the-runs-check)
- [What is proved](#what-is-proved)
- [Where the code and its documentation disagree](#where-the-code-and-its-documentation-disagree)
- [What is not modelled](#what-is-not-modelled)
- [Working on it](#working-on-it)

## The system

A locked server has one *snapshot*: a copy of the author's data in a DuckDB
instance of its own, with the dashboards checked against it (a *generation*).
HTTP workers answer panel requests from the generation in service and take
submissions and saves into append-only logs. Background threads build new
generations, run scheduled tasks, take in data, evaluate alerts, and copy the
logs to an object store.

| Component | State | Operations | What makes it correct |
|---|---|---|---|
| Panel result cache (`duckext/src/panel_cache.rs`) | one mutex over: kept results and their use order, running flights, joinable flights, live tickets; one condition variable | `run_ticket` (hit, join, start), `wait`, `cancel`, `complete`, `register`/`Registered`, `TicketGuard` | one query per result; a superseded request answers at once; nobody else is cancelled with it; a query nobody wants is interrupted, and no other |
| Executor (`run_panel`, `WarmPool`, `MatStore`, `run_materialized` in `duckext/src/serve.rs`) | idle prepared connections; slots of built tables; a watchdog | warm or fresh connection, setup, materialize, query, deadline, pool | a pooled connection is as good as a fresh one; every table is accounted for, none is dropped in use |
| Limits (`duckext/src/limits.rs`) | bytes in flight; running and waiting queries | `hold`, `acquire`, drop | cap plus allowance; no slot is lost |
| Generations (`duckext/src/generation.rs`) | current generation, rebuild mutex, failure flag and count | `get`, `rebuild` (waiting or skipping), `refreshing` | a failed rebuild leaves everything in service; generations never go back; a waiting caller sees its own data |
| Refreshers (`serve.rs`) | `latest` dashboards, the ingest wish, a stop flag | interval, task, ingest, on-demand refresh, reload | a wish is never lost; no refresh undoes a reload |
| Source builds (`serve.rs`, `duckext/src/source.rs`) | per-server flag and deadline, process-wide count | `run_source_build`, two drop guards | flag and slot come free exactly once; a stuck copy shows |
| Agent mode (`serve.rs`, `src/host/drift.rs`, `src/host/agent.rs`) | pending flag, switch-off list, pinned text | `drift_due`, `run_drift`, `handle_agent` | no unchecked question is answered |
| State store (`src/host/state.rs`) | append-only file, records, next sequence number, poison flag | open and recover, append, erase | what was acknowledged survives; no torn line in the middle |
| Submissions (`serve.rs`) | idempotency window, per-viewer mutexes, cached gates | `POST /api/submit` | one record per click; "only once" holds; the quota holds |
| Write-back (`src/host/writeback.rs`, `serve.rs`, `web/app.js`) | change log, commit mutex, two caches by generation; the page's base | `POST /api/save`, panel reads; `doSave` | no lost update; a panel shows one generation |
| Durable copies (`serve.rs`) | the last snapshot sent, the stop flag | `durability_runner`, `durable_snapshot`, `durable_restore`, `stop` | an orderly stop leaves nothing behind |
| Saved views and notes (`src/host/views.rs`, `notes.rs`) | a fold of a log | saves | as the state store |
| Alerts and reports (`src/host/notify.rs`) | alert states on disk, schedules | decide, deliver, save | every change of state is told, once; a failed send is tried again |
| Ask (`src/host/ask/*`) | conversations, token budgets, running questions | ask, cancel, tools | budgets hold; a cancelled question stops |
| Sign-in, policy, access (`src/host/auth/*`, `policy.rs`, `access.rs`, `serving.rs`) | session table, revocations; policies are text | checks of one request | pure functions of their input, mostly |
| SQL analysis, rendering, browser client, CLI, bindings | none, or process I/O | – | pure functions |

How they interact: an HTTP worker takes the generation (`Current::get`), takes a
ticket of that generation's result cache (every generation has its own) and
enters it; if it has to execute, it waits for a query slot, takes a connection of
the generation, runs the dashboard's setup (shared results are built once in the
snapshot's own catalog), charges its bytes, and completes its flight, which wakes
the requests that joined. A background thread takes the rebuild mutex, copies the
data under the author's connection lock or from a remote source on a thread with
a deadline, records the outcome, swaps the generation, and (agent mode) runs the
drift test afterwards. An ingest request writes and raises a wish; the ingest
refresher takes it down and rebuilds. Submissions and saves go to append-only
logs and need no rebuild: gates and panels read the log through caches keyed by
its generation. A durability thread copies the log's file to an object store.

What is hard about it: requests of one viewer supersede each other while they
share queries with other viewers; cancellation is cooperative, through an
interrupt sent to a connection somebody else may own a moment later; a rebuild
takes minutes while five kinds of callers ask for the next, and its copy may
never come back; flags are read, the lock dropped, and the decision acted upon
later; a client that got no answer sends the same submission again, perhaps to a
restarted server; a write may fail half way. `PROJECT.json` ("hazards") lists
each such place with its line and the properties that watch over it.

## Plan

Order: what every request goes through first, then what replaces the data under
it, then what must survive a crash.

| Step | Module | Composes | Abstract specification | Proofs |
|---|---|---|---|---|
| done | `Recency`, `RecencyCache`, `ResultStore`, `ResultStoreInv` | – | `RecencyCache`: a byte-bounded list in order of use | `ResultStoreProofs`: inductive invariant, one property, refinement |
| done | `PanelCache`, `PanelCacheInv` | `Recency` | – | `PanelCacheProofs`: inductive invariant, eight properties |
| done | `Materialize`, `RunPanel`, `RunPanelInv` | `RunPanel` on `Materialize` | – | `RunPanelProofs`: three inductive invariants, four properties |
| done | `Refresh`, `RefreshInv` | – | – | `RefreshProofs`: inductive invariant, five properties |
| done | `SourceBuild`, `SourceBuildInv` | `Refresh`, in place of its copy | – | `RefreshProofs`: inductive invariant, three properties |
| done | `AgentDrift`, `AgentDriftInv` | `Refresh` | – | `RefreshProofs`: inductive invariant, three properties |
| done | `DurableLog`, `StateStore` | – | `DurableLog`: a log that only grows, or forgets one user | `StateStoreProofs`: inductive invariant, refinement |
| done | `Submit`, `SubmitInv` | `StateStore` | `DurableLog` | `SubmitProofs`: inductive invariant, four properties, refinement |
| done | `WriteBack`, `WriteBackInv` | `StateStore` | `DurableLog` | `WriteBackProofs`: two inductive invariants, four properties, refinement |
| done | `SavePage` | the page on the server | – | – |
| done | `Durability` | `StateStore` | – | – |
| done | `Alerts` | – | – | – |
| done | `FoldFacts` | – | – | sums over sets and folds over sequences |
| open | proofs about `SavePage`, `Durability` and `Alerts` | | | |
| open | `Queries` (the slots), `AskLimits` (token reservations), the schedules of tasks and reports | | | |

## The modules and the code

Each action is one lock section, or one step between two points at which another
thread can intervene. `PROJECT.json` ("map") names the lines of every
definition.

### Panel results

**`Recency`** has the operators on a list of results, least recently used first:
`Touch` (a hit), `Fit` (evict until something fits), `Keep` (store: refused when
larger than a quarter of the cap, or already there). **`RecencyCache`** is the
specification of a cache that consists of these two operations.

**`ResultStore`** is how the code keeps that list: `entries` (map from key to
size and tick), `lru` (B-tree from tick to key), `bytes`, `tick`, with
`Inner::lookup` and `Inner::store` as the actions and the eviction loop turn by
turn (`Pop`). A refinement mapping (`ByUse`) gives the list back. **`ResultStoreInv`**
states the inductive invariant, also of the contents between two turns of the loop, and
what the loop leaves (`Left`); **`ResultStoreProofs`** proves both and the refinement.

**`PanelCache`** is everything else under the same mutex. A request is a model
value with a result key and, optionally, a ticket key (viewer, panel, kind).
Flight and ticket ids come from a counter in the code; here a request stands for
its own ticket and for the flight it starts, which is sound because a request
takes at most one ticket and starts at most one flight.

| Code | Model |
|---|---|
| `Inner` maps `keys`, `tickets`, `running`, `flights`, the store | `keys`, `cancelled`/`tflight`, `joinable`, `flight`, `lru` |
| `PanelCache::ticket` (first lock section) | `TakeTicket` |
| `run_ticket` (second lock section): early 409; hit; join; start | `Refused`, `Hit`, `Join`, `Start` |
| `supersede` and `cancel`, called inside those sections | `Supersede`, `Cancel` (operators, part of the same step) |
| `run_panel`: slot, connection, `Abort::register` | `GiveUp`, `ExecFails`, `Register` |
| the query; `Registered::drop`; wording of the error | `QueryEnds`, `Unregister`, `Report` |
| `complete` with the executor's first turn of `wait` (one lock section) | `Complete` |
| `wait` on the condition variable | `asleep`, `WakeCancelled`, `WakeFinished`, `SleepAgain` |
| `TicketGuard::drop` | `Release` |

`struck` remembers the executors whose registered connection an interrupt was
sent to. A query ends with the interruption error only then. `QueryEnds` may
still say "ok" or "error" after an interrupt: it can arrive when the query is
over. **`PanelCacheInv`** states the inductive invariant, **`PanelCacheProofs`**
proves it.

### One request's execution

**`Materialize`** is `MatStore` and `run_materialized`: the list of shared
results with its mutex, one mutex per entry (`Slot`, the identity of an `Arc`),
and tables in the snapshot's catalog that other requests copy from while they are
evicted. `Find` and `Push` are `MatStore::slot`; an eviction spans two steps,
because the code picks a victim whose mutex is free (`try_lock`), lets it go, and
locks it again to take its table with the list still locked. A thread that comes
in between builds in an entry that is already off the list; `Copy` is the check
afterwards (`holds`) that drops such a table. A `DROP` runs on the request's own
connection, which may be interrupted, and its error is ignored (`serve.rs:2619`, `2667`):
`Drop` may fail, and the table is then one of `left`, a history variable.

**`RunPanel`** extends it with the rest of `run_panel`: `Take` (warm pool or fresh
connection, `Abort::register`), `Reuse` or `Setup` (which may also return early, and the
connection is closed), the materialized statement (`Mat`, `MatEnds`), `Grow`/`Undo`
(`Charge::hold`, which adds first and takes back), `Shrink` (its other branch), `Query`,
`Put`. `Abandon` (every viewer has left, the interrupter strikes) and `Fire` (the watchdog
at the deadline) come at any moment; what the code asks afterwards, whether either
happened, is `cut`. A connection is the set of
variables with a value, whether all of its setup ran, and whether an interrupt may be
pending on it. The query slot a request waits for before is `PanelCache`'s `GiveUp`.
**`RunPanelInv`** states the invariants of the connections, of the bytes and of the
shared tables, **`RunPanelProofs`** proves them.

### Generations

**`Refresh`** follows `Current::rebuild` step by step: `Lock` or `Skip`, `Load`
(which dashboards), `Copy` (the data, under the author's connection lock),
`Check` (policy and dashboards; a reload stores its set in `latest` here),
`MarkOutcome` and `CountOutcome` (what /healthz shows), `Swap`, `Unlock`. Five kinds of
callers differ in how they begin: the interval refresher and the task runner skip
when the mutex is taken, on-demand refresh, reload and the ingest refresher wait.
`Peek` is a /healthz or /metrics request that asks whether a rebuild runs and holds the
mutex for a moment to find out. Data and dashboards are version numbers, so
"serves old data" is a comparison. A build can fail at every step where it calls
something that can. Panics in a build are left out. **`RefreshInv`** states its
inductive invariant, **`RefreshProofs`** proves it.

**`SourceBuild`** extends `Refresh` and replaces `Copy` by `run_source_build`: flag,
process-wide counter (`fetch_add`, then compared, then undone), deadline, spawn, the
channel with its timeout. The copying thread (`Copier`) sends, fails, panics or never
comes back; its two guards are dropped in the order of their declaration, after the
result is sent. Other servers of the process are only the slots they hold
(`elsewhere`). **`SourceBuildInv`** states what its invariant adds to `Refresh`'s,
which `RefreshProofs` proves too.

**`AgentDrift`** extends `Refresh` with `drift_due` at the end of a build, `run_drift`
after the mutex is released, the list and the flag, and an agent request that reads
generation, flag, list and generation again in four separate steps. Any number of threads
rebuild, and their drift runs may overlap; `overlapped` is a history variable, the epochs
that became due (`CheckDue`) while a drift run was under way. `text` (what each version of
the folder has for the agent's dashboard, or that it has none) is chosen arbitrarily at the
start; `Bad` (on which data the question is out of its range) is a constant.
**`AgentDriftInv`** states the inductive invariant, which `RefreshProofs` proves for any
number of rebuilding threads.

### What must survive

**`StateStore`** is the append-only file of `src/host/state.rs`. A file is what a later
open makes of its bytes: complete lines that are safe, a complete line whose sync failed
or never came, a torn line. Every action that can die half way has a crash of its own
(`OpenCrash`, `AppendCrash`, `EraseCrash`), an append can fail and leave nothing, a
fragment or the whole line (`AppendFails`, after which the store refuses), and
`PowerLoss` takes unsynced lines from some line on. **`DurableLog`** is what it
promises: records are added at the end under growing numbers, or one user's are gone at
once.

**`Submit`** runs `handle_submit` on it. A click is a viewer, the nonce of its page and
the statement it names; a client may send any click at any time again, so lost answers,
retries, two tabs and a retry after a restart are all there.

| Code | Model |
|---|---|
| checks up to the nonce | `Arrive` |
| `ViewerLocks::get`, with its eviction of mutexes nobody holds | `GetLock` |
| `try_lock`: 409 or on | `TryLock` |
| nonce and quota again, under the mutex | `Check`, `MayGoOn` |
| the `::SUBMIT` statement through the cache of results, keyed by the viewer's generation | `Gate`, `GateFails`, `gates` |
| `Store::append` | `Store`, `StoreFails`, `StoreCrash` |
| `RecentIds`, insert and expiry | `Remember`, `ForgetId` |

**`WriteBack`** is `handle_save` on the same store (commit mutex around conflict check
and append) with the readers of the change log: `snapshot_all` with its unlocked hint
(`ReadHint`, `ReadRows`) and the fold cached by generation (`ReadFold`). `Clash` and
`Fold` are `conflicts` and `fold` of `writeback.rs`; a cell's value is the number of the
save that wrote it. **`WriteBackInv`** and **`WriteBackProofs`** are about the saves and
about what the readers and the two caches hold.
**`SavePage`** puts pages in front of it: `saveGen`, the edits on a page, what each answer
does to the base, and the re-run it causes (`due`, `Rerun`), which throws away an edit of a
graph or form whose rows have changed (`diagramEditValue`, `formValue`) and leaves the
others; a re-run may fail (`RerunFails`) and may have other reasons (`RunAgain`). `Reading`
says which graphs and forms show rows of the saved tables.

**`Durability`** is the durability thread on the store: sequence number, copy and upload
in three steps, while workers append, `stop()` raises its flag and joins, and nodes are
replaced.

**`Alerts`** is one alert of `options.alerts`: `Evaluate` (its panel), `Decide` (against the
remembered state, read under the mutex of `alert_states`), `Send` (the channels of
`deliver_all` one after the other, each of which may fail, also after it took the message),
`Remember` (memory, then the file), and the restart that reads the file (`Restart`). The
rows are a hash or none; `repeat_after` is a flag that time sets (`Age`).

### Operators marked "Wrong on purpose"

Next to some definitions stands a second one, with the same parameters, marked
*Wrong on purpose*: it is the definition with a plausible mistake (a dropped
guard, a count that is off by one, a missing wake-up). No specification uses
them. Put in place of the right definition, each makes TLC report the property
that `PROJECT.json` ("mutants") pairs it with; that is the evidence that the
property can fail, and what kind of change in the code it would notice.

## What the runs check

Every passing run is exhaustive within its bounds. Deadlock is checked except where the
system may really stop: `submit` and `writeback`, whose processes end for good
(`MaxExits`) and whose file may be full.

| Run | Instance | Distinct states | Shows |
|---|---|---|---|
| `panel_cache` | 3 requests, 2 results, 1 ticket key; every choice of what the requests ask for | 103 000 | `NoForeignCancellation`, `WaitersCounted`, `SingleFlight`, `InterruptOnlyAbandoned`, `InterruptReachesOwnQuery`, `NoLostWakeup`, `NewestSurvives`, `NoStaleFlight`; and that everybody gets an answer: `SupersededAnswers`, `AbandonedEnds`, `OnlyQueriesBlock` |
| `result_store` | 6 keys, sizes 1, 3, 4 under a cap of 12, 8 ticks | 6 800 | `MapsAgree`, and that the maps implement the list (`ImplementsRecency`) |
| `run_panel` | 2 workers, 3 kinds of requests (two share a setup, with different variables), one pooled connection, one cached table, 3 units of memory, one `DROP` that fails | 3.2 million | `PoolClean`, `OwnVariables`, `BytesBounded`, `TablesAccounted` |
| `refresh` | interval refresher, one task, ingest refresher, reload, one batch, a health request, one edit of the folder, one call each | 1.0 million | `RunningSetServed`, `NeverBackwards`, `FreshOnReturn`, `FailuresCounted`, `WishesKept` |
| `source_build` | interval and ingest refresher, one batch, a health request, two copying threads, two slots per process that other servers use too, one change of the data | 69 000 | `SlotsExact`, `StuckShows`, `FreshOnReturn`, and under fairness `CallsEnd`, `BatchesShown` |
| `agent_drift` | the interval refresher and a reload, one call each, one change of the data (which puts the question out of its range), one edit, one agent request | 386 000 | `CheckedUnlessOverlapped`, `UntestedHasRun`, `OwnAnswersChecked`, `AnswersResume` |
| `drift_overlap` | two rebuilding threads | | refutes `PendingUntilChecked` (see below) |
| `submit` | 2 workers, 4 clicks of 2 viewers (two of them the same gated statement), 3 records, 2 per viewer, a mutex map of 1, one end of the process | 1.5 million | `AckedSurvive`, `OnceOnly`, `QuotaHeld`, `RememberedOnce`, and that submissions implement the log (`Promise`) |
| `writeback` | 2 workers, one panel, a save of a whole table and two of one row, bases 0 and 1, 3 records, one end | 1.2 million | `SavesChecked`, `SavedOnce`, `PanelsExact` |
| `save_page` | two tabs of two writers, one graph drawn from a saved table, one form | | refutes `EditsKept` |
| `stop_snapshot` | 2 workers, the durability thread, a stop | | refutes `StopKeepsAll` |
| `alert_resolved` | one checker, two channels, two possible results | | refutes `ResolvedTold` |

**Why the bounds are enough.** In `panel_cache` three requests give every
interaction the code distinguishes: an executor, a request that shares its flight,
and one that supersedes either of them; two of them with one ticket key and the
third without; chains of three supersessions; two flights of one key (an abandoned
one and its successor). Two results are needed for a viewer who moves on to
something else. A third result or a second ticket key adds only independent
behaviour. The safety properties are proved for all sizes anyway. Symmetry reduction
is unsound for liveness, so `MCPanelCache` instead starts from inputs sorted by
what the requests ask for: requests are interchangeable, and every other input is
a renaming of a sorted one. All results have size 1 there, so nothing is evicted:
evicting is `ResultStore`'s subject, where a result of 3 may have to evict several
of 1, a result of 4 is refused and the order of use matters with six keys.
`MaxTick` cuts the tick counter after 8 operations, enough to fill the cache,
touch, and evict.

In `run_panel` `MatCap = 1` lets two keys evict each other in the middle of a build,
`WarmCap = 1` lets one return of a connection push out another, and with `Cap = 3`,
`Free1 = 1` two results of 3 exceed the cap together. Slots and tables are named by the
lowest free number: three slots are never all in use by two threads and one entry, nor are
three tables when `MaxLeft = 1` of them may be left over by a failed `DROP`.

In `refresh` each thread calls once (`MaxCalls`), which is enough for any two kinds
of callers to overlap in any order: the batch may be written, and its wish raised, at any
step of a rebuild that somebody else began, before or after that rebuild has copied the
data. A second batch, whose wish meets the rebuild of the first one's, only exceeds
what TLC can enumerate beside the other callers; `WishesKeptHolds` has any number of them.
The on-demand caller differs from the ingest refresher only in that it waits without a wish;
the proofs have all five kinds. `MaxEdits = 1` gives a
reload something to load. In `agent_drift` `Bad = {1}` lets a question leave its range
between two rebuilds, before, during or after either's copy and probe. Two rebuilds are
enough for a run that overlaps the next rebuild, or both of its halves; what only a
third would show, an epoch that is not overlapped after one that is, is covered by the
proofs, which have any number of rebuilds. In `source_build` a copy that never comes back, a caller that is
refused because of it, and a process at its cap all happen with two callers; a copying
thread's identity is used again when it has ended, and two are enough because the flag
allows one at a time and the other may still be giving its slot back.

In `submit` and `writeback` three records leave room for a record before, a record that
races and one after; the quota (2) is below that, so that it binds; `LockCap = 1` makes
the second viewer evict the first one's mutex. One end of the process gives a restart
with every torn or unsynced tail the first process may leave. Threads are
interchangeable (symmetry); clicks are not. The properties of `submit` and
`writeback` are proved for all sizes.

**Fairness.** `PanelCache`: threads are scheduled (weak fairness of the steps between
waiting points), and a query that was interrupted ends. The second assumption is what
`Conn::with_deadline_fired` gives: if the interrupt arrives between two statements and
is lost, the deadline's interrupt follows. Of a query that nobody interrupted nothing
is assumed, so `SupersededAnswers` and `OnlyQueriesBlock` hold although a query may
run for ever. There is no fairness between requests: nobody is promised to be the one
to execute. `SourceBuild`: a thread that
waits for the rebuild mutex gets it in the end (strong fairness of `Lock`): a
`std::sync::Mutex` promises no order, but rebuilds of the skipping callers are an
interval apart and a health request lets go at once, so it is free for long stretches. Nothing makes anybody write, edit or
call; only a wish once raised is acted upon. Why a build ends is part of the model:
deadlines pass and the server's own threads run, while nothing makes a copying thread
come back and nothing makes other servers free their slots. `AgentDrift` takes the end of
a build for granted (its copy is `Refresh`'s, whose parts all have a deadline), and
that a drift run ends, since `run_drift` stops probing at its deadline. `Refresh` by
itself, `RunPanel`, `Submit`, `WriteBack` and `Durability` state safety only.

## What is proved

### Panel results

`PanelCacheProofs`, checked by TLAPS for every finite set of requests, every set of
result keys and ticket keys, every size function and cap:

- `Invariance`: `Spec => []IInv`, and from it `TypeCorrect`,
  `NoForeignCancellationHolds`, `WaitersCountedHolds`, `SingleFlightHolds`,
  `NoStaleFlightHolds`, `InterruptOnlyAbandonedHolds`, `NoLostWakeupHolds`,
  `NewestSurvivesHolds`;
- `InterruptReachesOwnQueryHolds`: the action property, from the same invariant.

The assumptions are `ReqAssumption` (requests are a finite set, `None` is not one) and
`KeyAssumption` (`None` is no ticket key, sizes and cap are natural numbers).

*Why the properties are not inductive.* That a flight counts its waiters exactly
says nothing about a request that thinks it is attached to a flight which is gone:
its leaving would make the count wrong. `IInv` therefore ties the three views of one
fact together: where a request is (`pc`, `fid`), what its ticket says (`tflight`),
and what the flight says (`waiters`, `abandoned`, `outcome`, `interrupt`). Its parts:

| Part | Says |
|---|---|
| `FlightsOK` | a running flight has no outcome and is abandoned exactly when nobody wants it; a finished one lives on only for those who still pick up its outcome |
| `JoinableOK` | joinable flights are exactly the running ones that are not abandoned |
| `StruckOK` | an interrupt was only sent to an abandoned, running flight |
| `ResultsOK` | what an executor carries from step to step; "interrupted" only when it was, "superseded" only when abandoned |
| `TicketsOK` | a ticket is attached to the flight its request is on, until it is cancelled |
| `HoldersOK` | the holder of a ticket key has superseded the others |
| `SleepersOK` | whoever sleeps waits for a running flight |

*The argument.* One lock section changes several of these things one after the
other: a request joins or starts a flight first and only then cancels the request it
supersedes, perhaps the same flight's last waiter. So the parts of `IInv` take the
flights, the joinable flights and the sets of interested requests as parameters and can
be stated of the middle of a section. `CancelStep` proves once that `cancel` takes
any consistent state to a consistent one; `SupersedeStep` adds the case in which
there is nothing to cancel; `Hit`, `Join` and `Start` show that what they do before is
consistent and cite it. Each other action has a lemma of its own.

### The cache's maps and the list

`ResultStoreProofs`, for any keys, sizes, cap and bound of the tick: `StoreCorrect`
(`Spec => []IInv`), `MapsAgreeHolds` and `StoreImplementsRecency` (`Spec =>
ImplementsRecency`). The assumption is `StoreAssumption` (sizes and cap are natural
numbers). `IInv` says that the contents are `Kept`: finitely many entries, each found in
the index under its own tick, nothing else in the index, the byte count their cost; and
that nothing is over the cap or newer than the tick.

*Why more is needed.* `Store` does not change one entry, it runs a loop: what it leaves
must be said for every turn. `Left` says it: the newest entries as they were, and nothing
went that fitted beside the new result with all that is newer. `PopStep` shows that a turn
keeps it, `LoopLeaves` that the loop ends (it turns once per entry at most) with a cache
that has room.

*The argument of the refinement.* `Enum` lists the ticks of the index in order;
`InOrderIs` shows that `ByUse` is the entries in that order. `HitList`: the enumeration
without the entry's old tick, with the new one at the end, is that of the new index, and
its list is `Touch` of the old one. `StoreList`: the sum of a suffix of the list is what
its entries cost (`SuffixIs`), so the entries `Fit` drops, counted on the list, are those
the loop evicted by tick (`FitIs`, through `Left`), and the rest of the list and the new
entry are the new index in order.

### Generations

`RefreshProofs`, checked by TLAPS for every set of threads of the five kinds, writers and
health requests, and without regard to `MaxCalls` and `MaxEdits`: `Invariance`, and from
it `TypeCorrect`, `RunningSetServedHolds`, `FreshOnReturnHolds`, `FailuresCountedHolds`,
`WishesKeptHolds` and the action property `NeverBackwardsHolds`. The assumption is
`ThreadAssumption` (the threads of the five kinds, writers and health requests are
different things, finitely many, and `None` is none of them).

*Why the properties are not inductive.* That a swap does not go backwards is decided
minutes earlier: when the dashboards were read and the data was copied, under the mutex.
`IInv` carries it from there: whoever is inside `rebuild` holds the mutex (`MutexOK`);
what is being built is no older than what is in service (`BuildsOK`), and no older than
what its caller asked for (`FreshOK`); the next build's dashboards are in service or the
mutex holder is about to put them there (`DashesOK`); nothing is newer than its source
(`SourcesOK`), which is why a copy is never older than an earlier one; flag and count
agree except between the two writes (`OutcomeOK`).

*The argument.* One lemma per action, one step per part. The three places where a build
can fail share `FailsStep`; `Load`, `Copy` and `Check` cite it and treat their success.
For `WishesKept` a second invariant, `WishOK`, names who owes a batch its place in
service (`Owed`): a refresher in its call whose snapshot is of data at least as new, or an
idle one whose last refresh failed. It is kept because a wish is taken down before
the data is looked at; that the call ends with the batch in service is `FreshOK`.

`RefreshProofs` proves the same of a server with a remote source, for any number of
copying threads, slots and other servers: `SourceInvariance` (`SourceSpec => [](IInv /\
SourceInv)`), `SlotsExactHolds`, `StuckShowsHolds` and `SourceFresh`, under
`SourceAssumption` (the identities of copying threads are finitely many, so that slots can be
counted; the bounds are natural numbers). `SourceInv` adds to `IInv`:

| Part | Says |
|---|---|
| `CallersOK` | a thread is in `run_source_build` only while its build copies, so at most one is; a channel's copy is as new as what it is compared with later |
| `CopiersOK` | no copy is newer than the source; a thread that has ended is remembered only for its channel |
| `FlagOK` | the flag is the attempt's until its copy starts, then the copy's; never both, never two copies |
| `CountOK` | the counter is the attempt's slot, the copies', and the other servers'; a slot that is about to be undone is no slot of the cap |

*The argument.* `RefreshFrame` shows once that nobody in `run_source_build` notices a step of
`Refresh` outside of it; `GiveStep`, `HangUpStep` and `CopierStep` are what an error, a
given-up channel and a copying thread's step leave to be shown. The heart is `Spawn`, where
flag and slot change hands, and `TimeOut`: the copy goes on with both, and shows.

### The state store and submissions

`StateStoreProofs`, for any users, nonces, bodies and cap: `StoreCorrect`
(`StoreSpec => []StoreInv`) and `StoreImplementsLog` (`StoreSpec => Promise`, the
refinement of `DurableLog`: what is safe on the disk is its log, step by step).
`SubmitProofs`, for any number of workers, clicks, gated statements, quota and bound of
the mutex map, with any number of process ends (`MaxExits` plays no part):
`SubmitCorrect` (`Spec => []IInv`), `AckedSurviveHolds`, `OnceOnlyHolds`,
`QuotaHeldHolds`, `RememberedOnceHolds`, `SubmitImplementsLog`. The assumptions are
`MaxLinesAssumption` and `SubmitAssumption` (clicks are made of the other constants,
limits are natural numbers, mutexes are numbers).

*Why the properties are not inductive.* That acknowledged records are on the disk says
nothing about the next append: it needs `Faithful` (memory and file agree until a write
fails) and the order of the records, so that a torn or unsynced tail can go without
taking an acknowledged record with it. `StoreInv` is those parts together. That a
statement is recorded once says nothing about a request between its gate and its append.
`SubmitInv` carries the check to the append:

| Part | Says |
|---|---|
| `LockHeld`, `OnePerViewer` | a request's mutex is the one the map has for its viewer, so no two requests of a viewer are past it, although the map drops mutexes |
| `Admitted`, `Opened` | what was checked under the mutex still holds when the record is appended |
| `GatesTrue` | a cached gate answer is of an older generation of the viewer, or true |
| `Answered` | a record of this process has been answered, is about to be, or was forgotten |
| `Quiet` | without a process, nothing is remembered |

*The argument.* `StoreStep` has one lemma per action of the store and is used again by
every action of `Submit` that takes one. `WorkerKeeps` is the frame: a worker's step that
leaves the store alone keeps what concerns the others. The append (`StoreStoreStep`) is the
heart: the new record is the viewer's first of a gated body because of `Opened`, within
the quota because of `Admitted`, and newer than every remembered gate; `OnePerViewer` says
that no other request of the viewer had its checks spoilt. The records of the file and of
memory are counted through `RowsAppend` and `PrefixFits`.

### Saves

`WriteBackProofs`, for any number of workers, readers, clicks (with any rows and bases) and
process ends: `SavesCorrect` (`Spec => []IInv`), `SavesCheckedHolds`, `SavedOnceHolds`,
`AckedSavesSurvive`, and `WriteBackImplementsLog` (`Spec => Promise`, `DurableLog` again).
The assumption is `WriteBackAssumption`. `SaveInv` adds to the store's invariant:

| Part | Says |
|---|---|
| `CommitHeld`, `OnePerWriter` | one worker at most is between conflict check and append, one per writer past the writer's mutex |
| `Numbered` | what memory holds is in the order of its numbers, below the next one |
| `CacheOK` | the cached copy of all rows is of an older generation, or is what memory holds |
| `Unclashed` | the save about to be appended overwrites nothing that was saved after its base |
| `NotYet`, `Known` | the save past the second look at `RecentIds` is not in the log yet; what is in the log was answered, or is about to be |
| `BasesPast`, `Quiet` | accepted saves have numbers already given out; without a process nothing is remembered |

*Why the properties are not inductive.* `SavesChecked` speaks of pairs of accepted saves: the
append must know that the rows the check looked at were all there were (`CacheOK`, since they
may come from the cache) and that nothing was appended since (`CommitHeld`, `Unclashed`).

*The argument.* What is to be excluded is stated of two saves and what they write (`Undoes`:
one replaces a table, or writes a row, that the other wrote), what the code compares is their
lists of changes, one by one (`Clash`); `UndoesClash` proves that whatever undoes a save
clashes with it. `CheckConflictsStep` is
where the check meets the exact records, `AppendStep` where it is used: the new record may
undo an earlier one only by a clash, and no earlier one can undo it, whose base is older.
Steps of the store are `StoreStep`'s.

### What panels show of the saves

`WriteBackProofs` also has `ReadersAtGeneration` (`Spec => []ReadInv`) and
`PanelsExactHolds`, for any number of readers and any rows. `ReadInv` says of each cache
and each reader that what it holds is the log as far as the generation it names
(`RowsAt`), or the fold of it (`TablesAt`), and that a reader's generation is no older
than the one in force when its panel was asked for (`ViewOK`).

*Why the property is not inductive.* `PanelsExact` speaks of the tables shown, the caches
hand rows and folds from one reader to the next under a generation number, and the
hint a reader looks up with was read without the lock. `ReadRowsReads` and `ReadFoldReads`
are the places where a cached copy may be handed on: its number is at least the
hint's. A save adds to the end of the log, so what was the log at an older generation
still is (`GrowReads`); the end of the process takes caches and readers along.

*The argument.* `PanelsExact` compares the shown tables with the last save that left each
cell (`LastWriter`), `fold` computes them one change after the other. `FoldExact` is the
bridge, by induction over the log and inside a save over its changes, through what a
single change leaves (`FoldFacts` has the steps of a fold).

### One request's execution

`RunPanelProofs`, for any number of workers, requests, mutexes and tables, any pool size
and byte limit. The assumptions are `RunPanelAssumption` and `MaterializeAssumption`
(threads are finitely many; limits and sizes are numbers; `None` names nothing).

*Connections:* `ConnectionsCorrect` (`Spec => []IInv`), `PoolCleanHolds`,
`OwnVariablesHolds`. `IInv` says what a connection's variables are at each place of
`run_panel` (`VarsOf`), that a pending interrupt has a cause which spoilt the run
(`Struck`: every viewer has left, or the deadline fired), and that what waits in the pool
has neither interrupt nor half a setup, and the variables it is filed under (`Ready`). The
argument turns on `PutStep`: a connection goes back only after a run no interrupt was sent
to, and `StrikeStep`: no interrupt is sent once the connection is unregistered. That its
variables are reset by whoever takes it is `ReuseStep`.

*Bytes:* `BytesCounted` (`Spec => []BytesInv`) and `BytesBoundedHolds`. The property is
not inductive, since a request adds first and looks afterwards: the counter is above the
limit for a moment, and other requests are refused because of it. `BytesInv` counts
both: the counter is what is held and what has been added on top and is about to be taken
off; and what is held by requests with more than the free allowance is within the limit.
The sums are those of `FoldFacts`, of which one element changes per step.

*Tables:* `TablesAnswered` (`Spec => [](MatInv /\ LeftOK)`) and `TablesAccountedHolds`. That
every table is accounted for when nobody is in `run_materialized` says nothing about the
middle, where a table has been built for an entry that is off the list already. `MatInv`
names who answers for every table (`TablesOK`): an entry kept, the one taken out, a request
that will look whether its entry is kept, or one about to drop it; and that nobody else may
drop it (`BuiltOK`, `DropsOK`). `LeftOK` is about the tables whose `DROP` failed: they are
in the database, nobody answers for them, and no new table gets their name, so they stay
until the generation goes.

### The drift test

`RefreshProofs` has the drift test, for any number of rebuilding threads of any of the
kinds, agent requests, edits and changes of the data: `DriftCorrect` (`DriftSpec =>
[]DInv`), `CheckedUnlessOverlappedHolds`, `UntestedHasRunHolds`, `OwnAnswersCheckedHolds`.
What the documentation says, `PendingUntilChecked`, is refuted by `drift_overlap`; the first
theorem says how far it holds: a drift run that was under way when the generation became
due is the only thing that can break it, and only for that generation. `DInv` adds to
`Refresh`'s invariant:

| Part | Says |
|---|---|
| `PlaceOK` | a drift run begins after the mutex and ends before the call returns |
| `DueOK` | from due to the start of its run, a generation that is not overlapped is due and no run is under way |
| `RunOK` | a generation that is not overlapped has its run to itself: it looks at that generation, and has found what is out of range there |
| `ListOK` | once such a generation is tested, what is out of its range is off |
| `PendingOK` | while nothing is due, it is tested |
| `AskersOK` | what a request no swap overtook has read is true of such a generation |
| `EpochsOK` | no epoch to come has been probed, tested or asked |

`UntestedHasRun` is a part of its own, with no exception for overlaps: whoever put an
untested generation into service will test the one in service.

*The argument.* `RefreshPart` gives `Refresh`'s invariant; `DriftFrame`, `KeepsFrame` and
`AskerFrame` say who is not concerned by a step. `SwapDrift` is the step that makes
everything stale at once; what makes it harmless is `DueOK`: the flag is up before the swap,
and if nobody was in a drift run then, nobody can enter one before this thread does, since a
run begins where the mutex is released (`OneBuilds`). The next generation that becomes due
during this one's run is `overlapped` (`CheckStepDue`), so nothing is claimed of it.

### Sums and folds

The proofs above need facts about the community modules' sums over sets and folds over
sequences. `FoldFacts` has them: the recursive function inside `FoldLeft` or
`SumFunctionOnSet` exists and satisfies its equation (`StepsDefined`, `TurnsDefined`,
`SumsDefined`), a sum does not depend on the order of its elements (`SumElement`,
`SumRenamed`), and what it is when an element changes or goes (`SumChange`, `SumSubset`,
`SumBelow`). The library's induction theorems take an operator as a parameter and cannot
be used; where induction is needed, the argument is that of a smallest counterexample, by
the well-foundedness of `<` on numbers and of inclusion on finite sets (`NumbersIn`,
`SmallestIn`).

### Only model-checked

Every safety invariant, action property and refinement of the passing runs is proved. Not
proved are the liveness properties (`SupersededAnswers`, `AbandonedEnds`,
`OnlyQueriesBlock`, `CallsEnd`, `BatchesShown`, `AnswersResume`), which TLAPS cannot
reason about, and anything about `SavePage`, `Durability` and `Alerts`, whose runs refute
what the documentation says. `PanelCacheProofs` uses `Recency`'s list only through its
type: that its entries are what `PanelCache` takes them for is `ResultStoreProofs`.

## Where the code and its documentation disagree

Four runs refute what the documentation or a comment of the code says:

1. **Overlapping drift runs** (`drift_overlap`). `serve.rs:3146` promises that answers wait
   until the drift run on the snapshot in service. The drift run happens after the
   rebuild mutex is released, and one flag serves all: the run of an older rebuild
   clears the flag of a newer one. `CheckedUnlessOverlapped` (run `agent_drift`, and proved)
   says that nothing else can break the promise, `UntestedHasRun` that the untested
   generation's own run is still to come. The list has the same weakness, which outlasts
   the runs: a run that probed the older generation may write its list after the newer
   one's (`serve.rs:7676`), and it stays until the next rebuild.
2. **The edit that is not there any more** (`save_page`). `docs/DOCS.md:2263`, a comment
   (`app.js:18986`) and the button itself ("Your edits are still here", `app.js:19006`) say
   that a save refused because somebody else's came first keeps the edit, and that Save
   again keeps it. The refused page runs its panels again, and an edited graph drawn from
   the saved table starts again from the new rows (`app.js:13636`): the edit is gone, and
   Save again would send the other writer's graph. It is different for a form whose fields do not
   read the saved rows, which the end-to-end test has, or as long as the re-run has not
   come or fails; and `Rerun` leaves it open whether rows a save has touched look
   different, so an edit may also stay.
3. **The last snapshot is not the last** (`stop_snapshot`). `serve.rs:193` and
   `docs/secure-serving.md:940` promise a snapshot of what was written up to the stop.
   The durability thread takes it as soon as it sees the flag, while a worker may still
   acknowledge a submission.
4. **A channel that is never told RESOLVED** (`alert_resolved`).
   `docs/secure-serving.md:1559` promises a message when the rows appear and one when they
   are gone. An alert remembers what it told only when every channel took the message
   (`serve.rs:5403`). If one fails and the rows are gone before the next check, that check
   compares no rows with "not firing": the channels that were told FIRING hear nothing
   more. While the failure lasts, they are told FIRING again by every check, although
   `docs/secure-serving.md:1584` says "never per check".

Others were found while modelling; they are behaviours of the models but no run is
spent on them:

- *One base for the whole page* (`app.js:18862`). An answer to a save of one edit moves the
  base of every other edit of the page, perhaps past another writer's save, which an edit
  made on the older rows would then overwrite without a 409 (`app.js:18856` says "refused
  rather than silently lost"). The re-run after the answer throws such edits away as a
  rule; what remains is the time until it has run, a re-run that fails, and forms whose
  fields do not read the saved rows.
- *Two large requests can refuse each other* (`limits.rs:118`). Each adds its bytes before it
  looks, so both may be over the limit although either would fit alone. `BytesBounded` is
  the other direction.
- *Supersession is not transitive* (`panel_cache.rs:182`). If a third request enters
  before the second one, the second returns 409 without having cancelled the first, which
  is served to the end although `panel_cache.rs:11` says a newer request cancels it.
- *A task's refresh can be skipped for good* (`serve.rs:4873`). If another rebuild that has
  copied the data already is running, the task's is skipped, and without `refresh_s` nothing
  rebuilds until the next call; a health request's `try_lock` (`generation.rs:112`) can
  have the same effect although nothing rebuilds. `docs/secure-serving.md:1461` says the
  snapshot is rebuilt after a successful run.
- *A request overtaken by a swap* (`serve.rs:9491`). An agent request that passed the checks
  is answered from the generation in service when its panel runs, perhaps one no drift run
  has seen. `OwnAnswersChecked` holds of the requests that no swap overtook.
- *An eviction can wait for a build* (`serve.rs:2568`). The victim is chosen because its mutex
  is free, and locked again a moment later: if a request has begun to build in it, the
  list of all entries stays locked until that build is over.
- *A stale deadline* (`serve.rs:2942`). A new attempt sets its flag before its deadline, so
  `overdue` may report a build that has just begun by the last one's deadline.
- *A torn last line in a snapshot* (`serve.rs:5823`). `COPY ... (FORMAT csv)` ends every
  line, so a fragment becomes a complete line that no store can read (`Stored`'s `bad`);
  `Restore` then refuses the snapshot.
- *Sequence numbers come back* (`state.rs`, `validate_lines`). Erasing the user who has the
  last record lets the next record have its number again.
- *"The same id twice appends once"* (`docs/secure-serving.md:1637`) holds while the server
  remembers the id: `RememberedOnce` and `SavedOnce` state that scope. After a restart, or
  after `RECENT_ID_TTL`, an ungated statement is recorded again.
- *An alert checked twice at once* (`serve.rs:5354`). `anofox_serve_report` may check an
  alert while the notify thread does: both decide on the same remembered state, both send,
  and the one that remembers last wins.
- *The new file's directory entry is not synced* (`state.rs`, `open_impl`): the models take a
  file, once created, to be there after a power loss.

## What is not modelled

- The components marked `not_modelled` in `PROJECT.json`, with the reason there. Worth a
  module and left open: Ask's
  token reservations and running questions, the session table, the query slots of
  `limits.rs`. Not worth one: rendering, SQL analysis and linting, policy rewriting
  and option parsing, which are pure functions of large inputs and hold most of the
  repository's lines; SMTP, webhooks, HTTP fetches, the language model's protocol, the CLI,
  which are I/O.
- In `PanelCache`: where the executor gets its connection, and the limits; both are
  `ExecFails` or a success as far as the cache sees them. Poisoned mutexes: the code
  goes on with the data, and a panic of the executor is completed as an error.
  Spurious wake-ups of a condition variable: a request that wakes without a reason goes
  back to sleep, changing nothing.
- In `RunPanel`: the SQL itself, the query slots, and panels that read a saved table
  (`WriteBack` has those). More than `MaxLeft` tables left over by a failed `DROP`, which
  is a bound.
- In `Refresh`: panics in a build; the stop of the server; what is copied (versions
  stand for it). In `AgentDrift`: what a probe compares, slots and matching.
- In `SavePage`: what the edits are; a second edit of the same graph or form is another
  click, and the viewer does not take an edit back.
- In `Alerts`: how a message is rendered and sent, reports and task notices (which keep no
  state), the hourly rate (a refusal may come at any time), and the schedule (a check may
  begin at any time).
- In `StateStore`: malformed lines in a file somebody edited, bytes (the cap is one on
  records), the folds of views and notes. In `Submit` and `WriteBack`: checks that
  refuse before any state changes (cross-site gate, identity, scope, values), rate limits,
  the bound of `RecentIds` (an answer may be forgotten at any time).

## Working on it

    tlc -workers 2 -config PanelCache.cfg MCPanelCache.tla
    tlc -workers 2 -config Refresh.cfg Refresh.tla
    tlc -workers 2 -config Submit.cfg MCSubmit.tla
    tlapm PanelCacheProofs.tla
    tlapm SubmitProofs.tla
    tlapm WriteBackProofs.tla
    tlapm ResultStoreProofs.tla

`PROJECT.json` names module and configuration of every run, the definition-to-source map,
the hazards and the findings.
