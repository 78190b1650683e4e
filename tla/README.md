# AI Switchboard (cc-forwarder-desktop): a formal model

AI Switchboard is a desktop proxy written in Go (with a Wails/React user
interface). Claude Code and Codex clients talk to a local HTTP server; the proxy
chooses an upstream — an *endpoint* of the Claude lane or an *account* of the
OpenAI/Codex pool — forwards the request, watches the stream, records usage and
cost in SQLite and keeps a picture of which upstream is healthy. Paths below are
relative to the root of the repository.

## Inventory

| part | state it keeps | operations | hard behaviour | modelled by |
|---|---|---|---|---|
| endpoint failure state (`internal/endpoint/{manager,failover,soft_failure_tracker,auto_retention}.go`) | two cooldown slots and a failure epoch per object; soft failures, a count_tokens cooldown and a retained entry per name | record failure, trip, succeed, retain, manual reset | settlements of several critical sections against resets, reconfigurations, deletion and re-creation of the name | `EndpointFailureState` |
| plans and admission (`attempt_plan.go`, `config_publish.go`) | admission counters, pending gates, configuration revisions | acquire, release, gate, drain, publish | count-then-check against gate-then-wait; leases that never come back | `EndpointAdmission` |
| endpoint administration (`internal/service/endpoint.go`, `app_api_storage.go`, `endpoint_crud.go`) | rows of `endpoints`, objects of the manager | create, edit, delete, set availability | database first, memory second, no lock over both; roll-backs | `EndpointAdmission`, `ClaudeRouting` |
| cooldown persistence (`app.go`, `app_api_endpoint_scheduling.go`, `store/endpoint_runtime_state.go`) | rows of `endpoint_runtime_states`, retry markers, revision counter | persist (goroutine), clear (transaction), restore | goroutines in any order, failed writes, restart with a clock set back | `CooldownPersistence` |
| route override (`route_override.go`, `app_api_claude_routing.go`) | manual route and its settings | set, clear, restore, delete the target | a deletion that fails half way, starts that cannot read | `ClaudeRouting` |
| candidate scheduling (`scheduler.go`, `route_state.go`) | cache of rejections, schedule snapshots | order candidates, record and match rejections, report attempts | capacity and expiry, snapshots finishing out of order | `RouteCandidates`, `NegativeHits`, `ScheduleSnapshots` |
| endpoint pipeline (`internal/proxy/endpoint_pipeline.go`, `endpoint_failure_policy.go`, `handlers/count_tokens.go`) | one request: candidates, budget, admission, response; one 429 gate per endpoint | the candidate loop with the 429 retry | every exit must release, settle and answer once; a call that may have been carried out must not be repeated | `EndpointPipeline` |
| stream processing (`stream_processor.go`, `token_parser.go`, `response/`) | one stream: parsed events, usage, tail-drain timer | read, parse, forward, drain after a disconnection, analyse a whole body | events cut anywhere by the reads, usage in parts, a client that leaves | `EventParser`, `StreamParsing`, `ResponseAnalysis` |
| account pool (`internal/service/account_pool*.go`) | rows of accounts, runtime cache, write queue, failure window, pins and groups | block, recover, coalesce writes, pin, move, swap, rank | cache and table diverge, versions, retried writes | `AccountRuntime`, `AccountSelection`, `AccountRanking` |
| account pipeline (`internal/proxy/account_pipeline.go`) | one request: accounts left, stream context, snapshot | the loop over the accounts | each exit charges, records, answers and releases in its own order | `AccountPipeline` |
| request lifecycle (`lifecycle_manager.go`) | one request: status, token usage | start, update, complete, fail, cancel | several final calls on one request | `RequestTracking`, `AccountPipeline` |
| usage tracking (`internal/tracking`) | hot pool, archive channel and batch, event channel and batch, rows of `request_logs`, daily summary | start, update, final calls, archive, confirm, flush, expire, close; list, sum up | updates against the hand-over to the archiver, full channels, retries, shutdown; a summary rebuilt while the zone changes | `RequestRecord`, `RequestTracking`, `RequestCosts`, `UsageSummary`, `RequestPages` |
| model pricing (`internal/service/model_pricing.go`, `app_model_pricing_defaults.go`) | rows, cache, the tracker's copy | create, edit, delete, set default, import, fill at start | three copies, writes that fail half way | `ModelPricing` |
| migration (`internal/migration`, `app_api_migration.go`) | ledger rows, backups, the configuration file, the tables | back up, convert, rewrite, mark, resume; split legacy endpoints | a crash or a failure between any two steps, edits in between | `Migration`, `LegacyEndpoints` |
| privacy filters (`internal/privacy`, `service/privacy_*.go`, `handlers/privacy.go`) | rules, compiled snapshot, results kept per request | change rules, import, scan a body | rules, upstream and body change between attempts of a request | `PrivacyService`, `PrivacyScan` |
| time zones (`internal/timezone`) | the active zone | the day of a moment, the range of a day | days of 23 and 25 hours, midnights that do not exist | `TimezoneDays`, `UsageSummary` |
| event bus, log buffer, monitor, settings, charts, images, other stores, helpers, user interface | see "Not modelled" and `PROJECT.json` | | | |

How they interact: a request enters the pipeline, which asks the scheduler for
plans, admits one attempt at a time, has its body filtered, forwards it, settles
the result on the failure state and reports to the lifecycle, which feeds usage
tracking. A Codex request does the same with accounts. The user interface calls
the administration, the manual reset, the routing override, the account pool,
the prices and the privacy rules concurrently with all of this. What crosses
component borders is names: maps keyed by the name of an endpoint outlive the
object of that name, and IDs, revisions, epochs and versions are the code's means
to tell them apart. Most properties below ask whether they suffice.

## Modules

### Endpoints

`EndpointFailureState` — one endpoint name, its object and everything that is
kept about its failures. An attempt is planned (`Plan`, the snapshot of
`snapshotEndpointCandidates`), admitted (`Acquire`), and settles in the critical
sections of the code: entry check, record, trip, clear retained; or success,
check, retain. `endpointConfigMu` is the set `Settling`: the configuration
operations (`UpdateConfig`, `PublishAvailability`, `RemoveEndpoint`,
`AddEndpoint`) are enabled when no settlement holds it for reading. The manual
reset takes only `ep.mutex`, so it looks its object up in one step and commits
in another, between any two sections. Evidence carries a ghost tag: the object
and the epoch of the attempt that left it.

`CooldownPersistence` — one endpoint name between memory and database. Every
extension of a slot spawns a task that looks the name up and then writes; a
clear runs get / reset / commit or fail / marker; delete and create are split at
their database and memory halves; `Restart` loses memory, seeds the revision
counter and restores active rows. The clock of a restart may have been set back
as far as possible: revisions then continue from the largest stored one. The
field `of` of a task and a row is a ghost: the object the cooldown was set on.

`EndpointAdmission` — one endpoint name between its row, its object and the
attempts that hold admissions. `Register`, `CheckGate`, `CheckConfig` are the
three observable steps of `AcquireEndpointAttempt`; `SetEndpointAvailability`,
`DeleteEndpoint`, `CreateEndpoint` and `UpdateEndpointRecord` are split at each
database access, gate operation, wait and publication, and every database write
may fail. `op[o].kind = "edit"` runs the availability steps before or after its
own, as the code does.

`ClaudeRouting` — the user's manual route between the settings, the manager and
the endpoints. `SetRoute`, `ClearRoute` and the deletion of an endpoint hold
`routingMu` (the variable `call`) and go step by step: settings, row, manager,
and the compensation when a step fails; a creation takes no such lock. A start
loads endpoints, restores the route and only then opens routing. `left` is a
ghost, the route as the last call that ended left it.

`RouteCandidates` — the order of the candidates and the reason why a fixed route
has none, as a function of a snapshot of the endpoints and of the route.

`Ordering` — a sort by a strict order and a filter, which the orders of endpoints
and of accounts are built from. They are defined by their result (the k-th entry
has k - 1 before it), so that proofs can reason about them; the sort stands for
`sort.SliceStable`, with the place in the input as the last key.

`NegativeHits` — the cache of rejections: one map and one order for each class,
`Record` moves a key to the end and trims from the head, `Has` drops expired
keys on its way, `Clear` leaves stale keys in the order. The slice of keys is
kept as a place for each key; what is trimmed is the shortest head of it whose
removal leaves a map within the capacity. A body is asked for with every smaller
bucket.

`ScheduleSnapshots` — the snapshot the user is shown, written by several requests
(`Draft`, `Report`). The store of the endpoints numbers its drafts, the store of
the account pool does not; `numbered` says which one it is.

### Accounts

`AccountRuntime` — one account between cache, background writer and row. Reports
of attempts take a version and leave a mutation; the writer detaches one
(`batch`), checks its version and applies it in separate steps, and may fail and
queue it again. Toggle, edit, test and delete are split where the code is between
cache and database, with the saved state they put back. The profile refresh may
disable the account in between; `Restart` rebuilds the cache from the row.

`AccountSelection` — which account of which group a request gets, while the user
pins, unpins, toggles, moves and swaps. A call changes the table and then each
map of the cache in its own step; requests and reports fall in between.

`AccountRanking` — the order of the accounts of one pool: groups, utilisation of
the quotas, failures, and the inertia that keeps the account that served last.
Scores are exact integers instead of floating-point numbers.

### Requests

`EndpointPipeline` — `handleEndpointPipeline` for several requests at once. `pc`
names the place in the handler; after a call it is what the call returned, as
the decision table sees it: `noHeaders` (no byte of the request was written),
`auth`, `unsupported` (model, schema, size), `broken`, `serverError`, `limited`,
`clientError`, `ok`. The four sets `NextCandidate`, `PassthroughError`, `Charged`
and `Unexecuted` are that table. A step runs from one access to shared state to
the next: acquire, filter and send, answer, take the gate, wake up, settle, end.
`End` stands for what every return does, the deferred release included. The
environment closes and opens admissions, moves revisions on, publishes privacy
rules, and lets clients leave. Ghosts: `calls`, `charges`, `executed`.

Abstractions: the plan is any order of any offered endpoints, and whether a
settlement is applied and trips is open (`EndpointFailureState` has the windows,
`EndpointAdmission` the counters, gates and drains behind `Admits`); the budget
is one configuration value; `hasCommitted` is false throughout the loop, since
nothing is written before an answer is final; every streamed request is one on
`/v1/messages`, the only path with a detached upstream; the bodies of error
answers end; marks of the negative cache are not counted as charges, because
they do not count against the endpoint as a whole.

`AccountPipeline` — one request over a list of accounts, with every exit of the
loop: a refusal of the program's own, an account that is out, one that has not
failed often enough, an answer passed on, a stream with its own context, its
tail drain and its watcher. Other requests charge the same accounts meanwhile.

`EventParser`, `StreamParsing` — the parser as functions of its state (lines,
collected events, merged usage, paired blocks), and the reading loop around it:
the upstream sends lines and may stop or break after any, a read returns any
number of them, the client may leave. `heard` is a ghost, what a reader of whole
events would know. `ResponseAnalysis` — the same for a body that was not
streamed.

`PrivacyService` — rows, the compiled snapshot and the results a request keeps.
A change holds a mutex from the store to the new snapshot; an attempt takes no
lock and loads the snapshot three times: for the version, for the key, for the
scan. `PrivacyScan` — what one scan finds, which of the overlapping finds count,
and the body that results.

### Usage records

`RequestRecord` — the abstract specification: what a reader of a request's
record may see. A record is opened, grows, is closed, and stays visible; only a
request the pool gave up for its age is hidden until it is archived.

`RequestTracking` — the implementation: `place` and `mem` are the hot pool with
its active and archiving maps, `archiveChan` and `arch` the archiver with its
batch and retries, `eventChan` and `ev` the event processor, `row` the table.
The handler's final calls (`Calls`) follow `lifecycle_manager.go`; updates of
other goroutines look an entry up (`Listed`) and write it in separate steps,
because the code releases the pool's lock in between; moving, inserting and
confirming are the archiver's steps. `Faults` selects failing writes, expiry by
the cleaner and `Close`; an event write that a shutdown abandons counts as done
or not done at the moment it is abandoned. `recBar` and `shownBar` are the
refinement mapping; `ImplementsRecord` is `RequestRecord!Spec` under it.

`RequestCosts` — the three places that compute the cost of one request (the list,
the archiver's insert, the event with late tokens), each with its own copy of
prices and rates, which a change reaches one after the other.

`ModelPricing` — rows, the service's cache and the tracker's table over every
call of the interface, writes that fail half way, kills, and the defaults a
start fills in.

`UsageSummary` — the summary of past days: reloads that change the zone, rebuilds
in goroutines that check the zone at their end, cleanups, and queries that use
the summary when it is marked as covering them.

`RequestPages` — a page of the listing and its totals, out of the pool and the
rows, read in chunks. `TimezoneDays` — the day of a moment and the range of a day,
for a clock that changes once.

### What is stored and survives a start

`Migration` — the two migrations of a start over the ledger, the backups, the
configuration file and the tables. A step may fail and be retried, the process
may die between any two, and the user may edit the zone in the file between two
attempts. The transaction of the database is one step, the file and the ledger
are others. `LegacyEndpoints` — how the entries of the old file become rows, in the
order of the loops over entries, tokens and keys, and how privacy scopes (sets of
names; the order in which they are stored is left out) and the fixed route follow.

### Instances

A `MC*` module makes the instances TLC checks. Six of them run several
components: the variable `part` picks one in the initial state, its module is
instantiated (`WITH`), and the variables of the others do not change. The parts
share no state; nothing is composed by it, one run just answers one kind of
question about several components. Sizes a theorem speaks of are CONSTANTS of
the `MC*` module, with a named assumption and a value in the `.cfg`; the theorem
about `MCSpec` then holds for every value of them, since each step of `MCNext`
is a step of one part and leaves the variables of the others alone. Where a component is an
algorithm without state of its own, the variable `in` takes one bounded input and
the property is evaluated on it. Properties of such a module are conjunctions of
properties of its parts, defined there and named for the question
(`AdministrationStands`, `RulesAreApplied`, ...); `MCOneRequest`, `MCOneStream`
and `MCClocks` serve the runs of findings.

## Runs

| run | expects | asks |
|---|---|---|
| `EndpointFailureState` | pass | Endpoints: does evidence of old failures survive a reset or a removal, does a settlement keep its configuration, is a retained endpoint available, do cooldowns only extend and newer failures survive a slow success? Accounts: is a newer failure taken back by an older attempt, does what the user disabled or deleted come back, is the pin kept? |
| `CooldownPersistence` | pass | Does a cleared cooldown ever return, do rows follow memory or the retry marker show, is a marker lost? Is the route as the user left it, no endpoint lost and no time converted twice by a migration, no body sent past the rules in force? Are legacy entries split, and bodies scanned and replaced, as they should be (`InputsAreRight`)? |
| `EndpointAdmission` | pass | Are counters exact, is a drained object idle while its gate is closed, are plans kept, when calls overlap? When they do not: does memory follow the database, does an edit keep the availability? Does a snapshot tell its own request, does a plan respect the route and the groups? |
| `EndpointPipeline` | pass | Is a request carried out at most once, charged at most once, within its budget? Does it hold only what it needs, is the 429 gate exact? Is the usage of an answer what its events said? Is the newest rejection remembered? |
| `Progress` | pass | Does every request end or get to its stream, every administrative call end, a request at the account pool end when its client has left, every record get to its row? Is an account request settled as it ended, and does a shutdown keep what had ended? |
| `RequestTracking` | pass | Is an accepted update in the row, a refused one sent after it, a request archived once, all of it an implementation of the abstract record? Are costs those of the recorded tokens, do prices agree, is a covered day built, do pages and days show everything once? |
| `CancelledStream` | violation | Do the tokens of a cancelled stream get to its row? |
| `StreamSilence` | violation | Does a stream end after its client has left? |
| `PolicyRetry` | violation | Does a refusal by the privacy rules end the request, as it should? |
| `LostRoute` | violation | Does a start that cannot read the endpoints leave the saved route alone? |
| `TerminalCut` | violation | Is the terminal event of a stream forwarded as a whole? |
| `MidnightGap` | violation | Has every day a range? |

### What the violations show

* `CancelledStream`: a cancelled stream makes two final calls. The first has no
  tokens and archives the request; the second then becomes an event, whose
  UPDATE may run before the INSERT of the archiver and never computes a cost.
* `StreamSilence`: `ProcessStream` looks at the client only between two reads,
  and the upstream context is detached from the client's. While the upstream is
  silent no drain timer starts. The request keeps its connection and its
  admission, so a disable or a delete of that endpoint runs into its time-out.
  (The account pipeline watches the client and has no such hole: `LeftRequestEnds`,
  a part of `RequestsEnd`.)
* `PolicyRetry`: the second call of the 429 retry has no branch for a policy
  refusal. Rules published during the wait make it a "connection failure before
  the headers": the endpoint is charged and the next candidate is asked.
* `LostRoute`: a failed `SyncFromDatabase` at the start is only logged
  (`app.go:353`). The restore of the route then finds an empty manager, takes the
  saved target for a deleted one and writes Auto over the saved manual route.
* `TerminalCut`: the parser reports the terminal event at the line with its
  name, and the reader stops there. When the data line comes with the next read
  it is neither parsed nor forwarded: the client misses the end of its stream,
  and the usage in it is not booked.
* `MidnightGap`: `resolveWallTime` fails for a wall time the clock skips. A day
  that begins in the gap has no range, nor has the day before it; the daily
  summary, and with it `NewUsageTracker`, fails while such a day is in its window.

### Properties that fail without a run of their own

Found while modelling; each is a consequence of overlapping calls, a full channel
or a shutdown, and is noted under `hazards` or beside the property:

* a persist goroutine that looks a name up after the endpoint was deleted and
  created again writes the old cooldown under the new ID;
* an edit writes back the availability it read before an overlapping disable;
  two overlapping availability calls can leave row and object different; the end
  of one call opens the gate another one still relies on;
* an endpoint can be retained while it cools down, since the check and the
  retention are separate sections;
* overlapping calls on the prices can leave two default rows, a failure between
  the unmarking and the write leaves none;
* calls of the desktop on one account that overlap can put back what the other
  one changed: `DisabledStays` and `DeletedIsGone` are stated for a decision no
  other call overlapped, and `NewerFailureStands` leaves out the steps of a call
  that another one overlapped. The second restores the account it read before the
  first one failed and restored its own, and a failure recorded in between is
  undone with it;
* a full archive channel drops a finished request; a request the pool refuses
  can lose tokens to the order of its events; a shutdown abandons queued events.

### Bounds

Endpoints: two attempts and a threshold of two are the least at which a trip
needs evidence of two attempts and one can be outdated; one reset, one
reconfiguration and one re-creation give every relative order of epoch, revision
and object. Two clears are the least at which markers can finish out of order;
one restart and two IDs are the least for a stale ID; the part `expiring` lets
time pass instead of the name be re-created. Two calls are the least that
overlap; two tries per attempt are the first and the 429 retry, which is all the
code makes. The route: two endpoints, three calls, two failed writes and two
restarts, which allow a deletion that fails, its compensation that fails, and a
start after that. Snapshots: three requests, so that a late one meets a newer
draft and a newer outcome. Rejections: a capacity of two, four records, so that
a key written again can be the one displaced; two buckets, so that a smaller one
answers.

Accounts: one attempt, one call, one failure of the store and one restart beside
the writer and the refresh: each pair of them races, and a version is outdated by
either. Two accounts in two groups, two calls and one restart give a move under a
pin and its restoration. Two accounts and a threshold of two are the least at
which an account is left, and is taken out by others. Ranking and candidates are
evaluated over all pools of up to three accounts and all plans of three
endpoints built from the values at which the code's comparisons turn.

Pipeline: requests interact only through the gate of a common endpoint and the
configuration, so two of them on one endpoint, one with a second candidate to
fail over to, show every interaction; budgets of one and two stop the loop before
and after the second candidate. A revision that moved on looks to a plan like a
closed admission that stays closed. The rules change where the stream is alone
(part `alone`). The safety invariants of the pipeline are proved for all values.
Answers: three events of one block, cut at any line, over every event type: a
fourth could only repeat a place of the parser; the theorem takes any number.

Tracking: a pool of one refuses the second request; channels of one fill up; a
batch of two is flushed full or by the ticker; two tries of a batch are the
first and the last. The outcome is the cancelled stream, the one with two final
calls; the others run in `Progress`, with room, and with a shutdown at any moment.
Costs: two usages, two price tables, one change, with and without rates. Prices:
three calls, one fault, one kill. Summary: two zones, two days, two requests, two
reloads, a cleanup. Pages: four requests, each in the pool, the table, both or
neither, in chunks of one and two. Days of four hours and every clock that
changes once by a quarter of a day at most.

Migration: four failed steps or crashes and two edits of the zone, over two endpoints,
give several attempts that fail at different steps under different zones. Privacy: two changes,
one failure of the store, two upstreams, one of which a rule may single out.

Clock, revisions, objects, epochs and rule versions are bounded by the `Max*`
constants, in the guards.

### Fairness

All in `MCProgress`; the other runs check safety.

* Requests: weak fairness of each handler's own steps. Every wait among them has
  a timer: the header time-out of the transport, the total time-out of a request
  that is no stream, the delay of a retry, the tail drain. The next chunk and the
  end of a stream have none and are not assumed to come.
* Administrative calls: weak fairness of a running call (a goroutine that is
  scheduled; every wait in it has a time-out) and of an acquire that holds the
  configuration lock (it does not block). Nothing is assumed of upstreams: an
  attempt may hold its admission for ever, the drain time-out ends the call.
* Account requests: weak fairness of the handler's steps, of the drain timer, of
  the transport giving up on headers, and of a read whose context is cancelled.
  Nothing makes an account answer or a client leave.
* Records: weak fairness of the archiver, the event processor and the goroutines
  that carry an update or a final call; tickers and channels wake them up.

`CHECK_DEADLOCK FALSE` everywhere: with bounded counters, and once every request
has ended, the system runs out of moves.

## Proofs

TLAPS proves the following for every value of the constants. Sets of requests,
attempts and endpoints are finite where a cardinality is taken and arbitrary
otherwise; bounds are any naturals. The assumptions are those on the constants,
each named in the module that declares it (`FailureAssumption`,
`PersistenceAssumption`, `AdmissionAssumption`, `PipelineAssumption`,
`TrackingAssumption`, two `AccountAssumption`s, `SnapshotAssumption`,
`RejectionAssumption`, `AnswerAssumption`, two `PartsAssumption`s,
`RequestsAssumption`) and evaluated by the runs. They say that bounds are numbers,
that a set is part of another, that counts of tokens are not negative, and that a
value that stands for "none" is no member of the set it stands beside.

Endpoints

* `EndpointFailureState_proofs`: `TypeOK`, `ZeroResidue`, `SettlesOnOwnConfig`,
  `RetainedIsAvailable`, `CooldownOnlyExtends`, `NewerFailuresSurviveSuccess`.
  The inductive invariant adds that revisions in use never exceed the last one
  given out and that each belongs to one object, so that an attempt whose
  revision matches was planned on the living object; with the epoch comparison
  inside the critical section this gives the tags of new evidence.
* `EndpointAdmission_proofs`: `TypeOK`, `AdmissionsCounted`, `DrainedIsIdle`,
  `PlannedConfigIsUsed`. A revision determines the configuration it was given
  out with; a counter equals the cardinality of its holders (with the lemmas on
  cardinalities of the library); after a drain with the gate held, holders can
  only be attempts that have still to read the gate. For calls that come one at
  a time (`MaxRunning = 1`), `SerialInv` adds what the call under way has already
  done: which half of its change is in the row, which in memory, that no
  compensation is needed (`~torn`) and that row and object agree when no call is
  under way. From it follow `RuntimeFollowsRecord` and `EditKeepsAvailability`.
* `MCEndpointAdmission_proofs`: these two for the serial part of the run
  (`SerialCallsAgree`, `SerialEditKeepsAvailability`), by instantiating the
  theorems above, and `SnapshotIsOwn`. `SnapshotInv` says that a draft is kept
  under the request it is of, that a number is given to one draft only, and that
  what is shown last was told by its own request. Then the choice (`ChoiceIsRight`),
  proved for any snapshot of endpoints (`RouteKept`) and any pool of accounts
  (`ListsAreSound`, `SuccessStays`), of which the inputs of the run are a few.
  `Lists(q, S, R)` says that a sequence has every member of a set once, in the
  order R: `ArrangedLists` shows it of a sort (under a strict and total order the
  numbers of predecessors are all different, so each place has one member),
  `OnlyLists` of a filter, `Joined` of one list after another, and every stage of
  the two plans is one of these. That the snapshot decides each account once
  (`DecisionsList`) compares two lists of the same set. `SuccessStays` needs that
  scores are products with the penalty, 17 or 20, and that 4 * 20 < 5 * 17.
* `EndpointPipeline_proofs`: `TypeOK`, `AtMostOnce`, `NothingHeld`,
  `GateMatchesWaiter` and `EffortIsBounded` (at most one charge, endpoints asked
  within the budget). `Located` ties the index to the plan wherever a candidate
  is used; `Ran` gives, for each place in the handler, how many calls may have
  been carried out, which is what the decision table has to preserve; `Holds`
  gives what a request may hold at each place, and that only a request that
  waits for or makes its retry is `retrying`, so that a plan or an index never
  moves under a closed gate. For the budget, `Spends` and `Counts` relate the
  set of endpoints called to the part of the plan behind the index, place by
  place, and `Effort` bounds its cardinality. Then `RejectionRemembered`, about
  the cache of rejections at any capacity: `PlacesAreStamps` says that the order
  of the slice is the order in which the keys were recorded last (the property
  that a key written again moves to the end), `LiveIsHeld` that a live rejection
  with fewer newer ones than the capacity is in the map. That a trim takes no
  more than it must (`CutIsShortest`) rests on the least member of a set of
  naturals, from the well-foundedness of `<`.
  Last `UsageIsWhatWasSaid`, for any usages, blocks, number of events, chunks and
  cuts (`UsageAsSaid`). A chunk is folded into the parser, so this is induction
  over its prefixes: from a least counterexample (`UpTo`), with the table that a
  fold fills in shown to exist and to be filled line by line (`LinesOneByOne`).
  `InStep` relates the parser to what was heard; `Reading` says in the middle of
  which event the parser stands and that the lines on the wire are the rest of
  it, so that what is collected under a name is never taken for another event
  and nothing is pending when the terminal event ends the reading. For a whole
  body `SideBySide` runs the streaming parser and the older one over the same
  lines: they collect the same events, and from the line that ends the only event
  with a usage the streaming reader keeps at least that (`KeptToTheEnd`).
  `TextReadAsNoMore` states it for bodies of any length, not only those of the run.

Accounts

* `EndpointFailureState_proofs`, its second half: `AdministrationStands` (a disabled account
  stays disabled, a deleted one gone) and `NewerFailureStands`. `RuntimeInv` says
  what a call may put back: `AloneIsAlone` and `HeldIsOld` compare what it saved
  with the cache by the version, `FailureIsDated` ties a recorded failure to a
  version, `NothingEnables` and `NothingRevives` say that no mutation, batch,
  refresh or saved state on its way enables or brings back what the user turned
  off. Then `ChoiceIsKept`: `SelectionInv` relates the steps of a call under way
  to what it has saved of the pin (`CallRemembers`) and follows a pin through a
  move, a swap and a restart (`PinIsSomewhere`).
* `AccountPipeline_proofs`: `AccountRequestIsSettled`. `TriedOnce` (the accounts
  left are distinct, uncharged and without fault) makes a charge the only one;
  `Answered` counts the answers of a client at each place in the loop;
  `ServedAtTheEnd` says that a success is only marked, and the record only
  closed, at the end. Its last section states `RecordsAreComplete` for the run
  `Progress`, any set of requests: see `RequestTracking_proofs`, whose theorems it
  instantiates for the two instances of the run.

Requests and what is stored

* `RequestTracking_proofs`: `TypeOK`, `CommitBarrier`, `SentUpdatesHaveRow` and
  `ArchivedOnce`. The inductive invariant `HandOver` says that what is on its way
  to the archiver has been closed in memory, that an entry marked as persisted
  has a row, that an accepted update is in the entry before that mark and in the
  row after it, and that an update event of a request the pool knows was sent
  after the insert. `OneCopy` adds that a request is at one place only on its way
  from the channel through the batch to its row, that no place holds it twice,
  and that what is still to be inserted has no row.
  The refinement `Implements` holds for every run in which the tracker is not
  closed: `Readable` adds which copy of a record is the current one (there is no
  row while an unpersisted entry exists), that both copies have an admissible
  status, and that at most one start event of a request waits, and none once it
  has a row.
  `FinishedIsKept` and `TokensArrive` are what `Progress` checks as
  `RecordsAreComplete` (`ShutdownKeepsFinished` and `TokensReachTheRow`). Both
  take room for every request in the pool and the archive channel, and no failed
  writes; the second also that no request is given up for its age and none ends
  with two final calls (`Faultless`). Without these the code may lose a record or
  its tokens: a full channel, or a batch that failed too often, is dropped with a
  line in the log, and of two final calls the second comes as an event that may
  find no row (`CancelledStream`). `Delivered` follows a request from its handler to its row: with
  calls left it is where a call can reach it, closed in memory it waits for its
  insert or is closed in its row; `EventsClose` says that no event on its way
  could open a row again, `Emptied` that the shutdown stops a consumer only after
  what it consumes is used up. `Billed` adds that memory and, after the insert,
  the row have the tokens, and `OnlyNotes` that in a running tracker no event but
  an update is ever needed.
* `MCRequestTracking_proofs`:
  `CoveredIsBuilt` (`SummaryInv`: the mark is behind today and of the zone in
  force, a build holds days of one moment of the log, an answered query was read
  under the mark) and `CostsAreRight` (`CostInv`: both copies of prices and rates
  were in force at some time; `PricingInv`: the cache follows the rows unless a
  call is between them, and there is at most one default row). The tables of
  usages, rates and official prices are never expanded: they may be any.
  Then `QueriesAreRight`, of whose inputs the run has a few.
  `DatesHoldTheirMoments`, for any offsets and any hour of the change: a clock that
  goes back by no more than the time that passes shows no earlier time at a later
  moment, so the first moment that shows a midnight parts the moments of two dates.
  `PagesShowAll`, for any finite pool and rows, any filter, page size and sizes of
  chunks: both parts of the list are sorts, in which every request has the place
  after its predecessors (`ArrangedRanks`); a row that is left has its place among
  those that are left (`Sieved`), and what reading has taken up after n rows is the
  part of that list from where it begins (`ReadTo`), kept by a row (`RowRead`), so
  by a chunk (`ChunkRead`), so to the end (`RestRead`); pool and rows together are
  then one part of the whole list (`PartOfBoth`). The statistics rest on a sum over
  a set not depending on the order in which a fold takes its members (`SumRest`,
  `SumUnion`). Folds are defined by a table over all subsets; that the table exists
  and is filled one by one is shown by induction from a least counterexample.
* `CooldownPersistence_proofs`: `TypeOK`, `NoResurrection`, `StoreFollowsMemory`
  and `RetryIsKept`. `IInv` states that every revision in a slot, a task, a call
  or a row is bounded by the counter, that the counter is at least the last clear,
  that a call that is about to commit has emptied the slots of everything older,
  and that stored revisions of the living ID are at least the tombstone's.
  `FInv` adds that until the name is created again, every slot has its row or the
  task that will write it (`Followed`), that rows and tasks of one slot are
  ordered by revision, and that a clear that failed is recorded or covered by a
  newer one (`Recorded`).
  Then `RouteIsKept`, for starts that can read the tables: `SavedAndPublished`
  says at each step of a call which of settings, row and manager already hold the
  user's choice. (A start that cannot is the finding `LostRoute`.)
  `MigrationIsSafe`: `Flattening` and `Converting` say for each place between two
  crashes what the ledger, the backup, the file and the tables may hold; the
  zone a conversion uses is the one the ledger pinned.
  `RulesAreApplied`: `AttemptKnows` says which snapshots were in force since the
  attempt began, `KeptFits` that a kept result under the key of a version and an
  upstream was made by the rules of that version for that upstream.
  Last `ScansRedact`, for any body, rules, secrets and limit: `Finds` says what a
  rule has found after k beginnings, `SpansTo` which spans the first k rules have
  (apart from each other, each an occurrence, and every occurrence within one that
  has its span or that a rule before displaced), `Redaction` what stands at each
  place of a redacted text, and `ScannedTo` what the scan is at after k pieces;
  each is kept by one more step of its fold.
  And `SplitsLoseNothing`, for any old entries: the rows are made in the order of
  the loops, a permutation of the combinations (entry, token, key) as `Ordering`
  gives it. `RowsTo` says what the first k rows are, one for each of the first k
  combinations under names not used before; a free number always exists
  (`FreeIsFree`: one more number than names), so `Placed` gives each combination
  its row and back. From this one-to-one correspondence follow the counts, the one
  row with the entry's switches, the sources of the credentials and the scopes.
  `InputsStand` is both theorems for the inputs the run chooses (`FilesFit`,
  `BodiesFit`).

Not proved, and why:

* Liveness: `RequestsEnd`, `CallsEnd`, `EverythingIsRecorded`. Fairness and
  ENABLED are out of the prover's reach.

The type invariants that are theorems are not checked again by a run.

## Not modelled

`PROJECT.json` lists every component with the reason.

* Event bus, log buffer, monitoring and middleware: lossy or for display; no
  state of the program depends on them.
* Settings and charts, images and model lists, other stores, configuration and
  helpers, OAuth exchanges: single-row CRUD, conversions and external I/O.
* Desktop shell and frontend: bindings and user interface.
* Of the modelled components: the contents of configurations, URLs, bodies and
  messages; the handler of count_tokens beyond its settlements; error classes
  beyond the decision tables; auto-schedule, batch import and the copy of
  multipliers of endpoints; import and export of accounts; `request_history.go`
  and the SQL of the migrated schema; backups, vacuum and the reconnection of the
  database; retention of rows beyond the summary's window.

## Plan

1. Composition of `EndpointPipeline` with `EndpointAdmission` (`Admits` refined
   by the three steps of the acquire), and of `AccountPipeline` with
   `AccountRuntime` (a charge refined by the report and its mutation).
2. An abstract specification of a migration, "old or new, never a mixture", with
   `Migration` as its implementation.

Each run keeps to one kind of question; a new component joins the instance whose
question it answers.
