# A TLA+ verification of Trinetra-X

Trinetra-X traces stolen cryptocurrency for investigators: a complaint becomes a
case, a trace follows the money hop by hop and attributes part of every transfer
to the victim, a worker goes on with the branches that could not be followed at
once, and freeze notices are drafted, countersigned and dispatched to exchanges.
Every step that matters is written to a hash-chained audit log.

This directory holds TLA+ models of the parts of that program whose correctness
depends on order, concurrency, failure or arithmetic, the TLC configurations that
check them on small instances, and TLAPS proofs of the properties that matter
most, for every value of the constants. Paths below are relative to the
repository; `PROJECT.json` names, for every definition, the lines it translates.

## 1. The system

### How it runs

One server process (`app/main.py`, FastAPI). Two things run side by side in it:

- *request handlers*. Plain functions run in a thread pool; `async` ones run on
  the event loop and are interrupted only where they await (in practice: the
  form). Each has its own SQLAlchemy session, opened by `get_session`
  (`app/db.py` 37-39) before the handler starts.
- *the frontier worker*, a daemon thread that `lifespan` (main.py 185-196) starts
  and `SupervisedFrontierWorker` (`app/services/worker.py`) supervises.

`app/services/watch.py` (a polling cycle over watched wallets) and
`app/services/custody.py` are libraries that no handler and no worker calls at this
commit; custody is exercised by tests only.

Handlers and worker share the SQLite database (WAL, busy timeout 5 s), the audit file, and a few
process-wide objects under locks (audit lock, provider budget). No table has a
version column and no handler takes a row lock: what a session has loaded stays as
it was loaded, and a commit writes the columns the session changed.

### Components

| component | state it keeps | operations | talks to | what is hard |
|---|---|---|---|---|
| **Allocation** `services/allocation.py` | none; running balance, attributed rest, remainder of one walk | `allocate_proportional`, `allocate_ordered_outgoing`, `schedule_candidates` | called by lot expansion and by the trace engine | integer rounding, the carried remainder, a denominator that shrinks |
| **Frontier queue** `services/frontier.py`, `live_tron_resume.py`, `worker.py` | `FrontierItem` rows (state, reason, lease, attempts, deadline), lots and allocation edges | seal, recover, release, lease, expand, defer, persist coverage | provider requests between two commits; rows sealed by traces | stale leases, crashes and errors in a batch, retries, rows overwritten by another branch, starvation |
| **Live trace** `engine_bridge.py` 600-1500, `engine/runtime/evm_engine.py` | none while it runs; pending edges, parked edges, hops, spent address budget | verify the payment, schedule, expand, back off, close, seal | allocation, provider requests; seals lots and frontier rows | branches that join, provider failures in the middle, budgets spent by other branches |
| **Lot expansion** `live_tron_resume.py` 275-610 | `AttributedLot`, `AllocationEdge`, `CanonicalTransfer`, child rows | attribute the observed transfers, schedule children, cycle and floor checks | allocation, frontier queue | per-lot conservation, cycles, overwritten lots |
| **Trace snapshots** `repository.py` | `TraceSnapshot` (version, latest, cache identity), findings, hops | `get_or_create_trace`, cache lookup, supersede | frontier queue, watch, findings | requests that read the latest snapshot before a trace and write after it, a unique key hit at commit |
| **Audit log and outbox** `services/audit.py`, `dispatch_workflow.commit_and_flush_audit` | `AuditOutbox` rows, the JSONL file, a process lock | queue, flush, append, verify | every handler | a commit and a file write are not one step; flushes overlap; crash between any two |
| **Notice workflow** `services/notice_workflow.py`, the `/notices` handlers of main.py | `Notice`, `NoticeDraft`, `NoticeVersion`, `NoticeVerificationState`, `DispatchRecord`, `Dispatch` | save, upload, generate, attest, verify, route, countersign, return, dispatch | audit outbox, SLA | requests of two officers over one notice, decided on rows loaded before an await |
| **Dispatch and SLA** `services/dispatch_workflow.py`, `dispatch_tracker.py` | `DispatchRecord` (stage, SLA window, breach, escalation), tracker events | set stage, register breach, escalate, derive status | notices, audit outbox | a register page that commits what it loaded earlier, a reset that keeps the record |
| **Watch** `services/watch.py` | `WalletWatch`, `WatchAlert`, events, poll cursor | synchronise, rebalance, poll, alert transitions, snooze release | provider budget, trace snapshots, audit | changes that rank rows read before their first write, events that share a timestamp with the cursor, an officer and the cycle on one alert |
| **Provider requests** `services/provider_budget.py`, `evidence.py`, the adapters in `engine/adapters/` | per-process request window, receipts of a fetch | reserve, prune, page, record coverage | watch, live traces | the ceilings at their limit, a clock read before the lock is taken |
| **Officer sessions** `services/sessions.py` | `OfficerSession` rows (idle deadline, counters) | create, resolve, touch, end, revoke | every request | a touch that overlaps a revocation, a cookie a late response restores, idle timers of several pages, requests that pages send by themselves |
| **Custody** `services/custody.py` | assertions, certified responses, action drafts and outcomes | import, draft, advance status, verify outcome | notices | duplicate imports, two commits in one import, a status read before it is written |
| **Presence monitor** `static/presence-controller.mjs` | monitor state, camera, face detector, start generation | enable, disable, pause, resume, retry, dispose, process a frame | session shield, browser | every operation awaits; another may come in meanwhile |
| Finding review `services/review.py`, `prepare_notice` | findings, the new notice | review checks, create the notice | notices | two requests prepare the notice of one finding |
| **Narrative triage** `services/narrative_triage.py` | narrative rows and files, assessments, reviews | ingest from connector or upload, assess, review | audit outbox, evidence bundles | three handlers ingest the same texts side by side; a file that was not written to its end |
| Risk, behaviour, explainability, strategy, docket, search | derived views | pure computations over rows | | no state of their own |
| Parsing, integrations, provider stubs | none | HTTP bodies, mock channels | frontier, watch | pure I/O; stands as the nondeterministic outcome of a request |
| Templates, static files, vendored MediaPipe, scripts, fixtures | none | presentation and tooling | | out of scope |

### Hazards

`PROJECT.json` lists what is hard to test, each at its line, with the properties
that would catch it. The main groups are: requests that overlap (notice, audit,
sessions, SLA, custody), faults between two commits (frontier, audit, custody),
retries and leases (frontier), limits and starvation (frontier, watch, budget),
rounding at a boundary (allocation), and long legal sequences of requests that end
in an illegal state (notices).

## 2. Modules

| module | models | kind |
|---|---|---|
| `Allocation` | the arithmetic of one transfer | operators |
| `OrderedAllocation` | the loop over an address's transfers | state machine |
| `OrderedAllocationProofs` | | proofs |
| `FrontierQueue` | frontier table, worker cycle, expansion, provider errors, crash | state machine |
| `MCFrontierQueue` | the instances for TLC | model |
| `FrontierQueueProofs` | | proofs |
| `AuditLog` | what the outbox promises | abstract specification |
| `AuditOutbox` | handlers, outbox rows, audit lock, file, crash | state machine, refines `AuditLog` |
| `AuditOutboxProofs` | | proofs |
| `NoticeWorkflow` | one notice, its handlers and their sessions | state machine |
| `MCNoticeWorkflow` | symmetry for TLC | model |
| `NoticeWorkflowProofs` | | proofs |
| `LiveTrace` | one bounded live trace, TRON and EVM, up to its seal | state machine, uses `Allocation` |
| `LotExpansion` | the lots and rows of a sealed trace and the worker on them, with amounts | state machine, extends `LiveTrace` |
| `TraceSnapshots` | the snapshots of one case, overlapping requests | state machine |
| `ProviderRequests` | request window, paging, coverage receipts | state machine |
| `WalletWatch` | watchlist, polling cycle, alerts | state machine |
| `Custody` | certified imports, status of an action | state machine |
| `NarrativeIntake` | narratives of one case: files, rows, assessments, reviews | state machine |
| `MCTracing` | the instance of these seven for TLC | model |
| `CommonLemmas` | least and greatest elements, recursion over an interval, sums, the arithmetic of one allocation | lemmas |
| `LiveTraceProofs` | `LiveTrace`, `LotExpansion` | proofs |
| `TracingProofs` | `Custody`, `TraceSnapshots`, `ProviderRequests`, `WalletWatch`, `NarrativeIntake`, `MCTracing` | proofs |
| `PresenceMonitor` | camera, detector and starts of one page | state machine |
| `OfficerSessions` | session rows, cookies and idle timers of one officer | state machine |
| `DispatchSla` | the dispatch register of one notice | state machine |
| `MCDesk` | the instance of these three for TLC | model |
| `DeskProofs` | `DispatchSla`, `OfficerSessions`, `PresenceMonitor`, `MCDesk` | proofs |

Operators whose comment begins with `mutant:`, and in some modules only says what is
wrong, are wrong variants of the definition below them, each a plausible bug; the
`mutants` of `PROJECT.json` name them all. No specification uses them; substituting one for
its definition makes a named property fail, which shows that the property looks at
that part of the code.

### Allocation and OrderedAllocation

`AllocateProportional`, `Share` and the two refusals are `allocate_proportional`
(allocation.py 44-79) with its early return. `OrderedAllocation` is the loop of
`allocate_ordered_outgoing`: `SkipTransfer`, `AllocateTransfer` and
`RejectTransfer` are the three ways of one iteration. The code sums the list first
and then walks it. The model keeps the part of the sum still to come, so every list
with that sum is a behaviour and none has to be carried in the state; because `0`
is an amount, lists of any length are covered.

### FrontierQueue

One row of the model is one `FrontierItem`. The actions of a worker are the steps
of `run_once`, split at the commits: `Recover`, `SelectCases`, then for each case
`ReleaseDue`, `SelectBatch`, `StampBatch`, and for each row of the batch
`NextItem` (the check that the row is still leased), then `Expand` or
`ProviderError`, then `SaveCoverage`. The provider request lies between `NextItem`
and the commit, where the clock (`TimePasses`) and new traces (`SealTrace`) go on.
`UnexpectedError` is an exception `run_live_tron_frontier_cycle` does not catch;
`Crash` is the death of the process. A row of the model stands for the arrival of a
transfer at an address. Two branches that reach an address lead on to the same
transfers, hence to the same rows: `Onward` says which, and `Expand` overwrites
such a row whatever its state, as `_upsert_child_frontier` does. Which transfers an
expansion queues depends on amounts and is left open: every choice is explored.

`persist_frontier_observations`, `complete_frontier_item` and
`release_frontier_item` (frontier.py) are called by tests only and are not modelled.

### AuditLog and AuditOutbox

`AuditLog` says what the outbox is for: events of committed mutations are delivered
once each, in commit order, and none of an uncommitted one is. `AuditOutbox` has
the threads of the server; each commits a mutation with its rows (`CommitMutation`),
commits nothing (`CommitNothing`) or appends directly (`CommitDirect`, the sites in
main.py that call `append_audit_event` after their commit). The flush
is `SelectPending`, then per row `Acquire`, `AlreadyThere` or `ReadTail` and
`Write`, then `Mark`. `AppendFails`, `DatabaseFails` and `Crash` may come between
any two. Outbox ids are commit numbers; the hash of a line is its position, so
"`prev` is the hash of the line before" is `prev = k - 1`.

### NoticeWorkflow

A request occupies a slot from the moment it has loaded its rows until it commits.
`Load` is the part before the wait, one action per handler the part after it.
`Written` is SQLAlchemy's unit of work: columns that differ from what was loaded are
written, the others keep what another request wrote meanwhile. Handlers that are
`async` do not interleave after their form is read; `return_notice_for_amendment`
reads the draft after its form, and commits with it, hence its two actions. The two
countersign handlers run in threads. `verify` is read after the form in the code and
therefore never stale in the model. Beyond the amount, which only `high` keeps, the
parameters are a revision number. Only the officer's one session is modelled, since
verification state is kept per session.
The notice belongs to a live trace or to a fixture (`mode`, chosen once). Only a
fixture notice can be verified, with a demo sign-in (main.py 3029), so a notice of a
live trace reaches its signature through `request_countersign`. Notices of fixtures
are reset, all of them, by every officer's logout (`reset_demo_notice_workflow`,
main.py 1141): `Reset` keeps versions, attachments and the dispatch record and takes
back the rest. It happens between requests; a reset that commits while a request on
the notice is under way is not modelled, and the properties are not claimed for it.
`shelved` only remembers how many versions there were at the last reset.

### LiveTrace and LotExpansion

`LiveTrace` is the walk of `_live_tron_bounded_trace_result` and of the EVM
engine's `run_trace`, which are near copies. `SeedFails`, `VerifyOnly` and `Verify`
are the ways the victim's payment is confirmed or not; then each pending edge in
rank order is `NotFollowed`, `LeftAtDepth`, `Expand`, `BackOff` or
`Misconfigured`. `Schedule` is `schedule_candidates` with its order of reasons
(depth, cycle, time window, floor, then address budget or breadth), `Walk` the ordered
allocation of an address. `Close` gives the terminal kind and `Seal` the unique
keys: a TRON trace whose rows collide is discarded as a whole. The chain is chosen
once, from a set of histories, so every branch sees the same transfers.
A row is keyed by transaction and event index, and where the provider gives no index
by the transfer's place in the answer for its source address (engine_bridge.py
1589-1594, live_tron_resume.py 654-659). `EventRef` is that key: a transfer has its
transaction `tx` and its index `log`, 0 for none. Two transfers of one transaction
without indices may therefore share a key on an ordinary path.

`LotExpansion` goes on from the sealed rows. `LotsSealed` writes lots and rows,
`StartCycleOfBatch` recovers, releases and leases, `ExpandItem` is the whole of
`expand_live_tron_frontier_item` with its children, `DeferItem` and `AbandonBatch`
are provider failure and death. It has the amounts that `FrontierQueue` leaves
open, and leaves to `FrontierQueue` the leases, clocks and retries; the two overlap
in the overwriting of rows. Its histories have event indices throughout.

Two behaviours of the code can be seen in this model that no run refutes, since no
document of the repository speaks of them exactly. The lot of a sealed row names
only the last step of its path as ancestry, so the worker may follow money back
through the reported address; and the worker looks at no time window and asks for
an address at the depth limit, where the trace leaves its edge queued.

### TraceSnapshots

A request that traces a case reads the latest snapshot and the stage, traces, and
commits later: `OpenCase` or `Retrace`, then `SealSnapshot` or `TraceLost`. The
unique key on the cache identity is the guard of `Sealed`; `Concurrent` is the
recovery from it. `Extend` is the copy a watch hit makes. Databases from before the
identity column are among the initial states.

### ProviderRequests, WalletWatch, Custody

`ProviderRequests` separates reading the clock from taking the lock of the window,
as the code does, so entries may be out of order. `WalletWatch` splits the cycle at
the provider call: `StartCycle`, `Synchronize` or `SynchronizeRaises`,
`ReleaseAndSelect`, `BeginPoll`, then the poll succeeds, is deferred or raises, with
officers and other traces in between. The queue of a cycle, `FirstDue`, is the
beginning of the due watches in the order of the code's sort; ids break ties, so
there is one such queue.

A change of the watchlist is two steps, since SQLite locks at the first write and all
of them read before it: the case with its watches (watch.py 108, `StartCycle`), the
highest rank (196 and 255, `PinManually`, `Prioritize`), the row to pause
(`SetPaused`). `Synchronize` and `CommitChange` then write the columns that differ
from the loaded ones, rank and commit. Of an officer's change the other rows are read
after its first write, so only its own row may be stale; of the cycle's all may be.
Changes that overlap can exceed the capacity or leave a place unused, take back a
pause, or give two watches one rank. `overlapped` remembers that the last change met
rows other than it had loaded; the next that does not ranks whatever it finds.

`Custody` has one action per commit of an import, any number of which may be
interrupted (`RequestEnds`) or overlap, and the check of an action's status against
the row as loaded. An outcome equal to the loaded one is not written, so of two
overlapping decisions one may confirm a restraint and the other leave it with an
outcome nobody verified. No document promises more of such decisions, and no property
here does.

### NarrativeIntake

An ingestion is `LookUp`, then the file in three steps (`CheckArtifact`,
`OpenArtifact`, `WriteArtifact`), then `InsertNarrative`, which is one action because
SQLite gives the request the write lock at the insertion and nobody else writes
before the commit. The file is written under its final name, so a death between
opening and writing leaves a torn file (`Restart`); `CheckArtifact` then refuses the
text for good, and two requests that both found the file absent may tear it again
after a row refers to it. `Restart` may also bring a newer analyser, for which a
stored text is assessed once more.

### PresenceMonitor

An action is the JavaScript between two awaits that really wait: for the detector,
for `getUserMedia`, for `play`, for the saved preference. `start` is the call whose
promise is `startPromise`; a pause, failure or disable makes it stale, which stands
for the generation. `live` and `open` are the streams and detectors that exist,
whoever still refers to them; a forgotten one would stay in them.

### OfficerSessions

A request loads its row (`Load`), and commits an expiry, a touch, a revocation or
an end later. The cookie a response writes is the session of its own request.
Pages keep their own idle clocks, and `IdleTick` is the timer that obscures a page
and then signs the session out, also when another page of the same browser is in use.
`Poll` is a request that a page sends without its officer, at load, on a timer or from
a save of its own (live-trace.js 66, trace.js 286, app.js 127-147); pages poll while
they are obscured and after the officer has left. It goes through the same session
check and touches the session; refused, it clears the cookie and leaves the page.

### DispatchSla

The handlers that change a record are `async` and atomic; the register page is not:
`LoadRegister` and `RegisterBreach` are apart. `BreachIsShown` refers to what
`tracker_row` and `dispatch_sla_view` compute for the page.

### MCDesk and MCTracing

The components in each of these share no state in their models. One run checks each
group: `component` says which one a behaviour is about and the others rest in an
initial state. This adds the state spaces instead of multiplying them, and a
property of one component is checked in all the behaviours of its own. The watch
has two components in `MCTracing`: "watchlist" with overlapping changes
(`OverlappingChanges`, two at a time) and "watch" with changes one after another
(`ChangesInTurn`), as both together are too many states.

## 3. Runs

| run | shows | bounds, and why they are enough |
|---|---|---|
| `OrderedAllocation` | no overspending, attributed value conserved, the balance always covers what is to come, a full spend leaves nothing | sums and seeds 0..8: every list of amounts up to 8, including zero amounts, totals below, at and above the seed, and lists the allocator rejects. The proofs lift the bound |
| `OrderedAllocationRaise` | *violation*: the internal check "Allocation would create attributed value." is hit by ordinary lists | the same |
| `FrontierQueue` | exhausted rows are never worked, retry history is kept, every queued row is settled, every lease ends | two rows that may lead to each other, one row of a second case, batches of 2, two attempts, depth limit 2, one crash or unexpected error. Two rows give overwriting of a leased row by its batch neighbour; the second case gives the case loop and its abandonment; one fault gives a recovered lease |
| `FrontierStarvation` | *violation*: with more backing-off cases than slots per cycle, a queued row is never reached | `MaxCases` 1 stands for the default with as many blocked cases |
| `FrontierDepth` | *violation*: a row deferred as beyond the depth limit is queried later | one case, two routes to one address |
| `AuditOutbox` | the chain verifies, delivery once and in order, nothing is dropped, refinement of `AuditLog`, eventual delivery | two threads, three events, up to two per mutation, four lines, two faults: two overlapping flushes of a backlog with a direct append in between and a crash before and after each step |
| `NoticeWorkflow` | no dispatch before a signature, the active version is the newest, lockout, attestation current | two requests at once, two versions, one edit, one overlap. |
| `NoticeUnsignedDispatch` | *violation*: the version dispatched need not be the one countersigned | one request at a time |
| `NoticeDispatchedTwice` | *violation*: a dispatched notice is routed and dispatched again | one request at a time |
| `Desk` | camera and detector against what is shown, sessions end for good and with the page, deadlines and breaches of a record stay | three identities of detectors and streams: one active, one being acquired, one left over; absence two units with a grace of one; two pages, two logins, two requests with one overlap, one poll in a unit of time; a record whose window of one closes well before the clock's three |
| `Tracing` | value in exactly one place from the payment to the last expansion, bounds of a walk, seals, snapshots, request shares, watch capacity, whole imports, current narratives | every list of three transfers over two addresses with two amounts, followed by one onward transfer and one outside the window; two transfers of one transaction with event indices and without; the lists named in `MCTracing` for the worker, with joining branches, cycles and refused attributions; batches of 2, depth 3, breadth 2, address budget 4; three snapshots with two requests; two threads on a window of two requests with one kept; two watches for one place, with two officers and a cycle overlapping on the watchlist while the clock, the case and the chain stand still, and with changes in turn while those move; two imports with a shared response; two texts, two narratives, two revisions and one review |
| `LotForgotten` | *violation*: where two branches join, a lot is left without a row | the worker's histories only |

### Properties

- `ValueConserved`, `BalanceCoversTheRest`, `FullSpendLeavesNothing`: whatever the
  rounding, paid plus remaining is the seed; the denominator never runs out; an
  address that spent at least the attributed amount keeps none of it.
- `ExhaustedNeverWorked`: a row whose attempts are used up is never queued or leased
  again by recovery, release or a late deferral. `RetryHistoryKept`: attempts are
  lost only when an expansion finds the same transfer once more.
- `QueueDrains`, `LeasesEnd`: every queued row is settled and every lease ends,
  although a process may die with rows leased.
- `ChainVerifies`, `DeliveredOnce`, `MarkedIsLogged`, `RefinesLog`,
  `EventuallyLogged`: the promise of the outbox under overlap and faults.
- `SignedBeforeDispatch`, `ActiveIsNewest`, `LockedIsUnverified` hold however
  requests overlap; the last says something of fixture notices only, as no other is
  ever verified. `AttestedIsCurrent` holds as
  long as they do not: a save that commits while a generation waits for its form is
  not in the version, and with the draft clean again can be attested. The property
  is stated for request-by-request behaviour, which includes every sequential one.
- `ValueSpentOnce`: every base unit of the payment is resting at an address or on
  exactly one branch, from the walk to the last expansion, although providers fail
  in the middle, joining branches rewrite each other's rows, leases are recovered
  and batches abandoned; and no row that may still be worked holds a spent lot.
- `WithinBounds`: an edge is planned under the budget of that moment; the walk
  itself keeps the address budget, depth, window and simple paths.
- `DominantPathSeals`: a trace of the dominant flow cannot collide with itself, unless
  it meets two transfers of one transaction that the provider left unnumbered. A
  value-weighted one can: two branches that join both report what leaves the address,
  and the finished trace is discarded.
- `FailureDisplacesNothing`: with overlapping traces, retraces and watch hits, one
  snapshot per identity, replaced only by one that started from it, and never by a
  retrace that failed.
- `InteractiveShareKept`: polls leave the reserved requests, whatever the order of
  clocks and locks. `CapacityFollowsOfficers`: the capacity is kept and used, by the
  watches officers rank highest, whenever the last change of the watchlist found the
  rows it had loaded; overlapping changes break this until the next one that does
  not overlap. `CertifiedImportIsWhole`: an import that
  reports success is complete, also if an earlier one died half way.
- `OneCurrentNarrative`: however requests deliver and repeat texts side by side, the
  evidence shows exactly one narrative per source. Whether it is the one delivered
  *last* is another matter: a text that returns after another is found stored and
  superseded, and stays so.
- `CameraOnlyWhileMonitoring`, `MonitoringIsAlive`, `ObscuresOnlyAfterAbsence`,
  `EventuallyMonitored`: what an officer sees of the monitor is what it does,
  whichever operations meet between the awaits of a start.
- `EndedIsFinal`, `ServerNearPageDeadline`, `UnattendedSessionsEnd`: a touch that
  commits after a revocation does not revive the session; page and server agree on
  the deadline up to the reporting interval; a desk that was left ends obscured and
  signed out although its pages go on polling, because they count their own idle time
  and no poll resets it. An idle page does end the session of a busy one of the same browser,
  so that a session ends only when idle is not claimed.
- `SlaClockSetOnce`, `BreachIsShown`: no later status, second dispatch, reset or
  register page that loaded the record earlier moves a deadline, thaws a frozen
  remainder or takes back a breach, and a registered breach is visible.

### Fairness

`FrontierQueue` assumes weak fairness of each worker's steps (the supervision loop
calls `run_once` for ever, and every step of a cycle is always enabled or skipped)
and of `TimePasses` (clocks do not stop). It assumes nothing of traces, faults or
the outcome of a request: a provider may refuse for ever. Faults are bounded by
`MaxFaults`, so `QueueDrains` says that the queue recovers from finitely many of
them. It does not say so of a row whose expansion always raises: an
`AllocationError` is such an exception (see the first finding), is not counted as an
attempt, and comes back after every recovery.
`AuditOutbox` assumes weak fairness of a started handler's steps. `EventuallyLogged`
is conditional on further flushes arriving (`FlushesKeepComing`), because nothing
flushes at startup or on a timer: after the last handler crashed, its rows wait for
the next one.
`Desk` assumes weak fairness of what the browser does for a page (promises settle,
frames arrive, time passes), of each request's handling and of the idle timers. It
assumes nothing of the officer, who may leave. `Tracing` states no fairness and
checks no liveness: a trace, an import or a poll may always be interrupted.

`Tracing` is symmetric in the two names that stand for requests and threads alike;
it has no liveness property, for which symmetry would be unsound.
`Tracing`, `LotForgotten` and `Desk` do not check deadlock, as a trace ends and the
clocks stop at their bounds.

## 4. What the violations show

1. **The allocator rejects ordinary lists** (`NeverCreatesValue`). The remainder carried over is a
   numerator for the *old* denominator; the next transfer divides by a smaller one.
   Amounts `8, 1, 1` with one unit attributed, or `1000, 3, 2` with 500, end in
   `AllocationError`; smaller effects give a transfer more attributed than it moves
   (`5, 1, 4` with 9 attributes 2 to the transfer of 1).
2. **The queue may starve.** `run_once` picks the lowest case ids among those with a
   queued or backing-off row, and exhausted rows count as backing off for ever; as
   many such cases as there are slots shut out every later case.
3. **A deferral reason is lost** (`QueriesWithinDepth`). Two rows of a batch lead to the same transfer; the
   expansion of the first overwrites the second, still leased, as `depth_budget`;
   the worker then refuses the second as no longer leased, which defers it as
   `provider_backoff`; it is released and queried beyond the depth limit.
4. **The dispatched version may be unsigned** (`DispatchedVersionIsSigned`). The dispatch guard looks at the
   notice, which stays signed when a new version is generated; it can even be signed
   before there is one.
5. **A notice may go out twice** (`DispatchedOnce`). The route handler writes the status without looking
   at it, so a dispatched notice becomes dispatchable again. Routing needs a
   verification, so this is a fixture notice, dispatched twice between two resets.
6. **Money is forgotten where branches join** (`LotsAreFollowed`). Two branches reach an address whose
   next transfer is the same. The second expansion finds the row of the first and
   repoints it to its own lot. The first lot stays in the ledger as queued with its
   value; no row refers to it, so it is never followed and nothing says why. The
   value is not lost (`ValueSpentOnce`), only the work on it.

## 5. Proofs

All are checked for every value of the constants that satisfies the named
assumptions, and assume no bound beyond them.

- `OrderedAllocationProofs` (assumption `BoundsAssumption`). `TypeCorrect`,
  `Conservation`, `BalanceSuffices` and `NothingStaysBehind` from the inductive
  invariant `IInv`. `FullSpendLeavesNothing` is not inductive: rounding may leave
  money at every step. `BalanceIsPending` is what is missing: as long as any is
  left, the balance is exactly the sum of the transfers to come, so the last of them
  takes the early return. The lemmas `ShareKeepsWithinBalance` and `AllocationStep`
  carry the arithmetic.
- `FrontierQueueProofs` (assumption `QueueAssumption`). `TypeCorrect` and
  `HistoryKept` hold for any number of workers. `RetriesBounded` is
  for one worker, `Workers = {w}`, which is how the server is run (docs/DECISIONS.md:
  one Uvicorn worker): with two, a row is stamped by both, and it fails. `IInv` adds
  that a batch is still queued when it is stamped, that a leased row of a batch and
  the row a request is made for are this worker's, and that a row nobody wrote has no
  attempts.
- `AuditOutboxProofs` (assumption `OutboxAssumption`). `TypeCorrect`, `ChainIsValid`,
  `AtMostOnce`, `NothingDropped` and `Refinement`, for any number of threads, events
  and faults. `IInv` adds that the lock is held by exactly the thread between read
  and write, that the line about to be written carries the present tail and an event
  not yet logged, and that neither the log nor a flush has a gap: every row older
  than one a flush holds is held too or logged, hence order of delivery.

- `NoticeWorkflowProofs` (assumption `NoticeAssumption`). `TypeCorrect`,
  `SignedFirst`, `NewestIsActive`, `LockHolds` and `AttestationCurrent`, for any
  number of slots, versions and edits. The hazard is that a handler decides on rows
  it loaded before its form arrived. `IInv` therefore says what a loaded row may be:
  signatures and version numbers only grow while a request is under way, so no request
  has loaded more than there is (`LoadedIsOlder`). For attestation it adds that a request that never overlapped
  another has loaded the draft as it is (`AloneIsFresh`), and that without overlaps a
  clean draft is the text of its active version (`CleanIsGenerated`).
- `DeskProofs` has a section per component.
  *Dispatch register* (`DispatchAssumption`): `ClockSetOnce` and `BreachShown` from
  `DispatchInv`. `ViewIsOlder` is the point of it: what a page has loaded may be out
  of date, but a deadline it saw is still the record's, so the breach it registers is
  one of a record that is late.
  *Sessions* (`SessionAssumption`): `EndedForGood` needs types only, since
  `TouchSession` writes the columns it changed and never the end; `ServerNearPage`
  needs `SessionInv`, in which an open page is near its deadline *or* has an activity
  report under way that will touch the row the page is under. A poll belongs to no page
  and can only raise a deadline.
  *Presence* (`PresenceAssumption`): `CameraReleased`, `MonitoringWorks` and
  `ObscuredAfterAbsence` from `PresenceInv`. A start that kept its generation is still
  wanted (`FreshStartIsWanted`), because whoever changes his mind outdates it; that is
  what makes it safe to go on after an await. The assumption says that there
  are handles (`Handles # {}`), for a new detector or stream is one of them.
- `TracingProofs` has a section per component, too.
  *Custody* (`CustodyAssumption`): `ImportIsWhole` from `CustodyInv`: an import is
  certain of the rows behind its program counter, and a record it has not come to yet
  is still before it, whoever else writes the same response.
  *Snapshots* (`TraceSnapshotsAssumption`): `FailureIsContained` from `SnapshotsInv`.
  The property speaks of what replaced a snapshot; inductive is only that a snapshot of
  a retrace is found under no parameters and started from another one
  (`RetraceIsApart`), and that an extension refers back (`ExtensionIsNext`).
  *Provider requests* (`ProviderAssumption`): `PollsLeaveTheShare`. Besides the length of the
  window the invariant bounds the polls in it (`WindowIsShared`); what is not a poll is
  a request of a trace, and pruning maps what is left one to one into what there was.
  *Watch* (`WalletWatchAssumption`): `CapacityIsFair`. `Rebalanced` ranks the watches and takes the first
  `WatchCap`; the proof counts places: the worst chosen watch has all other chosen ones
  before it, the best waiting one has all chosen ones before it, hence the capacity is
  used up exactly when one waits. A change whose loaded rows are the present ones writes
  exactly this ranking, column by column, whatever earlier changes left (`WatchInv`
  has nothing else of the rows), and no other step touches status or rank. The
  assumption says that the addresses of a case are
  finitely many and that transfers have times.
  *Narratives* (`NarrativeAssumption`): `OneNarrativeCounts` from
  `NarrativesInv`: the unique key refuses a text stored since the look-up, and a row that
  is inserted supersedes the current one of its source in the same commit.
- `LiveTraceProofs` (assumption `LiveTraceAssumption`): `NoValueIsLost`, `WalkIsBounded` and
  `DominantTraceIsSealed` from `TraceInv`, for every set of finite chains and every
  amount, budget, depth, breadth, floor and window. An edge is named by its path, and
  what led to a seen edge is a hop while a pending edge is none (`EdgesApart`): the
  edges of an expansion are therefore new, and the total of what is open changes by
  exactly what left. That this is what arrived less what stays is shown for one
  address of any number of transfers (`WalkTyped`, `TotalOfSteps`, `EdgesTyped`).
  A pending edge ends at an address that is not on its path (`PendingIsOpen`). On the
  dominant path one edge is pending at a time, and everything seen left an address
  before it (`OnePathWalked`); since the next address is new, no transfer is seen twice.
  By the assumption the transfers of one transaction are all numbered, and apart, or
  all unnumbered; two rows with one key are therefore of two transfers only in the
  second case, which the property names.

  For `LotExpansion` (`LotExpansionAssumption`): `NoLotIsSpentTwice` and
  `LotsTypeCorrect` from `LotsInv`, for every batch size too. It adds four things to
  `TraceInv` and `ValueSpentOnce`. There are no lots before a trace is sealed
  (`NoneUntilSealed`). A trace that closes has no pending edge left, and one that failed
  has seen none (`EndIsClean`), so the sealed frontier carries all that is not
  stationary, and by `Sealable` each of its edges ends with a transfer of its own. What
  is leased is not completed and leased once (`BatchIsOpen`): completing a row cannot
  pull it from under a second lease. Paths of lots are not empty and ancestries name
  addresses of the chain (`LotsTyped`), which the schedule of the children needs. An
  expansion gives the children lots behind all others, so a rewritten row shares its lot
  with nobody, and the sum over the lots changes by what left less what stays, by the
  same lemma (`EdgesOverTyped`) as in the walk (`RemainingIsTotal`,
  `RemainingOfExpansion`).
- `CommonLemmas` has what they share. That a set of numbers has a least
  and a greatest element is derived from the choice of a minimal element in a
  well-founded set of `WellFoundedInduction`, which does not need an induction over a
  predicate. A recursive function over an interval is written as a choice of its
  solution; `RecursionSolved` shows that there is one, as the least number for which
  there is none would be one more than a number for which there is. `SumExists` does
  the same for the fold that sums a finite set, by cardinality; the sum of a disjoint
  union (`SumOfUnion`) follows by taking the smallest counterexample.

The theorems about a component are about its own specification. `DeskImplements` and
`TracingImplements` say that a behaviour of the composed run is one of each component,
and `WorkerKeepsTrace` that a trace is the same trace whether or not its lots are worked;
what is proved of the parts therefore holds of what TLC checks (`DeskTypeCorrect`,
`TracingTypeCorrect`).

Each inductive invariant is checked by TLC before it is proved, by adding it to the
invariants of the run of its component.

Not proved:

- liveness (`QueueDrains`, `LeasesEnd`, `EventuallyLogged`, `EventuallyMonitored`,
  `UnattendedSessionsEnd`): fairness and ENABLED are outside the prover's reach.

## 6. Plan

Done: every component with state of its own, except the preparation of a notice by
finding review, is modelled, wholly or in its core, and checked; every safety property
of the passing runs, and the refinement of `AuditLog`, is proved. The liveness
properties stay with TLC.

What could follow:

1. `FrontierQueue` and `LotExpansion` describe the same rows, the one with clocks,
   retries and several workers, the other with amounts. Both keep their invariants
   under every overwriting of rows, but no theorem relates them: a queue that carries
   the amounts would have to be shown to implement both.
2. The preparation of a notice, as an action before the first one of `NoticeWorkflow`.

## 7. Not modelled

Whole parts:

- derived views (risk, behaviour, explainability, strategy, docket, search, graph),
  the analysis of a narrative, presentation, scripts and fixtures keep no state
  whose order matters;
- finding review: `review.py` is a pure computation; `prepare_notice` creates the
  notice that `NoticeWorkflow` starts with (two requests may both create it, or one
  of them fails on the unique number: listed as a hazard, not modelled);
- parsing and integrations are I/O: an answer, an error or a delay of theirs is a
  nondeterministic choice in the modules that call them;
- schema upgrades (`app/db.py`) run once before anything else.

Parts of modelled components: the fixture engine and the tracing of UTXO chains;
`reassign_alert` and the statistics of the watch; the activity counters of a
session; nudges, filters and exports of the register; channels, PDF content and
resets that overlap a request of `NoticeWorkflow`; what the validations of a custody payload look
at; functions of `frontier.py` that only tests call.

Faults left out: torn lines of the audit file and writes lost at a power failure. A
line is written as a whole, and the file and the database keep what they were given.
