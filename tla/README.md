# A TLA+ model of the order path

This directory holds the specifications kept beside the trading program: TLA+
modules translated from the source, TLC configurations that check them on small
instances, and theorems whose proofs TLAPS checks.  The subject of the first
part is what can cost money at once: how an order intent becomes at most one
request to the broker (KIS), how its row in the order ledger follows the truth
at the broker through crashes, lost answers and concurrent reconciliation, and
the lock and the transactions all of this rests on.  On top of it stand the
entry and the exit of an S6 position and the exits of a position of the general
store, where up to four ledgers and the broker have to agree.  Below it stands
what every request to KIS passes first: the rate limiter and the shared token.

Paths below are relative to `src/`.

## 1. The system

The program trades US stocks through the KIS REST API.  Several processes,
started by timers, share one SQLite database and a few files:

| process | entry point | what it does to orders |
|---|---|---|
| entry cycle, buy worker, pilots | `kis_live_trading.py`, `scripts/run_s6_runtime.py`, `live_pilot/runner.py` | submit and cancel, through `execution/execution_engine.py` |
| reconciliation service | `scripts/run_reconciliation.py` | resolves UNKNOWN rows, settles filled ones, resolves exit intents |
| S6 exit tick | `scripts/run_s6_runtime.py` under `deploy/cron/s6_exit_monitor.sh` | sells held positions, cancels stale SELLs, recovers dead ones |
| position manager | `kis_position_manager.py`, from the live pilot and the S1 executor | every tick resolves UNKNOWN rows, then books fills and decides exits |
| operator | `operations/kill_switch.py`, `scripts/release_pre_transport_orphan.py` | sets and clears HALT, releases orphaned rows |

They interact through the rows and events of the ledgers (SQLite
transactions), lock files (`flock`: the single-run lock, the execution lock of
entries and exits, those of the rate limiter and the token cache), the HALT
file, and the broker, whose answers are reads of a moving state.

### Inventory

For each component: state; operations; what makes it correct; how it is hard.

* **Order state machine** (`execution/order_state_machine.py`). The allowed
  transitions of a row, its terminal states, and the exits of UNKNOWN that only
  reconciliation may take.
* **Idempotency ledger** (`execution/idempotency.py`). One row per order with
  four uniqueness keys. `register`, `has_unknown_order`, the listings. Correct
  when one signal gives at most one request a trading day, whatever is retried.
* **Single-run lock** (`execution/idempotency.py`). A lock file that is
  unlinked when the block ends, so that `flock` alone does not mean ownership.
  Hard: every system call interleaves with those of other processes, and any
  of them may die between two calls. Correct when one process is inside and
  nobody is shut out by a file a dead one left.
* **Order repository** (`execution/order_repository.py`). `compare_and_set_state`
  moves a row and appends its event in one transaction; `_abort_transaction`
  and `invalidate_connection` clean up. Hard: every statement may fail, the
  rollback too, and a failed read after a successful commit looks like a
  failure. Correct when no update is lost, every move has its event, and no
  transaction is left open.
* **Execution engine** (`execution/execution_engine.py`). Submission: register,
  validate, snapshot, authorize, approve, mark SUBMITTING, send, record. Cancel:
  load, authorize, mark CANCEL_PENDING, send, record. Hard: it can stop after
  any durable write; the answer may be lost; the ledger may be unwritable.
* **Account snapshot, authorization, sell-safe evidence**
  (`reconciliation/snapshot.py`, `execution/authorization.py`,
  `execution/sell_safe_evidence.py`). Three broker reads and a ledger read, the
  verdict, HALT and the gate. Hard: all of them are past reads when the request
  leaves.
* **Fill window** (`reconciliation/fill_window.py`). From which day on fills
  are asked for, derived from the ledger's live rows.
* **Reconciliation** (`reconciliation/order_reconciler.py`,
  `scripts/run_reconciliation.py`, `kis_position_manager.py`,
  `reconciliation/sell_projection.py`). Evidence from open orders and fills
  moves rows without the single-run lock. Correct when it never takes a row from
  a request in flight, never ends a row against the truth at the broker, and
  ends what the broker has ended.
* **HALT** (`operations/kill_switch.py`). A file; asked when a run is
  authorized.
* **Orphan release** (`scripts/release_pre_transport_orphan.py`). The operator
  ends a row whose order never reached the broker, after three questions. Hard:
  the questions are asked one after the other, and the broker itself shows a filled
  order nowhere for some minutes.
* **Broker transport** (`brokers/kis_broker.py`). Refused before the wire, sent
  and answered, or ambiguous.
* **S6 exit** (`s6_live/exit_runtime.py`, `exit_timeout.py`,
  `position_store.py`, `fill_adoption.py`; `s1_live/exit_runtime.py` for the
  submission; `brokers/kis_fill_inquiry.py`; `reconciliation/exit_intent_resolution.py`).
  The position's row, the exit intents, the order ledger's rows and the broker's
  book. Hard: the tick's stages read the broker at different moments, fills are
  published late, answers get lost, and the tick may die between any two writes.
  Correct when nothing is sold twice, nothing is sold that is not held, and no
  exit gets stuck.
* **S6 entry** (`kis_live_trading.py`, `execution/entry_limits.py`,
  `execution_lock.py`, `order_gate.py`, `reentry_policy.py`;
  `s6_live/entry_lifecycle.py`, `entry_timeout.py`, `fill_adoption.py`,
  `position_store.py`). Workers check, register, judge a snapshot and the caps,
  send, record the answer, and write the position's row; the tick books fills,
  adopts what has no row, and cancels what rests too long. Hard: the row is written
  after the lock is let go, the caps mix reads of different moments, reconciliation
  takes no lock at all, and each side may die. Correct when a symbol is not bought
  twice, no cap is exceeded, and every filled buy ends under a row.
* **Position lifecycle** (`positions/lifecycle.py`, `store.py`, `states.py`,
  `kis_position_manager.py`, `state_store/exit_intent_ledger.py`). A row with a
  transition table; fills of the buy, the stop, a partial and a full exit, each an
  intent that is reserved with the row and booked with it. Hard: two tickers manage
  the same position, everything is read outside the store's lock and written inside
  it, except for three marks on an intent, which are outside too and overwrite
  whatever they find; fills are cumulative, and a lookup may find nothing. Correct
  when no exit is forgotten while it works or asks for more than is held, each fill
  is booked once, and a position is closed when its shares are sold.
* **Rate limiter and token cache** (`brokers/kis_rate_limiter.py`,
  `kis_token_cache.py`, and their use in `kis_broker.py`). A state file of last slots
  under a flock, rewritten through a temporary file; a token file under another
  lock, whose holder takes a slot of the first kind. Hard: every call may fail,
  a process may die with a slot, the power may go before the directory is synced,
  and slots are waited for outside one lock and inside the other; a call that fails
  sends an alert over HTTP before it gives the first lock back, for as long as the
  others wait for that lock. Correct when two requests of a category never share an
  interval, a caller that gets its slot keeps nobody waiting, and the limiter
  believes its own queue.
* Further parts are not modelled (section 6): S1's and S2's own executors, live
  pilot, state store, kill switch state, shadow audit, notifications, market data,
  and what never touches an order. `PROJECT.json` names their files and says why.

## 2. Modules

| module | models | composes |
|---|---|---|
| `OrderStates` | the status graph | |
| `OrderIntents` | what tells two intents apart | |
| `OrderLedger` | rows, keys, registration, compare-and-set as its callers see it, fill window | `OrderStates`, `OrderIntents` |
| `KisMarket` | the broker: an external model, from how `src/` uses it | `OrderIntents` |
| `OrderLifecycle` | engine runs, service and tick passes, sell projection, HALT, calendar | `OrderLedger`, `KisMarket`, `OrderPromise` |
| `OrderPromise` | abstract specification: what the order path promises the strategies, refined by `OrderLifecycle` | |
| `OrphanRelease` | the operator's command beside all of the above | `OrderLifecycle` |
| `SingleRun` | abstract specification: a lock with at most one holder | |
| `SingleRunLock` | the lock file protocol, refining `SingleRun` | `SingleRun` |
| `AtomicLedger` | abstract specification: a compare-and-set in one step | |
| `LedgerTransaction` | registration and compare-and-set statement by statement, refining `AtomicLedger` | `AtomicLedger` |
| `S6Exit` | the exit of an S6 position: the tick's stages, the intents and their resolution, the broker's book | |
| `S6Entry` | the entry of S6 positions: workers, caps, the tick's booking, adoption and timeouts, reconciliation beside them | |
| `PositionLifecycle` | one position of the general store: fills, exit intents, ticks side by side, the broker | |
| `KisAccess` | rate limiter and token cache: files, locks, slots, one clock | |
| `*Proofs` | theorems about the module of that name | |
| `MCOrderLifecycle`, `MCOrphanRelease`, `MCKisAccess` | instances for TLC | |

Three abstractions tie them together. `OrderLifecycle.lock` is `SingleRun.holder`:
that the runs use it so is proved (`RunsLock`), and that the lock file provides it
is checked and proved (`ImplementsSingleRun`). And
`OrderLedger.CompareAndSet` and `CasRaises` are what a caller can observe of
`AtomicLedger`: `Move` and `Answer`, or `Raise` before or after `Move`, an
exception after which the row has not moved or has (a commit that succeeded before
a read that failed). That the statements of the repository provide it, whichever of
them fails, is checked and proved too (`ImplementsLedger`).

The third looks the other way. `OrderPromise` says what is left of the order path for
somebody who sees neither runs nor rows: an order is sent in one step, if nothing
of its signal was sent today, no order is in doubt (for a sell: none of its symbol)
and HALT has not been used up; the ledger claims of an order that it works, has
filled in part or in full, was cancelled, was rejected or is in doubt, each claim
true of the broker when it is made, and only in the order of `Successors`. `OrderLifecycle`
implements it (`KeepsPromise`): a status maps to the claim it makes (`ClaimOf`), a
request to the step `Send`, though the checks behind that step are spread over five
durable writes and four reads, and every crash, lost answer, conflict and retry to
nothing at all. `Successors` says less than the transition table: what is in doubt may
legally be reconciled to REJECTED or CANCELLED (`order_state_machine.py:79`), but no
component ever does. The operator's release command is not part of the promise: it may
call an order rejected that is on its way (section 5).

### How state and actions correspond to the code

`PROJECT.json` maps every definition to its lines. The main decisions:

* A row is its status, its version, whether its broker number is recorded, and
  its trading day. Prices, texts and timestamps are left out.
* An engine run is a `pc` between two effects. One action is one durable write,
  one broker read, one request or one answer, so that other processes, the
  broker and a crash can come between any two. `held` is the row the run passes
  to its next compare-and-set.
* After a successful compare-and-set the code reads the row again. The model
  holds the row as the write left it: if somebody moves it in between, the next
  compare-and-set conflicts in the model and the code would move the newer row;
  `InFlightIsOwned` shows that nobody does while it matters.
* An audit or notification write that raises ends the run like a crash; both
  are `Crash`. When neither rollback nor close of the connection works, HALT is
  set and the process stops (`FatalConnection`, `PassFatal`); if HALT cannot be
  written either, that is again `Crash`.
* The gate's conditions on data (prices, limits, re-entry) are a refusal that
  may always happen; the conditions kept are HALT, the snapshot and UNKNOWN.
* The snapshot's position comparison is a verdict that may fall either way, but
  cannot be clean when the broker holds shares of an order whose number the
  ledger never learnt.
* `SettleSell` loads and moves in one action: a compare-and-set that succeeds
  proves that the row was as loaded.
* A sell the exit ledger calls confirmed in full has filled in full at the
  broker, and the fill history shows it. (`S6Exit` has the exit ledger; the two are
  not composed.)
* The broker takes an order that has filled out of the open orders at once and
  publishes its executions later (`KisMarket.Publish`), which is the gap that
  `brokers/kis_fill_inquiry.py:205-218` records: four minutes were observed. In
  between it is in neither list. Its holdings change with the execution: that is
  how the code uses them (`kis_broker_adapter.py` permits a SELL by what is held,
  and the release command asks for positions beside the fills); nothing in `src/`
  says how late they may be.
* The release command ends a row after three such reads. `released` keeps, for each
  row it ended, whether the order had reached the broker before the command asked
  and how many of its shares were hidden in that gap as the fills were asked.

`S6Exit` follows one symbol, whose entry has filled at the broker.

* A SELL is one name for its intent, its row in the order ledger and the order
  at the broker. `order` keeps what the gates read of the second: whether it is
  UNKNOWN and whether its number is known. How a row gets there is
  `OrderLifecycle`'s subject; here `Accepted`, `Ambiguous` and `Unrecorded` are
  the three ways a request that left can end, and `Refuse` the rest.
* A refused attempt leaves an ABORTED intent that nothing reads again, so its
  name is free for the next attempt; `MaxSells` bounds the orders that leave, not
  the attempts.
* A tick is a `pc` through the stages of `run_once`, with its sweep of the open
  orders and the ages of the orders as of its start; cron's `flock` keeps two
  ticks apart. Each broker read and each durable write is a step, except that a
  position's closing and the end of its intent are one: nothing reads an intent of
  a closed position.
* `Age` has three steps: below the 600 seconds of the SELL timeout, above, and
  above the 900 seconds after which an order gone from the book is final.
* A full execution removes the order from the book before `Publish` shows it,
  which is the gap `kis_fill_inquiry` is about.
* The exit rules are a free choice (`Hold`, `LatchExit`, `DecideSell`). A
  database write succeeds or the tick dies. The entry's own rows, and the
  operator's `scripts/run_external_close.py`, are left out.

`S6Entry` follows symbols over one trading day.

* A buy is one name for its row in the order ledger and the order at the broker.
  `SUBMITTING` stands for every status before an answer; how a run moves through
  them is `OrderLifecycle`'s subject.
* A worker has the execution lock from `Take` to its answer, and none at `record`,
  where it writes the position's row (`kis_live_trading.py`). `Drop` and `Refuse`
  stand for every check that may turn an entry down.
* What the gate counts is read at three moments: the positions with the snapshot,
  the open orders after it, the ledger's rows when the gate is asked. `Pending`,
  `Owned` and `EntriesToday` keep that.
* The tick's stages are steps of their own, as in `S6Exit`; its fill lookups are one
  step, since the rows are independent, with a choice of which were answered. Its
  exits are one step too: they are `S6Exit`'s subject, and here they only make a
  symbol sold.
* Reconciliation moves single rows at any time.

`PositionLifecycle` follows one position.

* What the code does under the store's lock is one step that reads and writes; what
  it reads before, the intent, the broker's answer, the record, is a step of its own,
  and the tick carries what it read (`found`, `booked`, `full`, `intent`). Where the
  code has read a value again under the lock, the model uses the current one.
* `_transition` of the intent ledger reads the intent, raises if it has ended, and
  writes with a WHERE on its id alone. `reconcile_pending_exit` and `_execute_exit`
  call it in three places without the store's lock (`lifecycle.py:430`, `540`, `574`):
  there its two halves are two steps, `Test...` and `Mark...`, and another tick may
  book or end the intent in between. `Overwrite` keeps the confirmed count, as the
  statement does.
* Two ticks are the live pilot's and the S1 executor's. `Crash` ends a tick anywhere;
  it also stands for a tick that gives up because the lock times out.
* The rules of `check_and_manage` are a free choice among what the state allows;
  prices are left out.
* `TRANSITIONS` is kept as far as the modelled code moves; an illegal move raises and
  writes nothing.

`KisAccess` has a clock of its own.

* Time passes only when nobody can go on (`Tick`, `Waits`): computing and file access
  take none, and what matters are sleeps, time-outs, KIS's answers and alerts. `Issued`
  and `Answer` are KIS's and may take any time.
* A call that fails tells the operator before it raises, and `wait` gives the flock
  back only then (`kis_rate_limiter.py:527-531`): the alert is a Slack
  `requests.post` with a time-out of 10 seconds (`operations/alerts.py`,
  `slack_utils.py:55-59`), as long as the others wait for the lock. A process at
  `alert` may stay there for any time, with the flock if it had it; so may one at
  `close`, whose unlock failed. A slot too far ahead raises without an alert
  (`abandon`). The alert the token cache sends when it rejects a stored token is
  left out: it is sent outside the flock and takes time no other process waits for,
  except at the token lock, whose time-out is modelled.
* `file` is what a reader sees, `durable` what a power loss would leave; between the
  rename and the sync of the directory they differ. `temps` are temporary files of
  processes that died, which name them by their process id.
* Every failing call is a disjunct, counted in `faults`; `Fail` is where a call has
  failed and `Raise` the exception that leaves `wait` or the request. `invalid` is the limiter's refusal to go on after
  a failure it cannot judge.

Assumptions about the outside: KIS gives an order number with every acceptance
(`brokers/kis_broker.py:1751` would record one without a number as REJECTED);
who asks for a cancel knows the broker's number; working orders end with their
trading day; the day does not change while the single-run lock is held; only
the lock protocol removes its file.

## 3. Runs

| run | question | instance |
|---|---|---|
| `submissions` | One request per signal (`OneOrderPerSignal`), one after HALT (`HaltStopsOrders`), none past an UNKNOWN order (`UnknownBlocksOrders`)? Can an order slip away between the release command's questions (`EarlierOrdersAreSeen`, `EarlierBuysAreHeld`)? | two runs; two buys of one signal and a sell of the symbol; the release command |
| `reconcile` | Types; does reconciliation respect requests in flight (`InFlightIsOwned`), are terminal rows true (`TerminalTruth`), are filled orders settled (`FilledOrderSettles`) and UNKNOWN ones with fills resolved (`FilledUnknownResolves`)? Does all of it amount to `OrderPromise` (`KeepsPromise`)? | a sell of two shares, a run, a service, two days |
| `lock` | Ownership, exclusion, refinement of `SingleRun`, no lock-out | three processes, four inodes |
| `ledger` | Lost updates, missing events, leaked transactions, foreign commits; refinement of `AtomicLedger` | two connections, two rows |
| `exits` | Types and quantities; two SELLs at once (`OneWorkingSell`), more sold than held (`NoOversell`), a live SELL released (`ReleasedExitIsDead`)? | two shares, two SELL orders, a re-adopted position, a crash |
| `exit_resolves` | Does a submitted exit end? | two shares, one SELL order, a crash |
| `entry` | Types; a symbol bought twice (`NoSecondBuy`), the day's cap exceeded (`DailyCapHolds`), filled shares under no row (`FilledBuyIsTracked`)? | two workers, three buys of two shares of a symbol, a crash |
| `positions` | Types; an exit forgotten at work (`WorkingIsOwned`), asking for too much (`ReservedIsHeld`), booked twice (`FillsBookedOnce`) or never (`FilledExitIsBooked`), closed unsold (`ClosesWhatIsSold`)? | two ticks, two shares, two exits, a crash |
| `access` | Types; two requests in one interval (`SlotsAreSpaced`), two tokens too soon (`TokensArePaced`), waiting for a caller that gets its slot (`NobodyIsStarved`), the queue taken for corruption (`QueueIsBelieved`)? | two processes, a read and a token category, three time units, two faults |

Three more runs show a statement of the code's own comments violated (section 5).

**Why the bounds suffice.** Two runs are a holder and an intruder; a third
adds only another waiter. Two orders of a signal are the smallest duplicate, two
of a symbol the smallest confusion, and two shares the smallest partial fill.
Two days give an order that filled before midnight and a pass after it.
`MaxVersion` limits how often a row can be cancelled or settled to
PARTIALLY_FILLED again: 5 allows a whole submission and a cancel, and 6 a
further resolution or settlement. Four inodes let all three processes hold
different files while the path names a fourth. A second SELL is the smallest
double sale, a second position row the smallest re-adoption. In `entry` two
workers meet each other and their own earlier entries, and three buys are one
more than the cap of two. In `positions` two shares give a buy that fills in part,
a partial exit and a full one of what is left, and a full exit that fills in part;
its safety properties were also checked with four shares, where a partial exit can
fill in part too, and are proved for any number. In `access` a read's interval is one
time unit and a token's three, so that a second token request falls due within the
bound; two faults are a lost slot and a failing write of the next one, or a failing
call, its alert and a lock that is not given back. The largest runs are `access`
with 3.9 million distinct states, `submissions` with 2.1 million, `positions` with
0.6 and `reconcile` with 0.13 million. The theorems of
section 4 hold without any of these bounds, except that the `Max...` constants are
parameters of the specifications.

**Fairness.** `OrderLifecycle.FairSpec`: a run that can take its next step takes
it (it is straight-line code with time-outs on its calls); passes of the
service go on and start again, because a systemd timer restarts the script; and
from some moment on no pass is killed and its reads and writes succeed. Without
the last, nothing could ever be learnt about an order. Of the broker it is
assumed that it publishes what it has executed, and nothing else; nothing is
assumed of the tick, the operator or the calendar. `SingleRunLock.FairSpec`:
a process that can take its next step takes it (the lock loop polls), and from
some moment on nothing dies, times out or fails to read the path. A failing
unlink stays possible. `S6Exit.FairSpec`: cron starts ticks and a tick goes on to
its end; ticks in which the broker's reads succeed come again and again; fills
are published, day orders leave the book, time passes. `S6Entry.FairSpec`: workers
and ticks go on; a tick gets the lock again and again, as cron starts one every
minute and nobody keeps it; adoption's reads and writes succeed again and again;
reconciliation goes on and fills are published. Nothing makes a worker start, or
an order fill. `PositionLifecycle.FairSpec`: every tick goes on and starts again;
of the lookups, some succeeds again and again; what executed is published. Nothing
makes a particular tick's lookup succeed, or keeps the day from ending.
`KisAccess` assumes no fairness: who keeps others waiting is said of the steps of
the clock.
Deadlock is checked in every run whose cfg does not say otherwise.

**Mutants.** For each property of a passing run, `PROJECT.json` names a variant
of one definition, marked `Variant:` in the module, that breaks it: a key that
is not compared, HALT not asked, a cancel without the lock, a cancel in flight
settled like a live order, a lost answer taken for a refusal or for an acceptance, a fill window of
today only, the open-order list as the only evidence, the questions in another
order, a flock taken for ownership, an unlocked unlink, an update without its
WHERE, a gate without its UNKNOWN check or with one read of the position instead
of two, a cancel taken for done, a cancelled buy that gives its place in the day
back, a fill added to what is booked, the booked quantity as it was when the intent
was found, a slot handed out before the sync, and so on.

## 4. Proofs

`OrderLifecycleProofs` proves, for any orders, runs, services, ticks and
bounds, from `IntentAssumption`, `ProcessAssumption` and the ledger's
assumptions on its constants: `TypeCorrect`, `OneOrder`, `InFlight`,
`UnknownBlocks`, `HaltStops` and `TerminalIsTrue`. None of these properties is
inductive. Their common strengthening, `IInv`, adds in turn

* `LockOwner`: who is past `idle` owns the lock. Exclusion of the other runs
  follows, and with it every claim about a past read of a run;
* `Holding`: at each `pc` what the held row says, and that the ledger still has
  that row unless reconciliation may move it there. It is what makes
  `InFlightIsOwned` inductive: the rows reconciliation may move are those with
  ACCEPTED, PARTIALLY_FILLED and UNKNOWN, and a run holds none of these;
* `RequestOnce`, `SignalKey`: a request has left at most once, only for a row that
  went through SUBMITTING, and a run before the wire (`BeforeWire`) has an order with
  a row of today that never left; two registered rows of a day differ in their signal;
* `HaltHistory`: after HALT one request at most has left, and none while a run
  that has passed the gate is still short of the wire;
* `UnknownSeen`: what is UNKNOWN now was UNKNOWN when the run's snapshot was
  judged, since only a lock holder makes a row UNKNOWN;
* `KisTruth`, `FillsReported`, `OpenReported`, `RunKnows`, `TerminalRows`,
  `SettlesLive`: what a pass or a run has read of the broker is still a lower bound
  of the truth (fills only grow, and what was seen open has been at the broker ever
  since), an answer that was received is true, and rows that ended did so on such
  evidence.

The proof that a step preserves `IInv` has a lemma per action and a case per
conjunct it can disturb; the broker's and the calendar's steps are lemmas of
their own.

`PromiseKept` is the refinement of `OrderPromise`, proved from `IInv`: the first states
map to each other (`PromiseInit`), and every step maps to a step of the promise or is not
seen (`PromiseStep`). Three kinds of step need the invariant. A row that moves
(`ClaimStep`): the move is legal, so its claim may follow (`MovesFollow`), and the
evidence for it is true now, although it was read earlier, by a run (`EngineEvidence`:
`RunKnows`), by a pass (`PassEvidence`: `FillsReported`, `OpenReported`) or by the exit
ledger (`SettleKept`). A request that leaves (`SendKept`): what the gate, the snapshot
and the registration established one after the other holds together at the moment of
the request (`RequestOnce`, `SignalKey`, `UnknownSeen`, `HaltHistory`). And a registration,
which is not seen, because nothing can have left for its order (`RegistrationUnseen`).
This is more than the five invariants together: `TerminalTruth` says what an ended row
is worth, the promise also what ACCEPTED, PARTIALLY_FILLED and CANCEL_PENDING are, and
that no claim is ever taken back.

`SingleRunLockProofs` proves, for any processes and inodes, `PathIsOwned` and
`OneInside` from an invariant that says whose flock is on which inode at each
step, and that a file with an owner inside keeps its name; and `Refinement`:
initial states map to initial states, `Check` that succeeds maps to `Acquire`,
`Leave` or a crash inside maps to `Release`, and everything else stutters.

`OrphanReleaseProofs` proves the properties of the `submissions` run with the
operator's command beside the runs, for any orders and runs: `EarlierOrders`,
`ReleaseOneOrder`, `ReleaseHaltStops`, `ReleaseUnknownBlocks` and
`ReleaseTypeCorrect`. `Holding` is not kept: the command takes no lock and may end a
row behind the run that holds it. `ReleaseInv` shows the same from less: `RequestOnce`
says nothing of what the row of a run says by now, only that it is of today and never
left, so that neither key nor request is used twice.
`AskedSoFar` adds what each of the command's questions was told: an order that had
reached the broker before the command can only go from the open orders to the fills
or lapse, and the open orders are asked first. What it may have run unseen is then
what the broker had executed and not published as the fills were asked, and no more:
an order no longer in the book runs no further.

`LedgerTransactionProofs` proves `NoLostUpdate`, `HistoryIsComplete`,
`LockIsReturned` and `CommitAlone` from an invariant that relates the two tables
as each connection sees them to the committed ones: at most one connection
writes, and what it will commit is the committed state and one move with its
event, or what others left open on it. `Refinement` follows: `Load` maps to `Ask`,
`Commit` to `Move` (its held version is still the row's, since `Update` saw it under
the write lock), `Reread` to `Answer`, the ends of a failed call and a restart in
one to `Raise`, the commits of registrations to `Create`, all else to a stutter.

`S6ExitProofs` proves, for any number of shares, SELL orders, position rows and
deaths of the tick, `TypeCorrect`, `OneSell`, `NeverOversold` and
`ReleasedIsSafe`. The argument: three stores and the broker say different things
of the same SELL, and at no moment do all of them forget it.

* `HeldBack`: a request that may still arrive is UNKNOWN in the order ledger, or
  its intent is still RESERVED. `Reserving` and `Naming` add that a reservation
  belongs to the current row and is its newest intent, so that nothing else is
  reserved beside it; `Numbering` adds that whoever has a number has reached the
  broker, so that reconciliation cannot clear an UNKNOWN request on its way;
* `ReadsHold`: hence, if the adapter finds no open order (`EmptyBook`), either
  nothing works or an order is UNKNOWN without a number, which the gate refuses.
  If nothing works, the broker's position cannot move between the snapshot and
  the request, and the quantity the gate compared with two reads is still held;
* `Exiting`: while an exit is submitted only its own SELL may work. That SELL is
  SUBMITTED under a number, hence the one `_order_id_for` finds (`OwnSell`), and
  `SweepHolds` says that what the sweep did not list, of an age at which a listing is
  complete, has not come back: so a release finds nothing at work;
* `Shareholding`, `RowStatus`, `Adopting`, `Continuing`, `Submitting`, `Releasing`:
  what the row, the names and the local variables of the tick are at each stage.

A lemma per action shows that the stores' part (`StoreInv`) and the tick's part
(`TickInv`) are kept. The steps that only move the tick on, the market's steps and
the steps that end an intent share a lemma each.

`KisAccessProofs` proves, for any processes, intervals, faults and clock,
`TypeCorrect` and `SlotsSpaced`. `Mine` says what a process has at each step: between
scan and unlock it holds the flock (`Locked`), what it paces for and which slots it
has (`Path`), and that the slot it is writing lies an interval after the file's last
slot, and, once the file shows it, after the disk's (`Writing`). That is what makes
the slots every process and every past request hold known to the disk and clear of
each other: a power loss may take back the file, but only a slot nobody has been
given yet.

Two more invariants rest on it. `TimeInv` gives `TokensPaced` and `NobodyStarves`: a
slot that was handed out is not over before it is used (`Timed`), a process has at
most one ahead of it (`Past`), a token is asked for exactly at its slot (`AtSlot`),
and who has the lock while time passes sends the alert of its own failed call, or
has failed to give the lock back (`Holds`). `Blameless` adds that there is nobody of
that kind before the first failure: until then every temporary file is one that is
being written, so that no scan meets one of a living process, and whoever got the lock
gives it back.
`QueueInv` gives `QueueBelieved`: the slots ahead of the clock up to the file's last
are a chain, one interval apart (`Chain`), each held by a process or lost (`Lost`), a
failure loses at most one of every process, and what the disk has is on the chain
(`InChain`), so that a power loss lengthens nothing. The clock's guard is written out
for this: `Waits` lists where a process stands still, instead of `~ENABLED`, which the
provers do not know. `QueueInv` counts the processes, hence `ProcsAreFinite`.

`PositionLifecycleProofs` proves, for any number of ticks, shares, exits and
deaths, `TypeCorrect`, `WorkingOwned`, `ReservedHeld`, `ClosesSold` and
`FillsBooked`. The ticks beside each other are covered here for any number. An intent
that has ended may come back, so the invariant cannot say of a terminal state that it
stays. It leans on the confirmed count instead, which no mark writes:

* `IntentOK`: how far an intent, its SELL and its number have come; nothing is
  confirmed before it is published or published before it is filled; an intent with
  shares that are not booked (`Unbooked`) is of the kind the row says it is, and the
  row of a full one that is booked is CLOSED;
* `Book`: what the row claims is what the broker holds, but for the fills of the one
  intent that is not booked (`OneUnbooked`); hence an exit never asks for more than is
  held, and a full one leaves nothing behind. An intent that a late mark brought back
  is booked, so it has nothing left to sell and takes nothing from the row again;
* `TickOK` and `OneSubmits`: an intent whose request has no answer yet belongs to one
  tick, is active and has no number, so that no other tick can find its order or
  end it. What a tick read before its commit is a lower bound of what is true at it.

A lemma per action; `KeepsOthers` is what the step of one tick must leave alone for
the invariant of the others. Only a booking closes a position (`OnlyBookingCloses`).
A tick that decided on a full exit may find and book the partial one of another, and
while the row says PARTIAL_EXIT_SUBMITTED it is only the transition table that refuses
the end it would give it; once that intent is booked and back, the table does not help,
which is the exception in `ClosesWhatIsSold` (section 5). `FillsBooked` is about a
sum over the intents, a fold the provers cannot unfold. It is proved by counting:
the units confirmed, pairs of an intent and a number, are a finite set (`Units`)
whose cardinality is what has left the row, and that the sum is this cardinality
follows from a least subset for which it is not.

`S6EntryProofs` proves, for any number of symbols, workers, shares, buys, deaths and
any limits, `TypeCorrect`, `DailyCap` and `OneBuyAtATime`. Reconciliation takes no lock
and the broker waits for nobody, so what a worker has read may be stale when it sends.
The invariant says why that does not matter:

* `BuyOK`: what is on its way or in the book is unsettled in the ledger; what has a
  number has reached the book; ACCEPTED and PARTIALLY_FILLED have a number; what was
  ever sent is not REJECTED, so the daily count contains it;
* `TickOK` and `Owner`: ticks and workers exclude each other through the lock, up to
  and not including the record of the row;
* `Passed`: once the book shows no buy of the symbol, one that comes into it later is
  the late arrival of an order without an answer, and has no number;
* `NoneHeld`: so shares that come after the positions were read are of an order that
  reconciliation cannot move either (it moves what has a number), and that is among
  the pending when the gate reads the ledger. This is what makes the order of the
  reads matter: the book before the positions, the ledger last.

`TypeCorrect` needs `Bounds` beside it: a row is written by booking, adoption and the
late worker, each from another reading, and none claims more than all buys of the
symbol can fill. `HeldIsBought` says that the broker holds no more than the buys
have executed (`Bought`), and every reading of a tick is bounded by that of its time.

Only model-checked: the six liveness properties (`FilledOrderSettles`,
`FilledUnknownResolves`, `LockIsGranted`, `SubmittedExitResolves`,
`FilledExitIsBooked`, `FilledBuyIsTracked`), as liveness under fairness is out of the
prover's reach; `EarlierBuysAreHeld`, whose proof would need the sum of the holdings
over the orders of a symbol; and the violations of section 5. Every other safety
property of the runs has a theorem.

## 5. Where comments and code disagree

Each of these is a run that TLC must find violated; `PROJECT.json` quotes the lines.

1. `unanswered`: a process that dies between the request and its answer leaves
   the row SUBMITTING without a number. No check counts it as UNKNOWN, and if the
   broker shows no trace of it yet, the next buy goes out.
2. `partial_close`: the SELL of two shares sells one. The tick subtracts the
   reported fill from the row; the next tick subtracts the same, cumulative, report
   again, finds nothing left, and closes a position the broker still holds. (The
   next flat tick adopts the share again; if the SELL still works then, the gate
   keeps a second one back until it is gone.)
3. `part_filled`: a buy fills in part after the tick looked for its fills and before
   it cancels the rest. The cancel is confirmed and the row closed as never filled;
   adoption asks for a FILLED order, so nobody manages the shares. An UNKNOWN
   cancel closes the row too, whatever the order does then.

More that the models show and no run is spent on.

*Orders and reconciliation*

* a buy that stays CANCEL_PENDING after a crash, or an exception the cancel path does
  not catch, stays so for good: no component lists that status, against
  `execution/execution_engine.py:761`;
* an unreadable ledger narrows the fill window to today, while the comment at
  `reconciliation/fill_window.py:86` promises the widest (`FillWindows`), and a row
  UNKNOWN from an earlier day lies outside the window, which counts live rows only
  (the last disjunct of `FilledUnknownResolves`);
* the tick's compare-and-set may lose to the service, and the exception leaves a
  function whose docstring says it never raises (`ResolveRaises`);
* an order that filled in part and was cancelled is CANCELLED with fills, which
  the snapshot reports as a contradiction (`OrderDisagreements`);
* when the creation event fails, `register` does not roll back, and the next
  commit on that connection, though never one that moves a row
  (`MovesCommitAlone`), publishes the row alone;
* the release command ends a row whose request is on its way to the broker
  (`OrphanRelease` without the condition `e.reached`);
* the release command can also end a row whose order was at the broker and has
  filled, as REJECTED and with the words "the transport was definitively not
  attempted" (`release_pre_transport_orphan.py:139-140`): in the minutes between the
  open-order book and the published fills (`kis_fill_inquiry.py:205-218`) a sell that
  filled in full, its process dead before the number was recorded, shows nothing in
  any of the three answers, and neither does a buy whose shares such a sell has taken
  out of the holdings. `EarlierOrdersAreSeen` says that no other shares can be missed
  and `EarlierBuysAreHeld` that a buy alone cannot. Waiting out
  `NO_FILL_CONFIRMATION_GRACE_SECONDS`, as the tick does, would close it.

*S6 entry*

* the caps (`execution/entry_limits.py:463`): an order that fills and is settled
  between the snapshot's read of the positions and the ledger read is counted
  nowhere, and with two symbols a cap is exceeded by one; lines 24-33 ("Why both")
  say that between them the two reads see everything;
* the row overstates the position when a buy fills in part, an exit sells that part,
  the rest fills and adoption writes the held quantity under the same order: the
  next sync raises it to the cumulative fill, and the sell gate refuses for ever,
  which `s6_live/exit_runtime.py:127-133` rules out. The same when the worker writes
  its row late;
* adoption's first write commits alone, so that `fill_adoption.py:196-197` ("not a
  half-written row") does not hold (`OpenFails`); a SUBMITTED row that carries the
  order of the previous one may then never open;
* `record_submission` is not "written before the broker answers"
  (`position_store.py:69-72`) but after the answer and after the lock is let go, and
  not at all when the engine raises after an acceptance;
* the brake on symbols refused today counts the refusals of the gate itself, and lets
  everything pass when it cannot read;
* `kis_fill_inquiry` measures its 900 seconds from the creation of an order, not from
  the moment it left the book, as its comment says;
* `ACTION_PARTIAL_CANCELLED` of `entry_timeout` is never reached, and
  `entry_is_blocked` is called by tests only.

*S6 exit*

* the answer to a SELL is lost: the order works under a number the intent never
  learnt, so the resolver finds no match, compares the quantity of the row with
  itself, and aborts the intent as never sent
  (`reconciliation/exit_intent_resolution.py:95`, against lines 37-39).
  `OneWorkingSell` still holds, because the order ledger has the order as UNKNOWN;
* a position can be left unable to exit: after a crash between the reservation and
  its end, after a release that did not book a partial fill, or when the
  cumulative BUY fill raises a row that was partly sold.

*Positions of the general store*

* a mark on an exit intent can bring an intent back that has ended: `_transition`
  refuses to leave a terminal state by what it read (`exit_intent_ledger.py:115-121`),
  the UPDATE that follows has no such condition, and three callers hold no lock
  (`lifecycle.py:430`, `540`, `574`). Two things follow, both reachable in the model.
  The worse one takes two ticks: the first sends a partial SELL and stops between the
  read and the write of `mark_submitted`; the second finds the SELL filled, books it and
  confirms the intent; the first writes SUBMITTED over CONFIRMED. A later full exit
  then finds an active intent, resumes on it (470-496), moves the row to EXIT_SUBMITTED,
  looks the old SELL up, finds nothing new to book, and closes the position with half of
  the shares still held, although `positions/states.py:54` says that CLOSED asserts that
  this system sold. `ClosesWhatIsSold` says that this is the only way to close unsold. The
  milder one: after a full exit the intent of a CLOSED position may stay active for
  ever, which is why `FilledExitIsBooked` promises the booking and not a CONFIRMED
  intent. A row closed too early is not read again, and with a third process that ticks
  it could even be closed while another exit works; the theorems hold for any number
  of ticks, and none of them says otherwise. An UPDATE with the state it read in its
  WHERE, as the order repository has it, would exclude all of this;
* a tick that dies between the commit that arms the stop and the one that sets its
  price leaves an eligible position without a stop, which nothing repairs; the comment
  at `kis_position_manager.py:447-448` calls that unreachable;
* `_execute_exit` reads the active intent before the lock and uses it in its resume
  branch (`positions/lifecycle.py:465-496`): if another tick confirms it in between,
  the row becomes EXIT_SUBMITTED without an active intent and stays so;
* a buy that filled in part and lapsed stays PARTIALLY_FILLED and never gets a stop;
  a crash between `create_position` and the next commit leaves a row nobody serves;
* `check_and_manage` promises the second target before the first, but a STOP_ACTIVE
  position beyond both takes the partial exit; with one share that is half of one,
  rounded down, and it never exits at a target;
* a refusal by the gate, HALT or a failed read parks the position in MANUAL_REVIEW as
  if, in the words of line 544, the broker had "explicitly rejected" it;
* the lookup of an exit reads today's fills only: a SELL that filled before midnight,
  or lapsed, leaves its row EXIT_SUBMITTED (the exception in `FilledExitIsBooked`).

*Rate limiter and token*

* slots are taken before the headers are made (`brokers/kis_broker.py:1056`), so
  that a request that waits for a token leaves later than its slot; only the slots are
  spaced, although "every read is paced";
* "the queue fair and the lock short" (`kis_rate_limiter.py:710-711`, of the
  reservation that replaced the sleep) is true of a caller that gets its slot. One whose call fails keeps
  the lock while its alert is sent (752, 774, 823, 878, 899, 913, 946, 1009, 1062, 1071,
  1103, then 527): 10 seconds if Slack does not answer, and `acquire_timeout` is 10
  seconds too, so others may give up meanwhile and alert in turn. `NobodyIsStarved` says that there is no other
  case but a lock that could not be given back;
* "ten processes racing from cold produce a single issuance" does not hold when the
  holder of the token lock waits for a slot longer than the others wait for the lock
  (`kis_token_cache.py:259`, `IssueAlone`);
* a temporary file left under the process id of a process that lives keeps everybody
  from writing the state (`kis_rate_limiter.py:831`).

## 6. Plan

Done, in this order: the ledger and the broker; the lifecycle of submission and
cancel; reconciliation and its liveness; the lock file; the transactions;
the release command; the proofs of the three core modules; the exit of S6 and its
proofs; the entry of S6; the rate limiter and the token cache and their proof; the
position lifecycle and its proofs; the proof of the entry; the proofs of the release
command, of the limiter's clock and queue, of the booking of fills, of the bounds of
an entry's rows, and of the repository as an atomic compare-and-set; the promise of
the order path and the proof that the lifecycle keeps it.

What a next step would be: the composition of `S6Exit` and `PositionLifecycle` with
`OrderLifecycle`, whose joint state space is out of reach of TLC but whose interface
(how an order's row reaches ACCEPTED, UNKNOWN or FILLED) is the same in all three; `OrderPromise` is a first form of it.

**Not modelled**, and why:

* S1's and S2's executors (`s1_live/`, `s2_live/`) repeat the shape of S6's entry and
  exit over tables of their own; S1's submission of exits and its fills are the code
  `S6Exit` and `PositionLifecycle` model. Cash pool and allocator are arithmetic on one
  read of the account.
* The two-phase intent ledger of the older loop, the paper path and the older kill
  switch: the live path does not pass them, or meets them as one more refusal.
* Live pilot, entry reservations: one process that calls what is modelled; a
  reservation is read and written under one lock.
* State store (schema, migrations), notifications, shadow audit: where their failure
  matters it is a step of the engine's model.
* Route, mode and capability checks, sessions, prices, validation of texts: refusals,
  which the models allow at any time.
* The operator's external close, dashboards, reports, scanners, scoring, watch lists,
  backtests, market data, AI analysis: they change no order and share no mutable
  state with what does, or run once by hand. They are most of the lines of the
  repository.
* SQLite's, the file system's and the kernel's own correctness; the permissions and
  owners of files.
