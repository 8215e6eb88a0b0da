# TLA+ models of taproot-assets: the database transaction executor and the polling assertions of the integration tests

This directory holds TLA+ models of the parts of `src/` that have concurrent, retrying or polling control flow. It also holds the TLC configurations that model-check them, and TLAPS proofs of the executor's safety and of its refinement of an abstract executor.

`PROJECT.json` lists the following:
- every component;
- every run;
- every mutant;
- for each TLA+ definition, the Go lines it models;
- the findings;
- the hazards;
- the proved theorems.

## 1. Inventory of the source

| Part | Source | State | Operations | Hard behaviour |
|------|--------|-------|-----------|----------------|
| Transaction executor | `tapdb/interfaces.go` | Open transaction per call, loop index, back-off, committed database state | `ExecTx` (BeginTx, body, Commit, three error paths, retry with `randRetryDelay`, `ErrRetriesExceeded`), `BaseDB.BeginTx` (serializable), option setters | Concurrent goroutines conflicting under serializable isolation; ambiguous commit failures; a rollback deferred inside the loop; back-off arithmetic (cap, `Int63n(0)`, int64 overflow) |
| SQL error classifier | `tapdb/sqlerrors.go` | none (pure) | `MapSQLError`, `parseSqliteError`, `parsePostgresError`, `IsSerializationOrDeadlockError`, `sanitizeConnectionError` | Which driver codes are retried decides whether conflicts reach the caller |
| Universe comparison helpers | `itest/assertions.go` 1621-1775, 2494-2528 | Fetched root maps, pagination offset | `AssertUniverseRootEquality(Eventually)`, `AssertUniverseStateEqual`, `AssertUniverseRootsEqual`, `AssertUniverseRootEqual`, `assetRoots` | The daemons insert concurrently with paging; Go's randomised map order; polling until equal |
| Event-stream helpers | `itest/assertions.go` 959-1145 | A subscription stream, a watchdog goroutine, the expected next state | `AssertReceiveEvents`, `AssertMintEvents`, `AssertSendEvents`, `AssertSendEventsComplete` | Two goroutines and a timer; `select` between two ready channels; a daemon that repeats, skips or stops |
| Address-event polling | `itest/assertions.go` 875-957, 1257-1287 | One poll's view of the address events | `AssertAddrEventCustomTimeout`, `AssertAddrEventByStatus`, `AssertNonInteractiveRecvComplete` | Events progressing independently between polls; `require` inside a retry closure |
| Batch-state polling | `itest/assertions.go` 433-460 | The batch's state | `WaitForBatchState` | Polling for a state the batch may pass through |
| Balance assertions | `itest/assertions.go` 2131-2435 | The options, four RPC answers | `AssertBalances` and its `BalanceOption`s | Four RPCs with different filters must agree |
| Other transfer, proof and address assertions | `itest/assertions.go` (the rest) | none of their own | RPC polling and field comparisons | Sequential; what they check belongs to code outside this repository |
| Courier and meta-reveal tests | `proof/courier_test.go`, `proof/meta_test.go` | (the code under test is not in this repository) | Local-archive shortcut and remote fallback; `MetaReveal.Validate` | Idempotent delivery; size and type boundaries |
| Tapchannel RPC | `taprpc/tapchannelrpc/tapchannel.pb.go` | generated | marshalling | none |

How the parts interact:
- Every store of the daemon runs its queries through `ExecTx`.
- `ExecTx` classifies each driver error with `MapSQLError`, and retries only what `IsSerializationOrDeadlockError` accepts.
- The integration tests drive daemons over RPC and check them with the helpers of `itest/assertions.go`. The daemons keep minting, syncing, sending and receiving while the helpers poll or read event streams. The daemons' side is not in this repository, so it is modelled from the spec as an environment (marked `spec_modelled` in `PROJECT.json`).

## 2. Modules

### `SQLErrors.tla`
The error classifier as pure operators.
- A driver error is a record `[drv, code, conn]`:
  - `drv` is the driver: sqlite, postgres, or a plain Go error;
  - `code` is the code the switch statements distinguish;
  - `conn` says whether the text matches one of `isConnectionError`'s patterns.
- The sqlite "no such table" message test is modelled as a code of its own.
- Each operator has the name of the Go function it translates.
- `parsePostgresError`'s default case wraps `sanitizeConnectionError(err)`, so a postgres connection error that matches no code is still a connection error to `errors.As`.
- The postgres codes are modelled in full even though the executor runs use sqlite: the classifier is a pure function, and `MapSQLError`'s result feeds `IsSerializationOrDeadlockError` for either backend.

### `TxExecutor.tla`
`ExecTx` as one process per member of `Clients`. Each client is one goroutine inside one `ExecTx` call.
- **Variables:**
  - `pc`: where the call is in the loop body;
  - `attempt`: the loop index `i`;
  - `openTx`: transactions begun and neither committed nor rolled back;
  - `snap`: the snapshot the call's transaction read;
  - `result`: what `ExecTx` returned;
  - `committed`: how often the body was committed;
  - `dbVal`: the database counter every body increments;
  - `delay`: the last back-off slept.
- **Actions:** one per branch of the loop.
  - `RetriesExceeded`: the loop condition fails.
  - `BeginTx` and `BeginTxFail`: lines 248-260.
  - `RunBody` and `BodyFail`: lines 268-280.
  - `Commit` and `CommitFail`: lines 283-299.
- **Error path (`Fail`):** this is `dbErr := MapSQLError(err); if IsSerializationOrDeadlockError(dbErr) {rollback; waitBeforeRetry(i); continue}; return dbErr`.
  - On return, the deferred rollback closes the transaction (`Return`).
  - On retry, the explicit `Rollback` closes it.
  - `WaitBeforeRetry` chooses `randRetryDelay(i, r)` for every outcome `r` of `prand.Int63n`.
  - When `initialRetryDelay = 0`, `Int63n(0)` panics, and the call ends with result `"panic"`.
- **Back-off arithmetic:** `time.Duration` is an int64. `DurationMul` multiplies with wrap-around at `DurationBits` bits, and `MaxExponent` is the 32 of `math.Min(attempt, 32)`. The runs scale both down together, keeping the overflow threshold `initialDelay >= 2^(bits-1-limit)` that the real values have at 64 and 32.
- **Database model:** serializable and first-committer-wins.
  - A transaction whose snapshot is stale fails its body or commit with the backend's serialization error (`ConflictError`).
  - The environment may also raise any error of `InjectedErrors` at any of the three calls.
  - A commit that fails with a plain (connection) error may have been applied (`CommitApplied`).

### `ExecTxAbstract.tla`
What `ExecTx` promises its callers, with the loop, the back-off and the rollbacks abstracted away. Each call returns once, in one atomic step, in one of three ways:
- it commits its increment and returns nil (`CommitBody`);
- it commits nothing and returns a non-retryable error (`ReturnError`);
- it commits and still returns a connection or unknown error (`ReturnAmbiguous`).

`TxExecutor` instantiates it as `Abs` with the refinement mapping `status[c] = "done"` iff `pc[c] = "done"`; `result`, `committed` and `dbVal` map to themselves. The property `ImplementsAbstract == Abs!Spec` is checked by TLC, liveness included.

### `UniverseRoots.tla`
Two universes, `"A"` and `"B"`, each map universe IDs to a set of leaves.
- **Actors:**
  - A minter adds leaves to A (`Mint`).
  - A syncer copies A's leaves to B (`SyncLeaf`).
  - One comparer runs the helper `helper`, chosen at the start from the constant `Helpers`:
    - `"StateEqual"`: `AssertUniverseStateEqual`, which pages through each side with `assetRoots` (`FetchPage`, `EndOfSide`) and compares once (`CompareOnce`);
    - `"RootEquality"`: `AssertUniverseRootEquality`, one unlimited `AssetRoots` call per side (`FetchAll`) and one comparison (`CompareOnce`). Its `require.Equal` against `expectedEquality` ends the helper whatever the verdict, so the expected value is not modelled: the verdict is recorded in `verdict`;
    - `"RootEqualityEventually"`: one unlimited `AssetRoots` call per side (`FetchAll`), with a new poll after every mismatch (`StartPoll`, `Compare`).
- **Spec-modelled parts:** the universe server is not in this repository, so these are marked `spec_modelled`:
  - `AssetRoots(offset, limit)` returns the tracked IDs ranked offset+1 .. offset+limit in ID order, and `DefaultLimit` of them when no limit is given;
  - the root of an ID is `[id, hash, sum]`, where the hash is collision-free (the leaf set itself) and the sum is the sum of the leaves' amounts.
- **`AssertUniverseRootsEqual`:** returns the set of verdicts it can give. The loop at 1749-1761 returns after the first key of a random map iteration, so every key can be the one compared.

### `EventStream.tla`
The event-stream helpers. The call under test (`call`) is chosen at the start from the constant `Calls`, a set of records `[helper, from, to, final, targetKey, maxEvents]`. `ReceiveEventsCall`, `MintEventsCall` and `SendEventsCompleteCall` are the records the fixed-range helpers pass: `statusDetected` (1) to `statusCompleted` (4), `batchFrozen` (2) to `batchFinalized` (6), and `SendStateWaitTxConf` to `SendStateComplete` (the last two of the send states, numbered 0..3 here).
- **Test goroutine:** `RecvEvent` runs the loop body on the next event: `ReceiveStep` for receive and mint events, and `SendStep` for send events, with the script-key filter that applies only when a target key is given. `RecvError` is `stream.Recv()` on a cancelled stream.
- **Watchdog goroutine:** `TimerFires` is `time.After` delivering. `Watchdog` is the `select`: `WatchdogTimeout` cancels the stream, and `WatchdogSuccess` exits when `success` is closed. When both channels are ready, both actions are enabled, as in Go's random choice.
- **Daemon (spec-modelled):** `Emit` sends an event for its current or next state, with or without an error, for the awaited key or another one, at most `maxEvents` times, and may stop at any point.
- The ghost `got` records every event received, for `VerdictSound`.

### `EventStreamAbstract.tla`
What an event-stream helper promises its caller, with the channel, the watchdog and the per-event checks abstracted away. The daemon's progress `dst` moves up one state at a time to the final state `top`. The helper (`mpc`) either returns (`Succeed`), which it may do only on an open stream once `dst` has reached the awaited state `target`, cancelling the stream when `target = top`, or fails (`Fail`). The stream may be cancelled at any time (`Cancel`). `target` and `top` are variables that no action changes, because in `EventStream` they are `call.to` and `call.final` of the call chosen in `Init`. `EventStream` maps onto it by `target <- To, top <- Final`, and the other variables by name.

### `AddrEvents.tla`
The address-event polling helpers, one chosen by the constant `Helper`. The daemon (spec-modelled) detects each transfer (`Detect`) and moves it through detected, confirmed, proof received and completed (`Advance`), each transfer on its own. `Detected` is the set of transfers detected before the helper is called.
- `Poll`: a closure that returns nil ends `wait.NoError`; one that returns an error is retried, so it changes nothing.
- `PollFail`: `require.Len` inside `AssertNonInteractiveRecvComplete`'s closure fails the test at once.
- `Timeout`: `wait.NoError` expires.
- The ghost `seen` holds the statuses of the successful poll.

### `BatchWait.tla`
`WaitForBatchState`. The planter (spec-modelled) moves the batch through `NumStates` states (`Advance`). The helper polls for one target state (`Poll`, through `BatchOk`) until its timeout (`Timeout`). The target is chosen at the start from every state.

### `Balances.tla`
`AssertBalances` as a pure function of one wallet state, evaluated in every state the wallet can reach.
- The wallet (spec-modelled) is a partial function from slots to outputs `[id, key, amt, leased, anchor]`. `CreateOutput`, `LeaseOutput` and `SpendOutput` change it.
- `Filters` is every combination of the `BalanceOption`s except the counts, and `Config` adds the grouped balance and the counts.
- The server-side filters are spec-modelled: which key types a `ScriptKeyTypeQuery` lists (`TypeListed`), and that `ListBalances` drops burns and tombstones (`BalanceSlots`).
- The helper side translates the code: `rpcTypeQuery`, `checkBalance`, `AssetMatches`, `BalancesChecked`, `ListAssetsChecked` and `ListUtxosChecked`.
- `RefSlots`, `RefBalance`, `RefGroupedBalance` and `RefAnchors` are the reference: what a test means by the balance of its options.

### MC modules and configurations
- `MCTxExecutor.tla`, `MCUniverseRoots.tla` and `MCBalances.tla` supply model values and small functions for the constants.
- `MCEventStreams.tla` supplies the sets of calls (`MCCalls`, `MCHandoffCalls`).

## 3. Runs

| Run | Config | Result | What it shows |
|-----|--------|--------|---------------|
| `tx_executor` | `MCTxExecutor.cfg` | pass, 2181 states | With 2 goroutines, 3 retries, sqlite, BUSY/LOCKED/UNIQUE and connection errors, commits match results, no transaction leaks, every call returns, and `ExecTx` implements `ExecTxAbstract` |
| `tx_first_delay` | `MCTxExecutorFirstDelay.cfg` | violation of `DelayCapped` | `initialRetryDelay = 8 > maxRetryDelay = 6`: the first back-off is 4..11, uncapped |
| `tx_delay_overflow` | `MCTxExecutorOverflow.cfg` | violation of `NoShortBackoff` | At 8 bits with the exponent limited to 3, `16 * 2^3` wraps to a negative delay that passes the cap |
| `universe` | `MCUniverseRoots.cfg` | pass, 115724 states | The three universe helpers: no false mismatch, pagination misses no tracked ID, all return |
| `universe_early_return` | `MCUniverseEarlyReturn.cfg` | violation of `VerdictSound` | `AssertUniverseRootsEqual` reports equality of maps whose roots differ |
| `event_streams` | `MCEventStreams.cfg` | pass, 915135 states | `AssertReceiveEvents` (states 1..4), `AssertMintEvents` (2..6), `AssertSendEventsComplete` (2..3 of 3, no target key) and `AssertSendEvents` stopping at 1 of 3 for a target key, against a faulty daemon: verdicts are sound, both goroutines finish, and each helper implements `EventStreamAbstract` |
| `event_send_handoff` | `MCEventSendHandoff.cfg` | violation of `StreamStateOnReturn` | `AssertSendEvents` returning before the final state: the watchdog can still cancel the caller's stream |
| `balances` | `MCBalances.cfg` | pass, 2401 states | Without `WithAllScriptKeyTypes`, `AssertBalances` passes exactly for the true balance and counts, in every wallet of up to two outputs, zero-amount tombstones included |
| `balances_all_types` | `MCBalancesAllTypes.cfg` | violation of `NoFalseFailure` | With `WithAllScriptKeyTypes` and a burn output, no balance passes |
| `batch_wait` | `MCBatchWait.cfg` | pass, 105 states | `WaitForBatchState` for the final state returns |
| `addr_recv_complete` | `MCAddrRecvComplete.cfg` | pass, 301 states | `AssertNonInteractiveRecvComplete` for 3 transfers accepts only a response with every transfer completed, and always returns or fails |
| `addr_event_first_only` | `MCAddrEventFirstOnly.cfg` | violation of `PollSound` | `AssertAddrEventCustomTimeout` succeeds with only the first event in the awaited status |

### Properties

**TxExecutor**
- `CommitMatchesResult`:
  - every call's body is committed at most once, whatever retries happen;
  - nil implies it was committed;
  - a committed body with a non-nil result is only possible with an unclassified (connection or unknown) error.

  It is violated if a retry path forgets that a commit happened, or returns a serialization error after an applied commit.
- `NoLeakedTx`: a call holds at most one open transaction, and none when it is between iterations or has returned. This is the explicit rollbacks of the retry paths.
- `DelayCapped`: every back-off is at most `maxRetryDelay`. It is checked only in `tx_first_delay`, where it fails.
- `NoShortBackoff`: no back-off after the first is shorter than half the initial delay (or the cap). It fails in `tx_delay_overflow`.
- `Termination` (liveness): every call eventually returns.
- `ImplementsAbstract`: the refinement of `ExecTxAbstract`, liveness included.

**UniverseRoots**
- `FetchComplete`: a completed fetch of a side contains every ID that side tracked when the fetch began. Inserting an ID only moves later IDs to later ranks, so pages repeat IDs and never skip one.
- `NoFalseMismatch`: a mismatch verdict means the maps really differ.
- `VerdictSound`: an equality verdict means the maps are equal. It is violated; this is a finding.
- `EventuallyEqual` (liveness): every helper eventually returns.

**EventStream**
- `VerdictSound`: a helper that returns has received exactly the events `from`..`to` in order, for the awaited key and without an error. Without a target key, any key is accepted, as the code does.
- `StreamStateOnReturn`: once both goroutines are done after a successful return, the stream is cancelled if the helper read the final state, and open otherwise, for the caller to go on reading. It is checked only in `event_send_handoff`, where it fails.
- `HelperFinishes` (liveness): the test goroutine and the watchdog always finish, even when the daemon stops emitting.
- `ImplementsAbstract`: the refinement of `EventStreamAbstract`. A helper returns only on an open stream, once the daemon has emitted the awaited state, and it cancels the stream when that state is the final one. The `event_streams` run includes a call that returns before the final state, so the property tells "cancel on return" from "cancel at the final state": a helper that cancelled whenever it returned would break it.

**AddrEvents**
- `PollSound`: a successful poll saw exactly `NumEvents` events in the awaited status. It is checked only in `addr_event_first_only`, where it fails.
- `RecvCompleteReturns` (liveness): `AssertNonInteractiveRecvComplete` never polls forever.

**BatchWait**
- `WaitFinalReturns` (liveness): waiting for the final state returns. A transient state can be polled past; only the final one is certain to be seen.

**Balances**
- `NoFalseFailure`: for every option combination, and with or without the grouped balance and the counts, the true values pass all four checks.
- `NoFalsePass`: no other balance passes.

Every property of a passing run has a mutant in `PROJECT.json` that TLC finds breaking it. For example:
- a commit that loops instead of returning breaks `CommitMatchesResult`;
- a missing rollback breaks `NoLeakedTx`;
- a page loop that advances the offset by one page too far breaks `FetchComplete`;
- a loop body that ignores the event's error field breaks `VerdictSound`;
- a watchdog without its timeout case breaks `HelperFinishes`;
- a helper that cancels the stream whenever it returns breaks the event-stream `ImplementsAbstract`;
- a balance check kept for burn queries breaks `NoFalseFailure`.

### Bounds
- **TxExecutor:** 2 clients are enough for a conflict, and 3 retries let a call fail twice and still commit. A delay of 2 and a cap of 6 make the doubling reach the cap at the third attempt. The overflow run uses one client and 8-bit durations, so the fourth attempt wraps.
- **UniverseRoots:** 2 IDs and 2 leaf keys with amounts 1000 and 1:
  - two IDs make the map order matter (the early return);
  - two keys let the minter and the syncer be one leaf apart;
  - page size 1 makes pagination take several pages while inserts shift ranks.
- **EventStream:** a daemon starting just before or at `from`, and one or two more events than the helper needs, so that a repeat, a wrong key or an error can come before every expected event.
- **AddrEvents:** 3 transfers, one detected at the start, so that polls see partial progress.
- **BatchWait:** 6 states, as many as a minting batch goes through.
- **Universe default limit:** `DefaultLimit` equals the number of IDs, so the single `AssetRoots` call returns everything. Truncation by a smaller default limit is not exercised by any run (hazard H13 in `PROJECT.json`).
- **Balances:** two assets (one grouped), a BIP-86 and a burn key, two anchors, two output slots and amounts 0, 1 and 2 (a zero amount is a tombstone). The properties quantify over every option combination in every reachable wallet.

### Fairness
- **TxExecutor:** every goroutine is weakly fair (`WF_vars(Client(c))`). The Go scheduler runs a runnable goroutine, and each database call returns with a result or an error.
- **UniverseRoots:**
  - The comparer and each `SyncLeaf` are weakly fair: the test goroutine and the universe syncer keep running.
  - The minter is not fair: issuance is up to the user.
  - The wait timeout of `wait.NoError` is not modelled. `EventuallyEqual` says the helper would succeed without it.
- **EventStream:** the test goroutine, the watchdog and the timer are weakly fair. The daemon is not: it may stop at any point.
- **AddrEvents and BatchWait:** the daemon or planter and the poll are weakly fair; the timeout is not assumed to expire.

## 4. Proofs

Four modules hold the proofs. Each one EXTENDS the module it is about and TLAPS. Every theorem follows the same pattern: an inductive invariant holds initially (`Init*`), is preserved by every step (`*Step`, one case per action), and implies the property. `tlapm` checks every proof to the last leaf.

### `TxExecutorProofs.tla`

TLAPS proves these theorems for every set of clients, every retry count and delays, every backend and every set of injected driver errors (`ExecutorAssumption`):
- `TypeCorrect`: `Spec => []TypeOK`;
- `CommitSafety`: `Spec => []CommitMatchesResult`;
- `NoLeakedTxSafety`: `Spec => []NoLeakedTx`;
- `Refinement`: `Spec => Abs!SafetySpec`, the safety part of `ExecTxAbstract`.

They all rest on the inductive invariant `TxInv`. None of the properties is inductive alone, for three reasons:
- `openTx[c] - 1` stays a natural number only because a call in its body or commit step holds exactly one transaction. `TxInv` states `openTx[c] = 1` exactly at `pc[c] \in {body, commit}`.
- `attempt[c] + 1` stays within `0..NumRetries` only because a transaction is begun with `attempt[c] < NumRetries`.
- `CommitMatchesResult` needs the fact that a call commits nothing before it returns, which includes a commit that failed ambiguously.

The supporting lemmas:
- the classifier's range (`MapSQLErrorType`);
- plain errors are never retried (`PlainNotRetried`);
- the back-off lies in the finite set `Delays` (`RetryDelayInDelays`);
- `FailInv`: the shared error path preserves `TxInv` in its retry, panic and return cases.

`TxInvStep` has one step per action.

The refinement proof:
- Initial states map to `Abs!Init`.
- `StepRefines` shows that every step under `TxInv` maps to an abstract step or a stutter:
  - a begin, a body step or a retry changes none of the mapped variables;
  - a successful commit is `CommitBody`;
  - an applied failed commit is `ReturnAmbiguous`;
  - every other return is `ReturnError` (`FailRefines`).

The back-off is typed by the set `Delays` of `randRetryDelay` values rather than by `Nat`. The reason is that `2^a` with a symbolic exponent is beyond the SMT backend.

### `EventStreamProofs.tla`

These theorems hold for every set of helper calls and every behaviour of the daemon that emits the events (`StreamAssumption`):
- `TypeCorrect`: `Spec => []TypeOK`, the typing the other proofs rest on;
- `VerdictSoundness`: `Spec => []VerdictSound`;

`VerdictSound` says nothing while the loop runs, so it is not inductive. `StreamInv` adds what the loop's next step relies on:
- every event received so far was accepted, in order (`Accepted`);
- the count of received events matches `expected`;
- `expected` reaches `To` when the helper returns.

- `Refinement`: `Spec => Abs!Spec`, with `Abs` the instance of `EventStreamAbstract` under `target <- To, top <- Final`.

The refinement needs one more invariant, `ChanBelow`: every event waiting in the channel carries a state the daemon has already reached (`st <= dst`). When the loop accepts the event for `To`, `Succeed` requires `dst >= target` of the abstract spec, and the event in hand says nothing about `dst` without it. It holds because `Emit` sends only the current or the next state, and `dst` never goes down. `StepRefinesStream` then maps each step:
- `Emit` advancing the daemon is `Progress`, and repeating a state is a stutter;
- an accepted event below `To` is a stutter, the one for `To` is `Succeed` (`RecvEventRefines`), and a rejected one is `Fail`;
- `RecvError` is `Fail`, and `WatchdogTimeout` is `Cancel`;
- the timer, `WatchdogSuccess` and the helper's exit change no mapped variable.

### `UniverseRootsProofs.tla`

- `FetchCompleteness`: `Spec => []FetchComplete`, under `FetchAssumption`:
  - the page size is positive. With size 0 the loop never advances; this is a hazard in PROJECT.json.
  - for `RootEquality` and `RootEqualityEventually`, which fetch once without paging, the universe holds at most `DefaultLimit` IDs. With more, the server's default limit truncates the answer and roots are missed.
- `NoFalseMismatchSafety`: `Spec => []NoFalseMismatch`, with no assumption.

`FetchComplete` is about the end of a scan. Offset paging loses nothing while the daemon inserts, but the reason is a fact about the middle of the scan. `ScanSound` states it: every ID tracked at the start of the scan is already merged, or its rank in ID order is beyond the current offset. Inserts only raise ranks, because `Mint` and `SyncLeaf` only add leaves (`GrowStep`). The end of a scan, a page shorter than the page size, leaves no tracked ID beyond the offset.

The argument rests on lemmas about `CountUpTo`, the rank of an ID within a finite set of naturals:
- its bounds (`CountBounds`);
- monotonicity (`CountMonotone`);
- injectivity (`CountInjective`);
- contiguity (`CountContiguous`). The ranks of a set of size N are exactly 1..N, proved with `FS_Injection` from FiniteSetTheorems.

`CompareInv` adds to `NoFalseMismatch` that the roots are not fetched again after a comparison.

### `BalancesProofs.tla`

These theorems hold for every set of asset IDs, groups, script keys, anchors, amounts and slots allowed by `BalancesAssumption`:
- `NoFalseFailureSafety`: `Spec => []NoFalseFailure`, under `~AllTypesOption`. With `WithAllScriptKeyTypes()` the property is false, and the `balances_all_types` run and its finding show why.
- `NoFalsePassSafety`: `Spec => []NoFalsePass`.

The invariant is `WInv`: the wallet is a function from a subset of `Slots` to `Outputs`.

The two balance properties hold in every such wallet, so the temporal part of each proof is only `WInv`. The per-wallet lemmas compare the four RPCs' selections with the reference selection `RefSlots`:
- `ListedIsRef`: the server's key-type and lease filter equals `RefSlots` without the client-side filters.
- `CountedIsRef`: the ListAssets and ListUtxos loops count exactly `RefSlots`. The client's "has a group" test is implied by the group key, because `NoGroup \notin Groups`, an assumption added to `BalancesAssumption` for this proof. The model uses the marker `"none"` for an asset without a group, and no group key is that marker.
- `BalanceSlotsIsRef`: when the ListBalances checks run, its burn and tombstone drop removes nothing from the selection.
- `AnchorsIsRef`: ListUtxos counts the anchors of the selection without the client-side filters.

The sums are never computed in these proofs. `balanceSum` is applied to equal sets, so the results are equal, and `MapThenSumSet` is not unfolded.

### Only model-checked

- liveness (`Termination`, `EventuallyEqual`, `HelperFinishes`, `RecvCompleteReturns`, `WaitFinalReturns`, and the fairness part of TxExecutor's `ImplementsAbstract`): TLAPS does not check liveness under fairness here;
- `DelayCapped` and `NoShortBackoff`, which are false in general: the findings. Even the instances where they hold are out of reach: they are about `2^attempt`, and the provers establish neither `2^n \in Nat` nor `2^(n+1) = 2 * 2^n` for a symbolic `n`;
- `TypeOK` of `UniverseRoots`. It types the root sums as naturals. `MapThenSumSet` is a fold defined by a recursive function, so its type needs an induction over the set, and the provers cannot instantiate the induction theorems;

## 5. Findings

1. **`randRetryDelay` does not cap the first delay** (`interfaces.go:155`, spec/code divergence).
   - The comment says the delay is "capped at a max value".
   - Attempt 0 returns before the cap, so a `WithTxRetryDelay` larger than the maximum sleeps up to 1.5x the initial delay.
2. **The exponent limit does not prevent overflow** (`interfaces.go:165`, spec/code divergence).
   - The comment says limiting the power to 32 avoids overflows.
   - `initialDelay * 2^32` overflows int64 nanoseconds once `initialDelay` exceeds about 2.15 s. The negative product passes the cap, and the back-off is skipped. The default 10 retries never reach this.
3. **`AssertUniverseRootsEqual` compares only one root** (`assertions.go:1760`, code bug).
   - The `return` inside the `for` loop ends the comparison after the first key of a random map iteration.
   - Universes that track the same IDs with different roots for another ID pass `AssertUniverseStateEqual`, `AssertUniverseRootEquality` and `AssertUniverseRootEqualityEventually`, depending on the iteration order.
4. **`AssertSendEvents`'s watchdog can cancel the caller's stream** (`assertions.go:1065`, code bug).
   - When the helper returns before the final state, the `success` channel is closed, but if the timer has also fired, Go may pick the timeout case.
   - The stream the caller keeps reading (as `AssertSendEventsComplete` does) is cancelled, and its next `Recv` fails.
5. **`AssertAddrEventCustomTimeout` checks only the first event** (`assertions.go:909`, code bug). With several events, it succeeds while later ones are still in an earlier status.
6. **`WithAllScriptKeyTypes` and a burn output make `AssertBalances` unsatisfiable** (`assertions.go:2272`, spec/code divergence).
   - The `ListBalances` check is skipped for explicit burn and tombstone queries, because the balance never contains spent assets.
   - With all key types, `ListAssets` and `ListUtxos` count the burn, but `ListBalances` does not, and its check is kept. No expected balance passes.

## 6. Not modelled, and the plan

Not modelled:
- **Error wording, logging and the option setters:** the setters only set constants of the model.
- **The `Backend()` accessor:** it reads a field and changes no state.
- **Context cancellation during `time.Sleep`:** a hazard.
- **`WithTxRetryDelay(0)`:** the model has the `Int63n(0)` panic path, but no run checks it. Nothing in the repository calls `WithTxRetryDelay`.
- **The rest of `itest/assertions.go`:**
  - the transfer, proof and tombstone assertions;
  - `AssertUniverseRoot`, `AssertUniverseLeavesEqual`, `AssertUniverseKeysEqual` and `AssertUniverseStats`.
- **The courier and meta-reveal code:** only their tests are in this repository.
- **`tapchannel.pb.go`:** generated code.

Plan for the next steps:
1. A context-cancellation action in `TxExecutor`, and a liveness refinement proof obligation left to TLC.
2. The remaining universe helpers (leaves and keys comparisons), and a refinement of the syncer to the set union it implements.
3. A spec-modelled proof courier (local-archive shortcut, remote fallback, missing outpoint) and `MetaReveal.Validate` with its boundaries, checked against their tests.
4. The transfer and tombstone assertions, as invariants of a split transfer (amount conservation, a zero-amount tombstone, a non-empty split root).
5. An abstract specification for `AssertUniverseRootEqualityEventually` (a comparison of the two universes' root maps), with `UniverseRoots` shown to implement it.
