# TLA+ models of the btp full-node service

This directory is a model-checking project for the sources under `src/`. It holds:
* the TLA+ modules, and the MC modules and TLC configurations that check them;
* `PROJECT.json`, which lists:
  * the components;
  * the runs, and a mutant for every property a passing run checks;
  * the map from every definition to the source lines it models;
  * the findings, and the hazards the properties are meant to catch.

To check one run, go to `tla/` and run `tlc -workers 2 -config <cfg> <MC module>`.

## 1. The system

`spec.md` describes a whole node client: chain store, state trie, consensus, block chain,
transaction pool, fetcher, downloader and protocol manager. Most of that code is not under
`src/`. What is there is the service layer on top of those parts, plus a few separate
packages:

| Component | Source | Module |
|---|---|---|
| Full-node service: mining control | `part_006` (backend.go), `btp/api.go` miner API | `MiningControl` |
| Full-node service: New / Start / Stop | `part_006` | `Lifecycle`, composed in `Service` |
| btpash remote-sealer RPC: `GetWork`, `SubmitWork`, `SubmitHashRate` | `Dockerfile.alltools` 42-133 | `RemoteSealer`, composed in `Service` |
| ENR "btp" entry updater, `Protocols`, `Sbtpead` | `part_006` (enr_entry.go, backend.go), `part_005` | `EnrUpdate` |
| `admin_importChain` | `btp/api.go` 191-256 | `ImportChain`, refining `ImportSpec` |
| `admin_exportChain` | `btp/api.go` 170-189 | `ExportChain` |
| `debug_storageRangeAt`, `debug_getModifiedAccountsBy*` | `btp/api.go` 351-470 | `DebugState` |
| `btpAPIBackend` lookups, `debug_dumpBlock` | `part_005` 62-107, `btp/api.go` 263-285 | `ApiBackend`, composed with `EnrUpdate` in `Backend` |
| Protocol message metering | `part_004` (metrics.go) | `Metering` |
| puppeth chain-spec converters | `part_000` | `ChainSpecConvert` |
| Contract ABI: `UnmarshalJSON`, `Pack`, `MbtpodById` | `part_001`, `accounts/abi/method.go` | `Abi` |

Some of the code these sources call is not under `src/`: the miner and its worker, the
transaction pool, `core.BlockChain`, the downloader, the clique engine and the
`protocol.go` message codes. Each such call is modelled by the effect `spec.md` or the
call site gives it, and its definition is marked `spec_modelled` in the map. Those are
63 of the map's 197 entries.

### How the parts interact

* **RPC handlers.** The handlers in `api.go` and `btpAPIBackend` call the service, the
  chain and the miner. The RPC server runs every request in its own goroutine.
* **`s.lock`.** The service guards `btperbase` and `gasPrice` with `s.lock`, but only
  around a single read or write. The calls to the pool, the miner and the engine that
  follow happen outside the lock.
* **Background goroutines.** `StartMining` launches `go s.miner.Start(eb)`. `Start` runs
  the ENR goroutine, which is fed `ChainHeadEvent`s through a channel of 10.
* **Concurrent writers to the chain.** While `ImportChain` and the debug calls read or
  extend the chain, the downloader and the miner extend it too, and the worker replaces
  its pending snapshot.
* **`Stop`.** It closes the components one after another while peers, the miner, the
  ENR goroutine and remote-sealer calls may still be running.
* **The chain head.** RPC lookups and the ENR goroutine both read the head. A block
  insertion moves it for both and sends a head event. `Sbtpead` rewinds it for both and
  sends no event.
* **The remote sealer.** `New` creates the engine before the version check, and its loop
  runs from then on. An external miner's call hands its request to the loop over an
  unbuffered channel, or returns `errbtpashStopped` once `Close` has closed `exitCh`.

## 2. Modules

The action names below are the code's names where TLA+ allows, or the name of the code
step. `PROJECT.json` "map" gives the lines of each one.

**MiningControl.** Models `StartMining`, `StopMining`, `Setbtperbase`, `btperbase()`,
`miner_setGasPrice` and `btp_coinbase`, each called by concurrent RPC callers `Clients`.
`pc[c]` is where caller `c` is in its handler.
* **State.** The service fields `btperbase`, `gasPrice` and `engine`. The btpash
  `threads`. The pool's `poolPrice`. The miner's `mining` and `minerCoinbase`. The clique
  `signer`. `acceptTxs`. The bag `startPending` of `go s.miner.Start(eb)` goroutines that
  have not run yet. Two history variables are read only by the properties: `propagated`
  records that a price reached the pool, and `explicit` holds the configured or last
  `Setbtperbase` address.
* **Steps.** There is one action per stretch of code between two lock sections or calls:
  * `StartSetThreads` → `StartCheckMining` → `StartReadPrice` → `StartSetPoolPrice` →
    `StartEtherbase` / `StartEtherbaseSet` → `StartAuthorize` → `StartSpawn`;
  * `StopSetThreads` → `StopMiner`;
  * `SetGasPriceLocked` → `SetGasPricePool`;
  * `SetEtherbaseLocked` → `SetEtherbaseMiner`;
  * `Coinbase` → `CoinbaseSet`.
* **Other actors.** The goroutine is `MinerStart`; the downloader opening the pool is
  `SyncDone`.

**Lifecycle.** Models the service across restarts and crashes. Only the database
(`dbVersion`, `storedCfg`, `chain`) survives a crash.
* **Boot and New.** `Boot` runs a binary with its own `BlockChainVersion` and
  configuration. `New` is `NewCheckVersion` (refuse a newer database, upgrade an older
  one), then `NewRewind` (`Sbtpead` to before the first incompatible fork), then
  `NewWriteConfig`.
* **Start and Stop.** `StartService` includes the light-peer error. `StopStep` executes
  `Stop` statement by statement, in the code's order.
* **Other actors.** `DeliverBlock` is a peer or the miner handing the chain a block,
  also between the steps of `Stop`. `Crash` can happen at any step.

**EnrUpdate.**
* **Steps.** `Protocols` puts `currentbtpEntry()` into the record.
  `startbtpEntryUpdate` subscribes and spawns the goroutine. `Receive` is the `newHead`
  case and `Exit` is the `sub.Err()` case.
* **Head changes.** `InsertBlock` appends a head event and waits while the channel is
  full, as `event.Feed.Send` does. `SetHead` is `Sbtpead`, which rewinds without an
  event.
* **Stop.** `Stop` ends the subscription.

**RemoteSealer.** Models the three remote-sealer RPCs, each called by `Clients` in
goroutines of their own. `pc[c]` is `"idle"`, `"send"` (the first `select`) or `"wait"`.
* **Steps.** `Begin` is the `PowMode` check and the channels the call makes. `Stopped` is
  the `case <-exitCh`. `Recv` is the wait for the answer, which has no `exitCh` case.
* **The loop.** It is not in `src/`, so it is modelled from its role. `Serve` answers a
  request in the case that receives it: `workCh` or `errc` for `GetWork`, `errc` for
  `SubmitWork`, `done` for `SubmitHashRate`. `Seal` is the miner handing it work.
  `Close` closes `exitCh`.

**Service.** Composes `Lifecycle` and `RemoteSealer` by named `INSTANCE`:
* `NewCheckVersion` also creates the engine (`CreateConsensusEngine` runs before the
  version check).
* The `"engine"` statement of `StopStep` is `Close`.
* The last statement of `Stop`, `Crash` and `Exit` end the process, and `Kill` ends the
  loop and every call with it.
* Calls start only in phase `"started"`.

**Backend.** Composes `ApiBackend` and `EnrUpdate` over one shared `head`:
* `InsertBlock` is the joint action of the two components.
* `SetHead` rewinds under in-flight lookups.
* Lookups start only while the service runs.
* `StateAt` can also fail, and then returns the header together with the error.

**ImportChain / ImportSpec.**
* **ImportChain.** Models the decode loop of `admin_importChain`:
  * `Decode` and `DecodeEOF` fill a buffer of `Batch` blocks from a file of
    `ok` / `bad` / `junk` entries;
  * `CheckBatch` drops a batch of known blocks (`hasAllBlocks`);
  * `InsertBatch` is `InsertChain`, which commits the blocks before the first invalid
    one;
  * `Sync` is the downloader extending the chain concurrently.
* **ImportSpec.** Says only what the call promises: the chain grows along the canonical
  chain, the call reports success only when every block of the file is in the chain,
  and it reports an error only when the file is broken.
* **Refinement.** `ImportChain` instantiates `ImportSpec` with the identity on `file`,
  `start` and `head`, and maps the result. It checks `Abs!Spec` as a PROPERTY.

**ExportChain.** Models the call step by step: `Open`, `WriteBlock` (Export writing one
block, or failing), `Spill` (the gzip buffer written to the file, or failing),
`ExportDone` (the return value), `CloseGzip` (the deferred flush and trailer, whose error
is dropped) and `CloseOut`.

**DebugState.**
* **storageRangeAt.** An operator over an ordered key set; `Loop` is its `for` loop. A
  client action `StorageRangeAt` pages by feeding `NextKey` back. `RangeRef` is the
  reference it is checked against.
* **Modified accounts.** `GetModifiedAccounts(byHash, x, y)` models both RPCs, which
  resolve their blocks with `ModifiedRange`. It then calls `getModifiedAccounts`, whose
  difference iterator is `DifferenceKeys`. Past the height check the call may instead
  fail, as `trie.NewSecure` does on a pruned root and the loop does on a key with no
  preimage.
* **Not modelled.** `rlp.Split`'s error in `storageRangeAt`: the values are the node's
  own RLP encodings, so it fails only on a corrupt database, and the keys, not the
  values, are what the properties compare.

**ApiBackend.** An RPC number is `rpc.BlockNumber`: -2 for pending, -1 for latest.
* **Lookups.** `HeaderByNumber` and `DumpBlock` answer in one step. `DumpBlock`'s
  `StateAt` may fail. It opens the resolved block's own root, so a head change between
  the lookup and `StateAt` can only turn into that error, and the two are one step.
  `StateAndHeaderByNumber` resolves the header, and `StateAt` then opens its root.
* **The chain and the miner.** Between those steps, `InsertBlock` grows the chain and
  `Commit` (the miner's worker) replaces the pending snapshot.
* **Nil blocks.** A nil `*Block` / `*StateDB` is `<<>>`. Dereferencing it gives the
  result kind `"panic"`.

**Metering.**
* **Steps.** `Init` is `newMeteredMsgWriter`, which may leave the stream unwrapped
  (`metered`). `InitVersion` is `rw.Init`. `ReadMsg` and `WriteMsg` mark meters using
  the switches `ReadKind` and `WriteKind`.
* **Handshake.** Before `Init`, only the handshake's `StatusMsg` crosses the stream
  (`MayCross`), so it is metered with version 0.
* **Reference.** `RefKind` gives the message a code names in each protocol version.
* **History.** `log` records every message that crossed the stream, for the property.

**ChainSpecConvert.** Models `newParityChainSpec` (with the setters for Byzantium,
Constantinople and the Constantinople fix, and `setPrecompile`), `newAlbtpGenesisSpec` and
`newPybtpereumGenesisSpec` as operators. `ConvertParity`, `ConvertAleth` and `ConvertPy`
apply them to a configuration. The module states go-btpereum's own rules (`GethReward`,
`GethPrecompile`, `GethDelay`, and `TransFork`, the fork each Parity transition stands
for) and how Parity reads a spec (`RewardAt`, `BuiltinActive`, `ParityDelayAt`).

**Abi.**
* **UnmarshalJSON.** Modelled by `ParseFrom`, `AddFunction` and `AddEvent`, with the
  overload renaming `OverloadName` / `Suffix`. A name is a sequence, so the `name0` that
  `Sprintf("%s%d")` builds and a declared `name0` are equal.
* **Pack and MbtpodById.** `Pack` and `PackConstructor` build call data. `MbtpodById`
  takes any matching key, because Go ranges over a map in random order.

## 3. Runs

| Run | Checks | Result | What it shows |
|---|---|---|---|
| `mining_concurrent` | `TypeOK` | pass, 595,618 states | With two concurrent callers and late `miner.Start` goroutines, every step of the mining calls is reached and keeps the state well formed. The races these interleavings cause are the violation runs. |
| `mining_price_race` | `ConfigPropagated` | violation | Once every call and `miner.Start` goroutine has run, the service should work with the configuration it was given. `SetGasPrice` racing `SetGasPrice` or `StartMining` leaves the pool floor different from `s.gasPrice`. TLC reports this race, the shortest trace. The same property fails in two more ways. A `Setbtperbase` racing `btperbase()`'s automatic choice is overwritten by it. A `Setbtperbase` between `StartMining`'s read of `eb` and its goroutine leaves the miner sealing to an address `btp_coinbase` no longer reports. |
| `lifecycle` | `TypeOK`, `ChainFollowsConfig`, `DbVersionMatchesBinary`, `CallsReturn` | pass, 204,088 states | Module `Service`. Across crashes, upgrades and downgrades, the stored chain follows the stored configuration. A service without `SkipBcVersionCheck` runs only on a database of its own version: an older one is upgraded and a newer one refused. Every remote-sealer call of two miners returns, also when `Stop` closes the engine under it and then blocks. |
| `import_chain` | `TypeOK`, `ErrorLocated`, `ImportRefines`, `Terminates` | pass, 1,501 states | `ImportChain` implements `ImportSpec` while the downloader inserts blocks, reports the right block or batch on failure, and always returns. |
| `export_flush` | `ExportedFileComplete` | violation | A gzip export can report success and leave a truncated file. |
| `debug_state` | `RangeMatchesRef`, `PagingExact`, `PagingTerminates` | pass, 36,234 states | Paging with `NextKey` returns every key exactly once, every page is the reference page, and paging with a positive page size ends. |
| `backend` | `TypeOK`, `EnrCurrentUnlessRewound`, `UpdaterExitsAfterStop` | pass, 431,424 states | Module `Backend`. The fork ID becomes current after every block. The ENR goroutine returns after `Stop`. |
| `metering` | `TypeOK`, `MetersMatchTraffic` | pass, 57,870 states | Each meter counts exactly the messages, and the bytes, of its kind in the peer's protocol version, handshake included. |
| `chainspec` | `RewardFaithful`, `PrecompilesFaithful` | pass, 1,600 states | The Parity reward schedule and both specs' precompiles match go-btpereum for every accepted configuration. |
| `chainspec_forks` | `ForkRulesFaithful` | violation | Every Parity transition and Aleth fork block should enable its fork's rules from go-btpereum's block, and the bomb delay should be go-btpereum's. TLC's trace leaves Byzantium unset, and both specs enable it, and Constantinople, from genesis. The same property also fails for `MaxCodeSizeTransition`, which is fixed at 0 although go-btpereum applies EIP-170 from `EIP158Block`. It also fails for the 2M bomb delay, instead of 5M, when Byzantium and Constantinople share a block. |
| `abi` | `TypeOK`, `OverloadsKept` | pass, 120,017 states | Every overload of a description keeps exactly one entry in `Methods`, under its own suffixed name. |
| `abi_selector` | `PackSelectorDeclared` | violation | With two functions `f(x)`, `Pack("f0", x)` sends the id of `f0(x)`, a signature the contract does not declare. |

The four violations are code bugs. `PROJECT.json` "findings" describes each one and
the shape of its trace. Every property of a passing run has a mutant in "mutants". A
mutant is a plausible bug in a mapped definition, and TLC finds the property violated
under the run's own configuration:
* `NewCheckVersion` → `NewCheckVersionNoRefusal` (a newer database opened instead of refused);
* `ReadKind` → `ReadKindUnversioned` (the btp/63 guard dropped);
* `Suffix` → `SuffixOnName` (the suffix appended to the already suffixed name);
* and so on for the rest.

### Bounds

* **MiningControl.**
  * Two addresses, `a1` in the wallet and `a2` not, so clique's `Find` can fail.
  * Prices `{2, 3}` against an initial floor of 1, so a lost update is visible.
  * Thread counts `{0, 2}`, which covers the 0 → -1 conversion.
  * At most 2 pending `miner.Start` goroutines per address. The goroutine is always
    enabled when one is pending.
* **Service.** Two binary versions, two configurations whose disputed fork is at
  block 2 or 3, and chains of up to 3 blocks, so a rewind has blocks to remove. Two
  external miners make every call in a remote mode (`normal`) and in a local one
  (`fake`). With two miners, one can be in the loop while the other waits at the
  first `select` when `Close` runs.
* **ImportChain.** Every file of up to 3 entries of the three kinds, starting at block 1
  or 2. Batches of 2, so a file spans two batches, and a chain of up to 4 blocks.
* **DebugState.** Keys `{1, 2, 3}` with page sizes 0, 1 and 2, so pages end before,
  at and after the last key. The blocks are one account, canonical blocks 0 and 1, and a
  side block at height 1.
* **Backend.** Heads up to 4 with forks at 2 and 4, 2 worker snapshots, numbers 0, 2 and
  5 (below, at and above the head), a channel of 2 and one `setHead`. The channel
  fills, a rewind crosses a fork, and a snapshot is replaced between a call's steps.
* **Metering.** Both protocol versions, the btp/63-only codes, a code of no message and
  two sizes, and the status code. Streams of 3 messages, so the two status messages
  of a handshake can be followed by traffic at the negotiated version.
* **ChainSpecConvert.** Every configuration go-btpereum accepts with forks at blocks 0-2,
  and nonces 0 and 66.
* **Abi.** Every description of up to 3 fields, with names `f` and `f0`, two argument
  lists and every field type.

### Fairness

Liveness is checked only where the code schedules the step. Weak fairness is assumed for:
* `ImportChain`'s own steps. They run on the RPC goroutine, and nothing blocks them.
* The paging client (`StorageRangeAt`). This is the client's behaviour, and it is stated
  as the client's.
* The ENR goroutine's `Receive` and `Exit`. The goroutine blocks only in its `select`, so
  it runs whenever a case is ready.
* `Protocols` and `startbtpEntryUpdate`, which `node.Start` calls in sequence.
* A remote-sealer call's `Stopped` and `Recv`. The RPC goroutine blocks only in them.
* The loop's `Serve` of each waiting caller. Its `select` picks among ready cases at
  random, so no sender waits forever.

`Stop`'s statements get no fairness, because a component's `Stop` may block.
`CallsReturn` therefore says that a call returns even when `Stop` stalls after
`Close`.

No fairness is assumed for RPC callers, block insertion, the miner or `Sbtpead`.

## 4. What is not modelled, and what is left

* **The remote sealer's data.** The work package, solution verification and hash-rate
  bookkeeping of the loop are not modelled. The loop is not in `src/`, and no property
  reads them. `Gbtpashrate` only reads.
* **Properties the modules support, with no run yet:**
  * the miner is stopped when `miner_stop` has returned, against a late `MinerStart`
    (`ConfigPropagated` covers only the stale `eb` that the late goroutine installs);
  * spec.md §5's shutdown order, checked with `DeliverBlock` during `StopStep`;
  * the genesis nonce encoding against `types.EncodeNonce`;
  * deleted accounts missing from `getModifiedAccounts`;
  * a pending lookup before the worker's first `Commit` dereferencing nil;
  * the ENR entry going stale after `Sbtpead`.

  The hazards in `PROJECT.json` that name no property point at these.
* **Pure delegation or I/O, not modelled:**
  * `GetBadBlocks`, `Preimage`, the hash, receipt and log lookups, `SendTx` and the pool
    queries;
  * the miner API's `ChainId`, `Mining`, `Hashrate`, `Gbtpashrate`, `SetExtra` and
    `SetRecommitInterval`, which read a value or hand one to the miner in a single call.
    `ChainId`'s `Uint64()` truncation of a large id is a hazard of one conversion, with no
    step order to explore;
  * `computeTxEnv`'s replay;
  * genesis accounts and the engine parameters of the chain specs;
  * the ABI's byte-level encoding and `Unpack`.
* **No behaviour, not modelled:** the configuration defaults, the other metrics, the
  mobile logger, build files, docs and tests.
