--------------------------- MODULE MiningControl ---------------------------
(***************************************************************************)
(* The mining controls of the btpereum full-node service (package btp):    *)
(* the miner_start / miner_stop / miner_setGasPrice / miner_setbtperbase   *)
(* and btp_coinbase RPC handlers and the service methods they call         *)
(* (StartMining, StopMining, Setbtperbase, btperbase).                     *)
(*                                                                         *)
(* The RPC server runs every request in its own goroutine, so the handlers *)
(* of several clients interleave.  The service lock s.lock is only ever    *)
(* held around a single read or write of s.gasPrice or s.btperbase, so     *)
(* each locked section is one atomic step here, and every call the code    *)
(* makes between two locked sections is a step of its own.  StartMining    *)
(* launches the miner with `go s.miner.Start(eb)`: that goroutine is an    *)
(* actor of its own (startPending) that runs at any later time.            *)
(*                                                                         *)
(* The miner, the transaction pool and the clique engine live outside this *)
(* repository's sources; they are modelled by the effect the spec gives    *)
(* their calls: miner.Start sets the coinbase and starts sealing,          *)
(* miner.Stop stops it, txPool.SetGasPrice sets the pool's price floor,    *)
(* clique.Authorize installs the signer.                                   *)
(***************************************************************************)
EXTENDS Naturals, Sequences, FiniteSets, Functions

CONSTANTS
  Clients,        \* concurrent RPC callers
  Addrs,          \* non-zero account addresses
  Zero,           \* common.Address{}: the unset btperbase
  LocalAccounts,  \* accounts of the account manager's first wallet, in order
  Prices,         \* gas prices an RPC caller may pass to SetGasPrice
  ThreadCounts,   \* thread counts a caller may pass to miner_start
  InitGasPrice,   \* config.Miner.GasPrice after New() sanitised it
  PoolPriceLimit, \* config.TxPool.PriceLimit, the pool's initial floor
  MaxPending      \* bound on miner.Start goroutines not yet run

ASSUME Zero \notin Addrs
ASSUME LocalAccounts \in Seq(Addrs)
ASSUME Prices \subseteq Nat \ {0} /\ InitGasPrice \in Prices
ASSUME ThreadCounts \subseteq Nat
ASSUME MaxPending \in Nat \ {0}

Engines == {"btpash", "clique"}

VARIABLES
  engine,         \* s.engine: chosen once by CreateConsensusEngine
  btperbase,      \* s.btperbase (guarded by s.lock)
  gasPrice,       \* s.gasPrice (guarded by s.lock)
  threads,        \* btpash's SetThreads value
  poolPrice,      \* the transaction pool's gas price floor
  mining,         \* miner.Mining()
  minerCoinbase,  \* the coinbase the miner seals to
  signer,         \* the clique signer installed by Authorize
  acceptTxs,      \* protocolManager.acceptTxs
  startPending,   \* bag of `go s.miner.Start(eb)` goroutines not yet run
  pc,             \* where each RPC caller is in its handler
  local,          \* the local variable (price, eb) of each caller
  \* history, read only by the properties:
  propagated,     \* some call has pushed a price into the pool
  explicit        \* the configured or last Setbtperbase address, or Zero

vars == <<engine, btperbase, gasPrice, threads, poolPrice, mining, minerCoinbase,
          signer, acceptTxs, startPending, pc, local, propagated, explicit>>

Threaded == engine = "btpash"   \* btpash implements SetThreads, clique does not

IsLocalAccount(a) == a \in Range(LocalAccounts)

Idle(c) == pc[c] = "idle"

Goto(c, from, to) == pc[c] = from /\ pc' = [pc EXCEPT ![c] = to]

Return(c) == pc' = [pc EXCEPT ![c] = "idle"]

TypeOK ==
  /\ engine \in Engines
  /\ btperbase \in Addrs \cup {Zero}
  /\ gasPrice \in Prices
  /\ threads \in {-1} \cup (ThreadCounts \ {0})
  /\ poolPrice \in Prices \cup {PoolPriceLimit}
  /\ mining \in BOOLEAN
  /\ minerCoinbase \in Addrs \cup {Zero}
  /\ signer \in Addrs \cup {Zero}
  /\ acceptTxs \in {0, 1}
  /\ startPending \in [Addrs -> 0..MaxPending]
  /\ local \in [Clients -> Addrs \cup {Zero} \cup Prices]
  /\ propagated \in BOOLEAN
  /\ explicit \in Addrs \cup {Zero}

-----------------------------------------------------------------------------
(* New() and CreateConsensusEngine: the full-node service as constructed. *)
Init ==
  /\ engine \in Engines
  /\ btperbase \in Addrs \cup {Zero}
  /\ gasPrice = InitGasPrice
  /\ threads = -1
  /\ poolPrice = PoolPriceLimit
  /\ mining = FALSE
  /\ minerCoinbase = Zero
  /\ signer = Zero
  /\ acceptTxs = 0
  /\ startPending = [a \in Addrs |-> 0]
  /\ pc = [c \in Clients |-> "idle"]
  /\ local = [c \in Clients |-> Zero]
  /\ propagated = FALSE
  /\ explicit = btperbase

-----------------------------------------------------------------------------
(* Mutant: the thread count is handed to the engine unconverted. *)
StartSetThreadsRaw(c) ==
  /\ Idle(c)
  /\ \E t \in ThreadCounts : threads' = IF Threaded THEN t ELSE threads
  /\ pc' = [pc EXCEPT ![c] = "sm_check"]
  /\ UNCHANGED <<engine, btperbase, gasPrice, poolPrice, mining, minerCoinbase,
                 signer, acceptTxs, startPending, local, propagated, explicit>>

(* StartMining(threads): update the engine's thread count; 0 disables the  *)
(* local CPU miner.                                                        *)
StartSetThreads(c) ==
  /\ Idle(c)
  /\ \E t \in ThreadCounts :
       threads' = IF Threaded THEN (IF t = 0 THEN -1 ELSE t) ELSE threads
  /\ pc' = [pc EXCEPT ![c] = "sm_check"]
  /\ UNCHANGED <<engine, btperbase, gasPrice, poolPrice, mining, minerCoinbase,
                 signer, acceptTxs, startPending, local, propagated, explicit>>

(* if !s.IsMining(): otherwise StartMining returns nil at once. *)
StartCheckMining(c) ==
  /\ pc[c] = "sm_check"
  /\ IF mining
       THEN Return(c)
       ELSE pc' = [pc EXCEPT ![c] = "sm_price"]
  /\ UNCHANGED <<engine, btperbase, gasPrice, threads, poolPrice, mining,
                 minerCoinbase, signer, acceptTxs, startPending, local,
                 propagated, explicit>>

(* s.lock.RLock(); price := s.gasPrice; s.lock.RUnlock() *)
StartReadPrice(c) ==
  /\ Goto(c, "sm_price", "sm_pool")
  /\ local' = [local EXCEPT ![c] = gasPrice]
  /\ UNCHANGED <<engine, btperbase, gasPrice, threads, poolPrice, mining,
                 minerCoinbase, signer, acceptTxs, startPending, propagated, explicit>>

(* s.txPool.SetGasPrice(price), with the price read above. *)
StartSetPoolPrice(c) ==
  /\ Goto(c, "sm_pool", "sm_base")
  /\ poolPrice' = local[c]
  /\ propagated' = TRUE
  /\ UNCHANGED <<engine, btperbase, gasPrice, threads, mining, minerCoinbase,
                 signer, acceptTxs, startPending, local, explicit>>

(* btperbase(), first half: read s.btperbase under RLock; if it is unset,  *)
(* take the first account of the first wallet, or fail.  `set` is where   *)
(* the caller goes to store an automatic choice, `done` where it goes with *)
(* a configured one.                                                       *)
EtherbaseRead(c, at, set, done) ==
  /\ pc[c] = at
  /\ IF btperbase # Zero
       THEN /\ local' = [local EXCEPT ![c] = btperbase]
            /\ pc' = [pc EXCEPT ![c] = done]
       ELSE IF LocalAccounts # <<>>
       THEN /\ local' = [local EXCEPT ![c] = Head(LocalAccounts)]
            /\ pc' = [pc EXCEPT ![c] = set]
       ELSE /\ local' = [local EXCEPT ![c] = Zero]
            /\ Return(c)
  /\ UNCHANGED <<engine, btperbase, gasPrice, threads, poolPrice, mining,
                 minerCoinbase, signer, acceptTxs, startPending, propagated, explicit>>

(* btperbase(), second half: s.lock.Lock(); s.btperbase = btperbase. *)
EtherbaseAutoSet(c, at, done) ==
  /\ Goto(c, at, done)
  /\ btperbase' = local[c]
  /\ UNCHANGED <<engine, gasPrice, threads, poolPrice, mining, minerCoinbase,
                 signer, acceptTxs, startPending, local, propagated, explicit>>

StartEtherbase(c) ==
  /\ EtherbaseRead(c, "sm_base", "sm_autoset", "sm_auth")

StartEtherbaseSet(c) ==
  EtherbaseAutoSet(c, "sm_autoset", "sm_auth")

(* Under clique: accountManager.Find(eb) must find a wallet, else         *)
(* "signer missing"; then clique.Authorize(eb, ...).                       *)
StartAuthorize(c) ==
  /\ pc[c] = "sm_auth"
  /\ IF engine = "clique"
       THEN IF IsLocalAccount(local[c])
              THEN /\ signer' = local[c]
                   /\ pc' = [pc EXCEPT ![c] = "sm_spawn"]
              ELSE /\ Return(c)
                   /\ UNCHANGED signer
       ELSE /\ pc' = [pc EXCEPT ![c] = "sm_spawn"]
            /\ UNCHANGED signer
  /\ UNCHANGED <<engine, btperbase, gasPrice, threads, poolPrice, mining,
                 minerCoinbase, acceptTxs, startPending, local, propagated, explicit>>

(* atomic.StoreUint32(&acceptTxs, 1); go s.miner.Start(eb); return nil *)
StartSpawn(c) ==
  /\ pc[c] = "sm_spawn"
  /\ startPending[local[c]] < MaxPending
  /\ acceptTxs' = 1
  /\ startPending' = [startPending EXCEPT ![local[c]] = @ + 1]
  /\ Return(c)
  /\ UNCHANGED <<engine, btperbase, gasPrice, threads, poolPrice, mining,
                 minerCoinbase, signer, local, propagated, explicit>>

(* The goroutine `s.miner.Start(eb)`, run whenever the scheduler picks it. *)
MinerStart(a) ==
  /\ startPending[a] > 0
  /\ startPending' = [startPending EXCEPT ![a] = @ - 1]
  /\ minerCoinbase' = a
  /\ mining' = TRUE
  /\ UNCHANGED <<engine, btperbase, gasPrice, threads, poolPrice, signer,
                 acceptTxs, pc, local, propagated, explicit>>

-----------------------------------------------------------------------------
(* StopMining: SetThreads(-1) on a threaded engine, then s.miner.Stop(). *)
StopSetThreads(c) ==
  /\ Idle(c)
  /\ pc' = [pc EXCEPT ![c] = "st_stop"]
  /\ threads' = IF Threaded THEN -1 ELSE threads
  /\ UNCHANGED <<engine, btperbase, gasPrice, poolPrice, mining, minerCoinbase,
                 signer, acceptTxs, startPending, local, propagated, explicit>>

StopMiner(c) ==
  /\ pc[c] = "st_stop"
  /\ mining' = FALSE
  /\ Return(c)
  /\ UNCHANGED <<engine, btperbase, gasPrice, threads, poolPrice,
                 minerCoinbase, signer, acceptTxs, startPending, local,
                 propagated, explicit>>

-----------------------------------------------------------------------------
(* PrivateMinerAPI.SetGasPrice: s.gasPrice under the lock, then, with the *)
(* lock released, txPool.SetGasPrice.                                     *)
SetGasPriceLocked(c) ==
  /\ Idle(c)
  /\ \E p \in Prices :
       /\ gasPrice' = p
       /\ local' = [local EXCEPT ![c] = p]
  /\ pc' = [pc EXCEPT ![c] = "sg_pool"]
  /\ UNCHANGED <<engine, btperbase, threads, poolPrice, mining, minerCoinbase,
                 signer, acceptTxs, startPending, propagated, explicit>>

SetGasPricePool(c) ==
  /\ pc[c] = "sg_pool"
  /\ poolPrice' = local[c]
  /\ propagated' = TRUE
  /\ Return(c)
  /\ UNCHANGED <<engine, btperbase, gasPrice, threads, mining, minerCoinbase,
                 signer, acceptTxs, startPending, local, explicit>>

-----------------------------------------------------------------------------
(* Setbtperbase: s.btperbase under the lock, then s.miner.Setbtperbase. *)
SetEtherbaseLocked(c) ==
  /\ Idle(c)
  /\ \E a \in Addrs :
       /\ btperbase' = a
       /\ local' = [local EXCEPT ![c] = a]
       /\ explicit' = a
  /\ pc' = [pc EXCEPT ![c] = "sb_miner"]
  /\ UNCHANGED <<engine, gasPrice, threads, poolPrice, mining, minerCoinbase,
                 signer, acceptTxs, startPending, propagated>>

SetEtherbaseMiner(c) ==
  /\ pc[c] = "sb_miner"
  /\ minerCoinbase' = local[c]
  /\ Return(c)
  /\ UNCHANGED <<engine, btperbase, gasPrice, threads, poolPrice, mining,
                 signer, acceptTxs, startPending, local, propagated, explicit>>

-----------------------------------------------------------------------------
(* btp_coinbase: PublicbtpereumAPI.Coinbase -> btperbase(). *)
Coinbase(c) ==
  /\ Idle(c)
  /\ EtherbaseRead(c, "idle", "cb_autoset", "idle")

CoinbaseSet(c) == EtherbaseAutoSet(c, "cb_autoset", "idle")

(* The downloader's sync loop also opens the pool to remote transactions *)
(* once a sync completes.                                                 *)
SyncDone ==
  /\ acceptTxs = 0
  /\ acceptTxs' = 1
  /\ UNCHANGED <<engine, btperbase, gasPrice, threads, poolPrice, mining,
                 minerCoinbase, signer, startPending, pc, local, propagated, explicit>>

-----------------------------------------------------------------------------
Next ==
  \/ \E c \in Clients :
       \/ StartSetThreads(c) \/ StartCheckMining(c) \/ StartReadPrice(c)
       \/ StartSetPoolPrice(c) \/ StartEtherbase(c) \/ StartEtherbaseSet(c)
       \/ StartAuthorize(c) \/ StartSpawn(c)
       \/ StopSetThreads(c) \/ StopMiner(c)
       \/ SetGasPriceLocked(c) \/ SetGasPricePool(c)
       \/ SetEtherbaseLocked(c) \/ SetEtherbaseMiner(c)
       \/ Coinbase(c) \/ CoinbaseSet(c)
  \/ \E a \in Addrs : MinerStart(a)
  \/ SyncDone

Spec == Init /\ [][Next]_vars

-----------------------------------------------------------------------------
Quiescent == \A c \in Clients : Idle(c)

NoStartPending == \A a \in Addrs : startPending[a] = 0

(* Once every RPC handler and every `go s.miner.Start(eb)` goroutine has  *)
(* run, the service works with the configuration it was given: the        *)
(* etherbase s.lock guards is the configured or last Setbtperbase address *)
(* (btperbase() only fills in an unset one), the pool's floor is          *)
(* s.gasPrice once a call has pushed a price (SetGasPrice, StartMining's  *)
(* "propagate the initial price point"), and a mining miner seals to      *)
(* s.btperbase, the address btp_coinbase reports (Setbtperbase,           *)
(* StartMining's `eb`).                                                   *)
ConfigPropagated ==
  (Quiescent /\ NoStartPending) =>
      /\ explicit # Zero => btperbase = explicit
      /\ propagated => poolPrice = gasPrice
      /\ mining => minerCoinbase = btperbase

=============================================================================
