------------------------------ MODULE Lifecycle ------------------------------
(***************************************************************************)
(* The life of the full-node service across restarts (backend.go):        *)
(*   New    opens the chain database, sets up the genesis configuration,   *)
(*          checks and upgrades the database version, creates the block    *)
(*          chain and, after an incompatible configuration change, rewinds *)
(*          the chain and stores the new configuration;                    *)
(*   Start  starts the protocol manager (peers);                           *)
(*   Stop   closes the components one by one, in the order of the code.    *)
(* Peers and the miner hand blocks to the chain at any time while they     *)
(* run, also between the steps of Stop. The process may crash at any step; *)
(* only the database (version, stored configuration, blocks) survives.     *)
(* Every boot runs a binary with its own BlockChainVersion and chain       *)
(* configuration, so upgrades and downgrades are both explored.            *)
(***************************************************************************)
EXTENDS Naturals, Sequences, FiniteSets

CONSTANTS
    Versions,       \* BlockChainVersion of the binaries that may be run
    Cfgs,           \* chain configurations a binary may carry
    NoCfg,          \* no configuration stored yet (empty database)
    ForkBlock,      \* [Cfgs -> Nat]: the block of the one fork the configs disagree on
    MaxHeight       \* bound on the chain length

ASSUME Versions \subseteq Nat \ {0}
ASSUME NoCfg \notin Cfgs
ASSUME ForkBlock \in [Cfgs -> Nat \ {0}]

VARIABLES
    dbVersion,      \* rawdb database version; 0 stands for nil (never written)
    storedCfg,      \* the chain configuration written in the database
    chain,          \* persisted blocks 1..head, each tagged with the rules it was validated by
    binVersion,     \* core.BlockChainVersion of the running binary
    binCfg,         \* config.Genesis of the running binary, resolved by SetupGenesisBlock
    skipCheck,      \* config.SkipBcVersionCheck
    lightServOver,  \* config.LightServ > 0 /\ config.LightPeers >= srvr.MaxPeers
    compatErr,      \* SetupGenesisBlock returned a ConfigCompatError
    phase,          \* where the service is in its life
    stopIdx,        \* next statement of Stop
    running         \* components whose goroutines run

vars == <<dbVersion, storedCfg, chain, binVersion, binCfg, skipCheck,
          lightServOver, compatErr, phase, stopIdx, running>>

Phases == {"down", "version", "chain", "config", "ready", "started",
           "stopping", "failed"}

\* The statements of Stop, in the order of the code.
StopOrder == <<"bloom", "chain", "engine", "pm", "txpool", "miner", "mux", "db">>

\* The components New creates and whose loops run once it returns.
Created == {"bloom", "chain", "engine", "txpool", "miner", "mux", "db"}

Components == Created \cup {"pm"}

\* The rules a block at height h is validated by under configuration cfg.
Rules(cfg, h) == IF h >= ForkBlock[cfg] THEN "post" ELSE "pre"

\* params.ChainConfig.CheckCompatible, as spec.md describes it: two
\* configurations are incompatible at head h when they disagree on a fork
\* that at least one of them has already activated at h.
FirstFork(c1, c2) == IF ForkBlock[c1] <= ForkBlock[c2] THEN ForkBlock[c1] ELSE ForkBlock[c2]

Incompatible(stored, new, head) ==
    /\ stored # NoCfg
    /\ ForkBlock[stored] # ForkBlock[new]
    /\ head >= FirstFork(stored, new)

\* ConfigCompatError.RewindTo: the block before the first disputed fork.
RewindTo(stored, new) == FirstFork(stored, new) - 1

TypeOK ==
    /\ dbVersion \in {0} \cup Versions
    /\ storedCfg \in Cfgs \cup {NoCfg}
    /\ chain \in Seq({"pre", "post"}) /\ Len(chain) <= MaxHeight
    /\ binVersion \in Versions
    /\ binCfg \in Cfgs
    /\ skipCheck \in BOOLEAN /\ lightServOver \in BOOLEAN /\ compatErr \in BOOLEAN
    /\ phase \in Phases
    /\ stopIdx \in 1..Len(StopOrder)
    /\ running \subseteq Components

Init ==
    /\ dbVersion = 0
    /\ storedCfg = NoCfg
    /\ chain = <<>>
    /\ binVersion \in Versions
    /\ binCfg \in Cfgs
    /\ skipCheck = FALSE
    /\ lightServOver = FALSE
    /\ compatErr = FALSE
    /\ phase = "down"
    /\ stopIdx = 1
    /\ running = {}

(***************************************************************************)
(* New, up to the version check: a binary is started with its own version  *)
(* and configuration; the database is opened and SetupGenesisBlock either  *)
(* stores the binary's configuration (compatible) or reports a             *)
(* ConfigCompatError and leaves the stored one in place.                   *)
(***************************************************************************)
Boot ==
    /\ phase = "down"
    /\ \E v \in Versions, c \in Cfgs, skip \in BOOLEAN, over \in BOOLEAN :
        /\ binVersion' = v
        /\ binCfg' = c
        /\ skipCheck' = skip
        /\ lightServOver' = over
        /\ compatErr' = Incompatible(storedCfg, c, Len(chain))
        /\ storedCfg' = IF Incompatible(storedCfg, c, Len(chain)) THEN storedCfg ELSE c
    /\ phase' = "version"
    /\ UNCHANGED <<dbVersion, chain, stopIdx, running>>

\* Mutant: the refusal of a newer database is dropped; only the upgrade of a
\* missing or older version is left.
NewCheckVersionNoRefusal ==
    /\ phase = "version"
    /\ dbVersion' = IF ~skipCheck /\ dbVersion < binVersion THEN binVersion ELSE dbVersion
    /\ phase' = "chain"
    /\ UNCHANGED <<storedCfg, chain, binVersion, binCfg, skipCheck,
                   lightServOver, compatErr, stopIdx, running>>

\* The database version check: refuse a database written by a newer binary,
\* upgrade a missing or older version.
NewCheckVersion ==
    /\ phase = "version"
    /\ IF ~skipCheck /\ dbVersion > binVersion
         THEN /\ phase' = "failed"
              /\ UNCHANGED dbVersion
         ELSE /\ dbVersion' = IF ~skipCheck /\ dbVersion < binVersion
                                THEN binVersion ELSE dbVersion
              /\ phase' = "chain"
    /\ UNCHANGED <<storedCfg, chain, binVersion, binCfg, skipCheck,
                   lightServOver, compatErr, stopIdx, running>>

\* NewBlockChain, then on a ConfigCompatError the rewind (Sbtpead). The
\* configuration is written by a separate statement after it.
NewRewindNoSetHead ==
    /\ phase = "chain"
    /\ running' = Created
    /\ phase' = IF compatErr THEN "config" ELSE "ready"
    /\ UNCHANGED <<dbVersion, storedCfg, chain, binVersion, binCfg, skipCheck,
                   lightServOver, compatErr, stopIdx>>

NewRewind ==
    /\ phase = "chain"
    /\ running' = Created
    /\ IF compatErr
         THEN /\ chain' = SubSeq(chain, 1, RewindTo(storedCfg, binCfg))
              /\ phase' = "config"
         ELSE /\ phase' = "ready"
              /\ UNCHANGED chain
    /\ UNCHANGED <<dbVersion, storedCfg, binVersion, binCfg, skipCheck,
                   lightServOver, compatErr, stopIdx>>

\* rawdb.WriteChainConfig after the rewind; New then returns.
NewWriteConfig ==
    /\ phase = "config"
    /\ storedCfg' = binCfg
    /\ phase' = "ready"
    /\ UNCHANGED <<dbVersion, chain, binVersion, binCfg, skipCheck,
                   lightServOver, compatErr, stopIdx, running>>

(***************************************************************************)
(* Start: the ENR updater and bloom handlers are started, then the peer    *)
(* limit is checked; on an invalid light-peer configuration Start returns  *)
(* an error before the protocol manager is started.                        *)
(***************************************************************************)
StartService ==
    /\ phase = "ready"
    /\ IF lightServOver
         THEN /\ phase' = "failed"
              /\ UNCHANGED running
         ELSE /\ phase' = "started"
              /\ running' = running \cup {"pm"}
    /\ UNCHANGED <<dbVersion, storedCfg, chain, binVersion, binCfg, skipCheck,
                   lightServOver, compatErr, stopIdx>>

\* An error from New or Start ends the process (the node reports it fatally).
Exit ==
    /\ phase = "failed"
    /\ phase' = "down"
    /\ running' = {}
    /\ UNCHANGED <<dbVersion, storedCfg, chain, binVersion, binCfg, skipCheck,
                   lightServOver, compatErr, stopIdx>>

(***************************************************************************)
(* Stop: one statement per step, in the order of the code. After the last *)
(* one (chainDb.Close, close(shutdownChan)) the service is down.           *)
(***************************************************************************)
StopStepNoReset ==
    /\ phase \in {"started", "stopping"}
    /\ running' = running \ {StopOrder[stopIdx]}
    /\ phase' = IF stopIdx = Len(StopOrder) THEN "down" ELSE "stopping"
    /\ stopIdx' = stopIdx + 1
    /\ UNCHANGED <<dbVersion, storedCfg, chain, binVersion, binCfg, skipCheck,
                   lightServOver, compatErr>>

StopStep ==
    /\ phase \in {"started", "stopping"}
    /\ running' = running \ {StopOrder[stopIdx]}
    /\ IF stopIdx = Len(StopOrder)
         THEN /\ phase' = "down"
              /\ stopIdx' = 1
         ELSE /\ phase' = "stopping"
              /\ stopIdx' = stopIdx + 1
    /\ UNCHANGED <<dbVersion, storedCfg, chain, binVersion, binCfg, skipCheck,
                   lightServOver, compatErr>>

(***************************************************************************)
(* A peer (through the protocol manager) or the miner (a sealed block)     *)
(* hands a block to the chain. A running chain validates it by the rules   *)
(* of the running configuration and persists it; a stopped chain refuses   *)
(* it.                                                                     *)
(***************************************************************************)
DeliverBlock(src) ==
    /\ phase \in {"started", "stopping"}
    /\ src \in running
    /\ Len(chain) < MaxHeight
    /\ chain' = IF "chain" \in running
                  THEN Append(chain, Rules(binCfg, Len(chain) + 1))
                  ELSE chain
    /\ UNCHANGED <<dbVersion, storedCfg, binVersion, binCfg, skipCheck,
                   lightServOver, compatErr, phase, stopIdx, running>>

\* The process dies; only the database survives.
Crash ==
    /\ phase # "down"
    /\ phase' = "down"
    /\ stopIdx' = 1
    /\ running' = {}
    /\ UNCHANGED <<dbVersion, storedCfg, chain, binVersion, binCfg, skipCheck,
                   lightServOver, compatErr>>

Next ==
    \/ Boot
    \/ NewCheckVersion
    \/ NewRewind
    \/ NewWriteConfig
    \/ StartService
    \/ Exit
    \/ StopStep
    \/ \E src \in {"pm", "miner"} : DeliverBlock(src)
    \/ Crash

Spec == Init /\ [][Next]_vars

-----------------------------------------------------------------------------
(* Properties *)

\* The service is up: New has returned and the service has not stopped.
Up == phase \in {"ready", "started", "stopping"}

\* Whenever New has returned, the stored configuration is the running one and
\* every persisted block was validated by the rules that configuration gives
\* its height. This must hold across any sequence of binaries and crashes:
\* it is what the rewind after a ConfigCompatError in New is for.
ChainFollowsConfig ==
    Up => /\ storedCfg = binCfg
          /\ \A h \in 1..Len(chain) : chain[h] = Rules(binCfg, h)

\* A binary only works on a database of its own BlockChainVersion unless it
\* runs with SkipBcVersionCheck: once New has returned, across any sequence
\* of upgrades, downgrades and crashes, an older database has been upgraded
\* and a newer one refused (New returns the "database version is v%d"
\* error), never opened as it is.
DbVersionMatchesBinary == (Up /\ ~skipCheck) => dbVersion = binVersion
==============================================================================
