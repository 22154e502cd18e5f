------------------------------- MODULE Service -------------------------------
(***************************************************************************)
(* The full-node service across restarts (Lifecycle) with the remote       *)
(* sealer of its consensus engine (RemoteSealer). New creates the engine   *)
(* before the version check, and its loop runs from then on; the "engine"  *)
(* statement of Stop closes it, after the chain and before the protocol    *)
(* manager, txpool and miner. External miners call GetWork, SubmitWork and *)
(* SubmitHashRate while the service runs; a call in flight when Stop       *)
(* begins carries on. The end of the process (a crash, an error from New   *)
(* or Start, or the last statement of Stop) ends the engine and every RPC  *)
(* goroutine.                                                              *)
(***************************************************************************)
EXTENDS Naturals, Sequences

CONSTANTS Versions, Cfgs, NoCfg, ForkBlock, MaxHeight, Clients, PowModes

VARIABLES
    dbVersion, storedCfg, chain, binVersion, binCfg, skipCheck,    \* Lifecycle
    lightServOver, compatErr, phase, stopIdx, running,
    mode, loop, hasWork, pc, call, reply                           \* RemoteSealer

lcVars == <<dbVersion, storedCfg, chain, binVersion, binCfg, skipCheck,
            lightServOver, compatErr, phase, stopIdx, running>>
rsVars == <<mode, loop, hasWork, pc, call, reply>>
vars == <<lcVars, rsVars>>

Lc == INSTANCE Lifecycle
Rs == INSTANCE RemoteSealer

Init == Lc!Init /\ Rs!Init

Boot == Lc!Boot /\ UNCHANGED rsVars

\* CreateConsensusEngine, as the btpereum struct is built, then the
\* database version check: the engine's loop runs even when New fails.
NewCheckVersion == Lc!NewCheckVersion /\ Rs!StartEngine

NewRewind == Lc!NewRewind /\ UNCHANGED rsVars

NewWriteConfig == Lc!NewWriteConfig /\ UNCHANGED rsVars

StartService == Lc!StartService /\ UNCHANGED rsVars

Exit == Lc!Exit /\ Rs!Kill

\* One statement of Stop: s.engine.Close() closes exitCh; the last one ends
\* the process.
StopStep ==
    /\ Lc!StopStep
    /\ \/ Lc!StopOrder[stopIdx] = "engine" /\ Rs!Close
       \/ stopIdx = Len(Lc!StopOrder) /\ Rs!Kill
       \/ Lc!StopOrder[stopIdx] \notin {"engine", "db"} /\ UNCHANGED rsVars

DeliverBlock(src) == Lc!DeliverBlock(src) /\ UNCHANGED rsVars

Crash == Lc!Crash /\ Rs!Kill

\* The RPC server hands a remote-sealer call to a goroutine of its own.
Begin(c, k) == phase = "started" /\ Rs!Begin(c, k) /\ UNCHANGED lcVars

Serve(c) == Rs!Serve(c) /\ UNCHANGED lcVars

Stopped(c) == Rs!Stopped(c) /\ UNCHANGED lcVars

Recv(c) == Rs!Recv(c) /\ UNCHANGED lcVars

\* The running miner hands the engine a sealing task.
Seal == "miner" \in running /\ Rs!Seal /\ UNCHANGED lcVars

Next ==
    \/ Boot \/ NewCheckVersion \/ NewRewind \/ NewWriteConfig \/ StartService
    \/ Exit \/ StopStep \/ Crash
    \/ \E src \in {"pm", "miner"} : DeliverBlock(src)
    \/ \E c \in Clients :
         \/ \E k \in Rs!Calls : Begin(c, k)
         \/ Serve(c) \/ Stopped(c) \/ Recv(c)
    \/ Seal

\* The goroutines of the calls run when they can, and the loop's select,
\* which picks at random among ready cases, takes every waiting request.
\* Stop is given no fairness: a component's Stop may block.
Spec == Init /\ [][Next]_vars
        /\ \A c \in Clients : WF_vars(Serve(c)) /\ WF_vars(Stopped(c)) /\ WF_vars(Recv(c))

-----------------------------------------------------------------------------
(* Properties *)

TypeOK == Lc!TypeOK /\ Rs!TypeOK

\* Whenever New has returned, the stored configuration is the running one and
\* every persisted block was validated by its rules, across binaries and crashes.
ChainFollowsConfig == Lc!ChainFollowsConfig

\* Once New has returned, the database has the running binary's version,
\* unless SkipBcVersionCheck is set: a newer one is refused.
DbVersionMatchesBinary == Lc!DbVersionMatchesBinary

\* Every remote-sealer call returns while the process lives, also when Stop
\* closes the engine while the call waits to hand in its request and then
\* blocks in a later statement: the exitCh case of the first select releases it.
CallsReturn == Rs!CallsReturn

==============================================================================
