------------------------------- MODULE Backend -------------------------------
(***************************************************************************)
(* One chain, two of its users. The RPC lookups of btpAPIBackend and       *)
(* debug_dumpBlock (ApiBackend) and the ENR "btp" entry updater            *)
(* (EnrUpdate) share the block chain's head: an inserted block is visible  *)
(* to the next lookup and is sent to the updater's subscription as a       *)
(* ChainHeadEvent; btpAPIBackend.Sbtpead (debug_setHead) rewinds the head  *)
(* under both, and sends no event. The miner's worker republishes its      *)
(* pending snapshot at any time. RPC calls are accepted while the service  *)
(* runs; a call that has resolved its header finishes its StateAt.         *)
(***************************************************************************)
EXTENDS Naturals

CONSTANTS
    MaxHead,        \* bound on the chain height
    MaxCommits,     \* bound on the worker's snapshots
    Numbers,        \* the block numbers RPC clients pass
    ForkBlocks,     \* the fork blocks forkid.NewID counts
    ChanCap,        \* capacity of the ENR updater's head-event channel
    MaxSetHeads     \* bound on the debug_setHead calls

VARIABLES
    head,                                       \* shared: the chain's head
    snapshot, commits, pc, header, result,      \* ApiBackend
    enr, newHead, subscribed, updater, phase,   \* EnrUpdate
    setHeads, rewound

apiVars == <<snapshot, commits, pc, header, result>>
enrVars == <<enr, newHead, subscribed, updater, phase, setHeads, rewound>>
vars == <<head, apiVars, enrVars>>

Api == INSTANCE ApiBackend
Enr == INSTANCE EnrUpdate

Init == Api!Init /\ Enr!Init

\* node.Start opens the RPC endpoints after the services started, and
\* node.Stop closes them before it stops the services.
Serving == phase = "started"

\* BlockChain.insertChain: the block becomes the head every lookup resolves
\* against, and the ChainHeadEvent is sent to the live subscription.
InsertBlock == Api!InsertBlock /\ Enr!InsertBlock

\* btpAPIBackend.Sbtpead: downloader.Cancel, then blockchain.Sbtpead.
SetHead(n) == Enr!SetHead(n) /\ UNCHANGED apiVars

\* The worker commits new work on the current head.
Commit == Api!Commit /\ UNCHANGED enrVars

\* A new RPC call: HeaderByNumber, StateAndHeaderByNumber or DumpBlock.
Lookup(nr) ==
    /\ Serving
    /\ Api!HeaderByNumber(nr) \/ Api!StateAndHeaderByNumber(nr) \/ Api!DumpBlock(nr)
    /\ UNCHANGED enrVars

\* The second step of StateAndHeaderByNumber.
StateAt == Api!StateAt /\ UNCHANGED enrVars

\* The service's own steps and the updater goroutine.
Protocols == Enr!Protocols /\ UNCHANGED apiVars

startbtpEntryUpdate == Enr!startbtpEntryUpdate /\ UNCHANGED apiVars

Receive == Enr!Receive /\ UNCHANGED apiVars

Exit == Enr!Exit /\ UNCHANGED apiVars

Stop == Enr!Stop /\ UNCHANGED apiVars

Next ==
    \/ InsertBlock
    \/ \E n \in 0..MaxHead : SetHead(n)
    \/ Commit
    \/ \E nr \in Api!Nr : Lookup(nr)
    \/ StateAt
    \/ Protocols \/ startbtpEntryUpdate \/ Receive \/ Exit \/ Stop

\* The fairness of EnrUpdate: node.Start calls Protocols and then Start,
\* and the updater runs whenever one of its select cases is ready.
Spec == Init /\ [][Next]_vars
        /\ WF_vars(Protocols) /\ WF_vars(startbtpEntryUpdate)
        /\ WF_vars(Receive) /\ WF_vars(Exit)

-----------------------------------------------------------------------------
(* Properties: those of the components, in the composed system. *)

\* ApiBackend's type invariant.
TypeOK == Api!TypeOK

\* The advertised fork ID comes to match the head after every block, while
\* RPC calls and the worker's commits interleave with the updater.
EnrCurrentUnlessRewound == Enr!EnrCurrentUnlessRewound

\* After Stop, the updater goroutine returns even though it may first handle
\* head events still buffered, and RPC calls may still be completing.
UpdaterExitsAfterStop == Enr!UpdaterExitsAfterStop
==============================================================================
