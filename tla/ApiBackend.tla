------------------------------ MODULE ApiBackend -----------------------------
(***************************************************************************)
(* The block and state lookups of btpAPIBackend (api_backend.go) and       *)
(* PublicDebugAPI.DumpBlock (btp/api.go), against a chain that grows and a *)
(* miner whose worker republishes its pending block and state snapshot.    *)
(* An RPC number is rpc.BlockNumber: -2 pending, -1 latest, or a number. A block is the  *)
(* pair <<number, generation>>: canonical blocks have generation 0, the    *)
(* worker's snapshots count up; <<>> is a nil *Block / *StateDB. A state   *)
(* is named by the block whose root it is. One RPC goroutine is modelled;  *)
(* a call that reads several things takes one step per read.               *)
(***************************************************************************)
EXTENDS Integers, Sequences

CONSTANTS
    MaxHead,        \* bound on the chain height
    MaxCommits,     \* bound on the worker's snapshots
    Numbers         \* the block numbers RPC clients pass

\* rpc.PendingBlockNumber and rpc.LatestBlockNumber.
PendingBlockNumber == -2
LatestBlockNumber == -1

Nr == {PendingBlockNumber, LatestBlockNumber} \cup Numbers

VARIABLES
    head,       \* the chain's current block number
    snapshot,   \* the worker's pending block, <<>> before its first commit
    commits,    \* snapshots made so far
    pc,         \* the RPC goroutine: "idle" or "stateAt" (header resolved)
    header,     \* the header StateAndHeaderByNumber resolved
    result      \* the last call's answer

vars == <<head, snapshot, commits, pc, header, result>>

CanonicalUnchecked(n) == <<n, 0>>

\* BlockChain.CurrentBlock and GbtpeaderByNumber/GetBlockByNumber.
Canonical(n) == IF n <= head THEN <<n, 0>> ELSE <<>>

\* The resolution HeaderByNumber and BlockByNumber share for a number that
\* is not "pending".
Resolve(nr) == IF nr = LatestBlockNumber THEN Canonical(head) ELSE Canonical(nr)

Panic == [kind |-> "panic", header |-> <<>>, state |-> <<>>]

Err == [kind |-> "err", header |-> <<>>, state |-> <<>>]

Init ==
    /\ head \in 0..MaxHead
    /\ snapshot = <<>>
    /\ commits = 0
    /\ pc = "idle"
    /\ header = <<>>
    /\ result = Err

\* The worker commits new work on the current head and updates the snapshot.
Commit ==
    /\ commits < MaxCommits
    /\ snapshot' = <<head + 1, commits + 1>>
    /\ commits' = commits + 1
    /\ UNCHANGED <<head, pc, header, result>>

\* A block is imported; the snapshot is stale until the worker commits.
InsertBlock ==
    /\ head < MaxHead
    /\ head' = head + 1
    /\ UNCHANGED <<snapshot, commits, pc, header, result>>

\* HeaderByNumber: block.Header() of a nil pending block dereferences nil.
\* (BlockByNumber returns the block itself, nil included.)
HeaderByNumber(nr) ==
    /\ pc = "idle"
    /\ result' =
         IF nr = PendingBlockNumber
           THEN IF snapshot = <<>> THEN Panic
                ELSE [kind |-> "header", header |-> snapshot, state |-> <<>>]
           ELSE [kind |-> "header", header |-> Resolve(nr), state |-> <<>>]
    /\ UNCHANGED <<head, snapshot, commits, pc, header>>

\* StateAndHeaderByNumber: miner.Pending() hands out block and state of one
\* snapshot (nil, nil before the first); otherwise the header is resolved
\* ("header not found" when nil) and its root is opened in a second step.
StateAndHeaderByNumber(nr) ==
    /\ pc = "idle"
    /\ IF nr = PendingBlockNumber
         THEN /\ result' = IF snapshot = <<>> THEN Panic
                           ELSE [kind |-> "state", header |-> snapshot, state |-> snapshot]
              /\ UNCHANGED <<pc, header>>
         ELSE LET h == Resolve(nr) IN
              IF h = <<>> THEN result' = Err /\ UNCHANGED <<pc, header>>
              ELSE pc' = "stateAt" /\ header' = h /\ UNCHANGED result
    /\ UNCHANGED <<head, snapshot, commits>>

\* BlockChain().StateAt(header.Root). It fails when the root's trie nodes
\* are missing (a pruned or rewound state); the header is returned with
\* the error.
StateAt ==
    /\ pc = "stateAt"
    /\ \/ result' = [kind |-> "state", header |-> header, state |-> header]
       \/ result' = [Err EXCEPT !.header = header]
    /\ pc' = "idle"
    /\ header' = <<>>
    /\ UNCHANGED <<head, snapshot, commits>>

\* DumpBlock: the pending state dumped from miner.Pending(), a nil one
\* dereferenced; otherwise "block #%d not found", or StateAt(block.Root()):
\* the block's state, or its error when the root's nodes are missing. The
\* root is the resolved block's own, so a head change between the lookup
\* and StateAt can only turn into that error, and the two are one step.
DumpBlock(nr) ==
    /\ pc = "idle"
    /\ \/ nr = PendingBlockNumber
          /\ result' = IF snapshot = <<>> THEN Panic
                       ELSE [kind |-> "dump", header |-> <<>>, state |-> snapshot]
       \/ nr # PendingBlockNumber /\ Resolve(nr) = <<>> /\ result' = Err
       \/ /\ nr # PendingBlockNumber /\ Resolve(nr) # <<>>
          /\ result' \in {[kind |-> "dump", header |-> <<>>, state |-> Resolve(nr)], Err}
    /\ UNCHANGED <<head, snapshot, commits, pc, header>>

Next ==
    \/ Commit
    \/ InsertBlock
    \/ \E nr \in Nr : HeaderByNumber(nr)
    \/ \E nr \in Nr : StateAndHeaderByNumber(nr)
    \/ StateAt
    \/ \E nr \in Nr : DumpBlock(nr)

Spec == Init /\ [][Next]_vars

-----------------------------------------------------------------------------
(* Properties *)

\* The blocks there can be: canonical ones up to the head the chain reached,
\* and the worker's snapshots on top of a head.
Blocks == {<< >>} \cup {<<n, 0>> : n \in 0..MaxHead}
            \cup {<<n, g>> : n \in 1..MaxHead + 1, g \in 1..MaxCommits}

\* Besides the types, no lookup answers with a block that does not exist.
TypeOK ==
    /\ head \in 0..MaxHead
    /\ snapshot \in Blocks /\ header \in Blocks
    /\ result.header \in Blocks /\ result.state \in Blocks
    /\ commits \in 0..MaxCommits
    /\ pc \in {"idle", "stateAt"}
    /\ result.kind \in {"panic", "err", "header", "state", "dump"}
==============================================================================
