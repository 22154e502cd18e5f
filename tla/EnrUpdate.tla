------------------------------ MODULE EnrUpdate ------------------------------
(***************************************************************************)
(* The "btp" entry of the node's ENR record (backend.go, enr_entry.go):    *)
(* Protocols puts the current fork ID into the record before the service   *)
(* starts; Start subscribes a channel of capacity ChanCap to the chain's   *)
(* head events and spawns a goroutine that, on every event, recomputes the *)
(* entry from the chain's current head (currentbtpEntry) and sets it; the  *)
(* goroutine returns when the subscription fails, which Stop causes by     *)
(* stopping the chain. Blocks are inserted by the downloader or the miner; *)
(* event.Feed.Send blocks while the subscriber's channel is full. The      *)
(* debug API may rewind the head (Sbtpead), which sends no head event.     *)
(***************************************************************************)
EXTENDS Naturals, Sequences, FiniteSets

CONSTANTS
    MaxHead,        \* bound on the chain height
    ForkBlocks,     \* the fork blocks forkid.NewID counts
    ChanCap,        \* capacity of the newHead channel (10 in the code)
    MaxSetHeads     \* bound on the debug_setHead calls

\* forkid.NewID(chain): determined by the forks the current head has passed.
ForkID(h) == Cardinality({f \in ForkBlocks : f <= h})

VARIABLES
    head,       \* the chain's current block number
    enr,        \* <<id>>: the fork ID the local node's "btp" entry advertises
    newHead,    \* the events buffered in the subscription's channel
    subscribed, \* the subscription is live (sub.Err() not closed)
    updater,    \* the goroutine: "none", "running" or "exited"
    phase,      \* the service: "new", "announced", "started", "stopped"
    setHeads,   \* debug_setHead calls so far
    rewound     \* history: the last change of the head was a rewind

vars == <<head, enr, newHead, subscribed, updater, phase, setHeads, rewound>>

Init ==
    /\ head \in 0..MaxHead
    /\ enr = <<>>
    /\ newHead = <<>>
    /\ subscribed = FALSE
    /\ updater = "none"
    /\ phase = "new"
    /\ setHeads = 0
    /\ rewound = FALSE

\* Protocols: every protocol's Attributes carry currentbtpEntry().
Protocols ==
    /\ phase = "new"
    /\ enr' = <<ForkID(head)>>
    /\ phase' = "announced"
    /\ UNCHANGED <<head, newHead, subscribed, updater, setHeads, rewound>>

\* Start begins with startbtpEntryUpdate: subscribe, then spawn the loop.
startbtpEntryUpdate ==
    /\ phase = "announced"
    /\ subscribed' = TRUE
    /\ updater' = "running"
    /\ phase' = "started"
    /\ UNCHANGED <<head, enr, newHead, setHeads, rewound>>

\* A block becomes the head; the chain sends a ChainHeadEvent to every live
\* subscription, waiting while a channel is full.
InsertBlock ==
    /\ phase = "started"
    /\ head < MaxHead
    /\ subscribed => Len(newHead) < ChanCap
    /\ head' = head + 1
    /\ newHead' = IF subscribed THEN Append(newHead, head + 1) ELSE newHead
    /\ rewound' = FALSE
    /\ UNCHANGED <<enr, subscribed, updater, phase, setHeads>>

\* debug_setHead / Sbtpead: the chain is rewound; no head event is sent.
SetHead(n) ==
    /\ setHeads < MaxSetHeads
    /\ phase = "started"
    /\ n < head
    /\ head' = n
    /\ setHeads' = setHeads + 1
    /\ rewound' = TRUE
    /\ UNCHANGED <<enr, newHead, subscribed, updater, phase>>

ReceiveStale ==
    /\ updater = "running"
    /\ newHead # <<>>
    /\ newHead' = Tail(newHead)
    /\ UNCHANGED <<head, enr, subscribed, updater, phase, setHeads, rewound>>

\* case <-newHead: ln.Set(btp.currentbtpEntry()).
Receive ==
    /\ updater = "running"
    /\ newHead # <<>>
    /\ newHead' = Tail(newHead)
    /\ enr' = <<ForkID(head)>>
    /\ UNCHANGED <<head, subscribed, updater, phase, setHeads, rewound>>

\* case <-sub.Err(): return (after an unsubscribe the channel is closed).
Exit ==
    /\ updater = "running"
    /\ ~subscribed
    /\ updater' = "exited"
    /\ UNCHANGED <<head, enr, newHead, subscribed, phase, setHeads, rewound>>

StopKeepsSubscription ==
    /\ phase = "started"
    /\ phase' = "stopped"
    /\ UNCHANGED <<head, enr, newHead, subscribed, updater, setHeads, rewound>>

\* Stop stops the chain, whose scope.Close ends its subscriptions.
Stop ==
    /\ phase = "started"
    /\ phase' = "stopped"
    /\ subscribed' = FALSE
    /\ UNCHANGED <<head, enr, newHead, updater, setHeads, rewound>>

Next ==
    \/ Protocols
    \/ startbtpEntryUpdate
    \/ InsertBlock
    \/ \E n \in 0..MaxHead : SetHead(n)
    \/ Receive
    \/ Exit
    \/ Stop

\* node.Start calls Protocols and then Start; the goroutine is scheduled
\* whenever one of its select cases is ready.
Spec == Init /\ [][Next]_vars
        /\ WF_vars(Protocols) /\ WF_vars(startbtpEntryUpdate)
        /\ WF_vars(Receive) /\ WF_vars(Exit)

-----------------------------------------------------------------------------
(* Properties *)

\* The entry becomes current after every head change except a rewind: a
\* block inserted after debug_setHead brings it back, as does every block
\* the updater sees, whatever the events still buffered.
EnrCurrentUnlessRewound ==
    <>[](phase = "stopped" \/ rewound \/ enr = <<ForkID(head)>>)

\* The updater goroutine cannot synchronise with Stop and may still handle
\* buffered head events after it, but once Stop has stopped the chain the
\* goroutine returns (its sub.Err() case), whatever events were buffered.
UpdaterExitsAfterStop ==
    phase = "stopped" ~> updater = "exited"
==============================================================================
