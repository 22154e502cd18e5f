------------------------------- MODULE Metering ------------------------------
(***************************************************************************)
(* meteredMsgReadWriter (btp/metrics.go): a peer's message stream wrapped  *)
(* so that every message read or written marks a packets meter and a      *)
(* traffic meter of its kind. Init records the protocol version the peer   *)
(* negotiated; the codes of NodeData and Receipts belong to btp/63 only.   *)
(* With metrics disabled newMeteredMsgWriter returns the stream unwrapped. *)
(* A meter is a per-kind counter; a message is its code and size.          *)
(***************************************************************************)
EXTENDS Naturals, Sequences, FiniteSets, Functions, TLC

CONSTANTS
    Codes,      \* message codes peers send
    Sizes,      \* message sizes
    Versions,   \* negotiated protocol versions
    MaxMsgs     \* bound on the messages of a stream

\* The protocol's message codes (protocol.go).
StatusMsg == 0
NewBlockHashesMsg == 1
TxMsg == 2
BlockHeadersMsg == 4
BlockBodiesMsg == 6
NewBlockMsg == 7
NodeDataMsg == 14
ReceiptsMsg == 16
btp63 == 63

MaxSize == CHOOSE x \in Sizes : \A y \in Sizes : y <= x

Kinds == {"header", "body", "state", "receipt", "hash", "block", "txn", "misc"}

ReadKindUnversioned(code, version) ==
    CASE code = BlockHeadersMsg -> "header"
      [] code = BlockBodiesMsg -> "body"
      [] code = NodeDataMsg -> "state"
      [] code = ReceiptsMsg -> "receipt"
      [] code = NewBlockHashesMsg -> "hash"
      [] code = NewBlockMsg -> "block"
      [] code = TxMsg -> "txn"
      [] OTHER -> "misc"

\* The switch of ReadMsg: the meters a received message marks.
ReadKind(code, version) ==
    CASE code = BlockHeadersMsg -> "header"
      [] code = BlockBodiesMsg -> "body"
      [] version >= btp63 /\ code = NodeDataMsg -> "state"
      [] version >= btp63 /\ code = ReceiptsMsg -> "receipt"
      [] code = NewBlockHashesMsg -> "hash"
      [] code = NewBlockMsg -> "block"
      [] code = TxMsg -> "txn"
      [] OTHER -> "misc"

\* The switch of WriteMsg.
WriteKind(code, version) ==
    CASE code = BlockHeadersMsg -> "header"
      [] code = BlockBodiesMsg -> "body"
      [] version >= btp63 /\ code = NodeDataMsg -> "state"
      [] version >= btp63 /\ code = ReceiptsMsg -> "receipt"
      [] code = NewBlockHashesMsg -> "hash"
      [] code = NewBlockMsg -> "block"
      [] code = TxMsg -> "txn"
      [] OTHER -> "misc"

\* Reference: the message a code names in a protocol version, as listed by
\* the protocol's message tables, and the meter kept for it.
MessagesOf(v) ==
    IF v >= btp63 THEN {TxMsg, NewBlockHashesMsg, BlockHeadersMsg, BlockBodiesMsg,
                        NewBlockMsg, NodeDataMsg, ReceiptsMsg}
    ELSE {TxMsg, NewBlockHashesMsg, BlockHeadersMsg, BlockBodiesMsg, NewBlockMsg}

MeterFor ==
    (BlockHeadersMsg :> "header") @@ (BlockBodiesMsg :> "body") @@
    (NodeDataMsg :> "state") @@ (ReceiptsMsg :> "receipt") @@
    (NewBlockHashesMsg :> "hash") @@ (NewBlockMsg :> "block") @@ (TxMsg :> "txn")

RefKind(code, v) == IF code \in MessagesOf(v) THEN MeterFor[code] ELSE "misc"

-----------------------------------------------------------------------------
VARIABLES
    metered,    \* metrics.Enabled: the stream is wrapped
    version,    \* rw.version, 0 until Init
    meters,     \* [dir |-> [kind |-> [packets, traffic]]]
    log         \* the messages that crossed the stream: [dir, code, size]

vars == <<metered, version, meters, log>>

Zero == [d \in {"in", "out"} |-> [k \in Kinds |-> [packets |-> 0, traffic |-> 0]]]

MarkSwapped(m, dir, kind, size) ==
    [m EXCEPT ![dir][kind].packets = @ + size, ![dir][kind].traffic = @ + 1]

\* Mark(1) and Mark(int64(msg.Size)) on the meters of one kind.
Mark(m, dir, kind, size) ==
    [m EXCEPT ![dir][kind].packets = @ + 1, ![dir][kind].traffic = @ + size]

\* newMeteredMsgWriter.
Init ==
    /\ metered \in BOOLEAN
    /\ version = 0
    /\ meters = Zero
    /\ log = << >>

\* rw.Init(version), called once the handshake has fixed the version.
InitVersion(v) ==
    /\ metered /\ version = 0
    /\ version' = v
    /\ UNCHANGED <<metered, meters, log>>

\* Before Init only the handshake's StatusMsg crosses the stream: the
\* handler calls Init once the handshake has fixed the version, so the
\* status messages are metered with version 0.
MayCross(code) == version # 0 \/ code = StatusMsg

\* ReadMsg: a read error returns before any meter is marked.
ReadMsg(code, size) ==
    /\ MayCross(code) /\ Len(log) < MaxMsgs
    /\ \/ /\ log' = Append(log, [dir |-> "in", code |-> code, size |-> size])
          /\ meters' = IF metered THEN Mark(meters, "in", ReadKind(code, version), size)
                       ELSE meters
       \/ UNCHANGED <<log, meters>>
    /\ UNCHANGED <<metered, version>>

\* WriteMsg: the meters are marked, then the message is handed to the
\* wrapped stream, whatever that write returns.
WriteMsg(code, size) ==
    /\ MayCross(code) /\ Len(log) < MaxMsgs
    /\ log' = Append(log, [dir |-> "out", code |-> code, size |-> size])
    /\ meters' = IF metered THEN Mark(meters, "out", WriteKind(code, version), size)
                 ELSE meters
    /\ UNCHANGED <<metered, version>>

\* An unwrapped stream has no Init: the handler only calls it on a
\* meteredMsgReadWriter; the version is then fixed by the handshake alone.
Handshake(v) ==
    /\ ~metered /\ version = 0
    /\ version' = v
    /\ UNCHANGED <<metered, meters, log>>

Next ==
    \/ \E v \in Versions : InitVersion(v) \/ Handshake(v)
    \/ \E c \in Codes, s \in Sizes : ReadMsg(c, s) \/ WriteMsg(c, s)

Spec == Init /\ [][Next]_vars

-----------------------------------------------------------------------------
(* Properties *)

TypeOK ==
    /\ metered \in BOOLEAN
    /\ version \in {0} \cup Versions
    /\ Len(log) <= MaxMsgs
    /\ meters \in [{"in", "out"} -> [Kinds -> [packets : 0..MaxMsgs,
                                                traffic : 0..MaxMsgs * MaxSize]]]

\* The messages of the log in one direction whose reference meter is k.
Logged(dir, k) == {i \in 1..Len(log) : log[i].dir = dir /\ RefKind(log[i].code, version) = k}

\* On a metered stream, every meter counts exactly the messages, and their
\* bytes, that crossed the stream in its direction and are of its kind in
\* the peer's protocol version: a code btp/62 does not define is misc.
MetersMatchTraffic ==
    metered =>
      \A d \in {"in", "out"}, k \in Kinds :
        /\ meters[d][k].packets = Cardinality(Logged(d, k))
        /\ meters[d][k].traffic = SumFunctionOnSet([i \in Logged(d, k) |-> log[i].size], Logged(d, k))
==============================================================================
