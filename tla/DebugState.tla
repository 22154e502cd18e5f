------------------------------ MODULE DebugState -----------------------------
(***************************************************************************)
(* The state-inspection calls of PrivateDebugAPI (btp/api.go):             *)
(*   debug_storageRangeAt  storageRangeAt pages through a contract's       *)
(*                         storage trie from a start key, at most          *)
(*                         maxResult entries, and returns the key to       *)
(*                         continue from; a client follows NextKey until   *)
(*                         it is nil;                                      *)
(*   debug_getModifiedAccountsByNumber/ByHash  resolve two blocks and list *)
(*                         the accounts whose state differs, by iterating  *)
(*                         the difference of the two state tries.          *)
(* Trie keys are the hashed keys, totally ordered; an account state is     *)
(* Absent or one of a few values.                                          *)
(***************************************************************************)
EXTENDS Naturals, Sequences, FiniteSets, SequencesExt

CONSTANTS
    Keys,       \* hashed storage keys, ordered as the trie iterates them
    MaxResults, \* the maxResult arguments a client may pass
    Addrs,      \* account addresses
    Vals,       \* account states (nonce, balance, code hash, storage root)
    Absent,     \* no account at the address
    Nil,        \* a nil pointer: no NextKey, no end block
    Canon,      \* canonical block numbers 0..n
    Side        \* the id of a block off the canonical chain, at height 1 with parent 0

ASSUME Keys \subseteq Nat /\ MaxResults \subseteq Nat /\ Side \in Nat \ Canon

Blocks == Canon \cup {Side}

Number(b) == IF b = Side THEN 1 ELSE b

Parent(b) == IF b = Side THEN 0 ELSE b - 1

\* BlockChain.GetBlockByNumber / GetBlockByHash: Nil when there is none.
GetBlockByNumber(n) == IF n \in Canon THEN n ELSE Nil
GetBlockByHash(h) == IF h \in Blocks THEN h ELSE Nil

\* The lookup each of the two RPCs uses for its arguments.
GetBlock(byHash, x) == IF byHash THEN GetBlockByHash(x) ELSE GetBlockByNumber(x)

-----------------------------------------------------------------------------
(* storageRangeAt *)

\* The keys of st a trie iterator started at `start` visits, in order.
IterFrom(st, start) == SetToSortSeq({k \in st : k >= start}, <)

\* The loop `for i := 0; i < maxResult && it.Next(); i++`, iterator at
\* position pos of seq: the entries stored and the position reached.
RECURSIVE LoopSwapped(_, _, _, _, _)
LoopSwapped(seq, pos, i, max, acc) ==
    IF pos <= Len(seq) /\ i < max
      THEN LoopSwapped(seq, pos + 1, i + 1, max, acc \cup {seq[pos]})
    ELSE IF pos <= Len(seq)
      THEN [stored |-> acc, pos |-> pos + 1]
    ELSE [stored |-> acc, pos |-> pos]

RECURSIVE LoopShort(_, _, _, _, _)
LoopShort(seq, pos, i, max, acc) ==
    IF i < max - 1 /\ pos <= Len(seq)
      THEN LoopShort(seq, pos + 1, i + 1, max, acc \cup {seq[pos]})
      ELSE [stored |-> acc, pos |-> pos]

RECURSIVE Loop(_, _, _, _, _)
Loop(seq, pos, i, max, acc) ==
    IF i < max /\ pos <= Len(seq)
      THEN Loop(seq, pos + 1, i + 1, max, acc \cup {seq[pos]})
      ELSE [stored |-> acc, pos |-> pos]

StorageRangeExtraNext(st, start, max) ==
    LET seq == IterFrom(st, start)
        r == Loop(seq, 1, 0, max, {})
    IN [storage |-> r.stored,
        next |-> IF r.pos + 1 <= Len(seq) THEN seq[r.pos + 1] ELSE Nil]

\* After the loop, one more it.Next() gives NextKey.
storageRangeAt(st, start, max) ==
    LET seq == IterFrom(st, start)
        r == Loop(seq, 1, 0, max, {})
    IN [storage |-> r.stored,
        next |-> IF r.pos <= Len(seq) THEN seq[r.pos] ELSE Nil]

\* Reference: the max smallest keys at or after start, and the next one.
RangeRef(st, start, max) ==
    LET seq == IterFrom(st, start)
        n == IF max < Len(seq) THEN max ELSE Len(seq)
    IN [storage |-> {seq[i] : i \in 1..n},
        next |-> IF max < Len(seq) THEN seq[max + 1] ELSE Nil]

-----------------------------------------------------------------------------
(* getModifiedAccounts *)

\* trie.NewDifferenceIterator(old, new) walks the nodes of new that old
\* does not have: an account leaf is yielded when the new trie holds it and
\* the old trie holds no identical leaf.
DifferenceKeys(old, new) == {a \in Addrs : new[a] # Absent /\ new[a] # old[a]}

\* The result: an error, or the accounts the difference iterator yields.
Err == [err |-> TRUE, accounts |-> {}]

getModifiedAccounts(state, s, e) ==
    IF Number(s) >= Number(e) THEN Err
    ELSE [err |-> FALSE, accounts |-> DifferenceKeys(state[s], state[e])]

\* The blocks GetModifiedAccountsByNumber/ByHash resolve, << >> when one is
\* not found; with no end argument, the block against its parent.
ModifiedRange(byHash, x, y) ==
    LET sb == GetBlock(byHash, x) IN
    IF sb = Nil THEN << >>
    ELSE IF y = Nil
      THEN IF GetBlockByHash(Parent(sb)) = Nil THEN << >>
           ELSE <<GetBlockByHash(Parent(sb)), sb>>
    ELSE IF GetBlock(byHash, y) = Nil THEN << >>
    ELSE <<sb, GetBlock(byHash, y)>>

-----------------------------------------------------------------------------
VARIABLES
    st, maxResult,      \* the contract's storage keys and the client's page size
    pageStart,          \* the keyStart of the client's next call
    collected,          \* keys the client has received so far
    overlap,            \* some key was received twice
    pagerDone,          \* a call returned a nil NextKey
    lastRange,          \* [start, result] of the last storageRangeAt call
    state,              \* the account state of every block
    lastModified        \* [from, to, result] of the last modified-accounts call

vars == <<st, maxResult, pageStart, collected, overlap, pagerDone, lastRange,
          state, lastModified>>

Init ==
    /\ st \in SUBSET Keys
    /\ maxResult \in MaxResults
    /\ pageStart = 0
    /\ collected = {}
    /\ overlap = FALSE
    /\ pagerDone = FALSE
    /\ lastRange = Nil
    /\ state \in [Blocks -> [Addrs -> Vals \cup {Absent}]]
    /\ lastModified = Nil

\* The client calls debug_storageRangeAt from its current key and continues
\* from NextKey; the state it reads is fixed by block and transaction.
StorageRangeAt ==
    /\ ~pagerDone
    /\ LET r == storageRangeAt(st, pageStart, maxResult) IN
        /\ lastRange' = [start |-> pageStart, result |-> r]
        /\ collected' = collected \cup r.storage
        /\ overlap' = (overlap \/ r.storage \cap collected # {})
        /\ IF r.next = Nil
             THEN pagerDone' = TRUE /\ UNCHANGED pageStart
             ELSE pageStart' = r.next /\ UNCHANGED pagerDone
    /\ UNCHANGED <<st, maxResult, state, lastModified>>

\* debug_getModifiedAccountsByNumber(startNum, endNum) and ...ByHash: both
\* resolve the blocks, then call getModifiedAccounts. Past the height check,
\* trie.NewSecure fails on a root whose nodes are pruned, and a yielded key
\* with no recorded preimage ends the call with "no preimage found": either
\* is an error in place of the list.
GetModifiedAccounts(byHash, x, y) ==
    /\ LET pair == ModifiedRange(byHash, x, y) IN
        \/ pair = << >> /\ lastModified' = [from |-> x, to |-> y, result |-> Err]
        \/ pair # << >> /\ lastModified' = [from |-> pair[1], to |-> pair[2],
                            result |-> getModifiedAccounts(state, pair[1], pair[2])]
        \/ /\ pair # << >>
           /\ Number(pair[1]) < Number(pair[2])
           /\ lastModified' = [from |-> pair[1], to |-> pair[2], result |-> Err]
    /\ UNCHANGED <<st, maxResult, pageStart, collected, overlap, pagerDone,
                   lastRange, state>>

GetModifiedAccountsByNumber(x, y) == GetModifiedAccounts(FALSE, x, y)

GetModifiedAccountsByHash(x, y) == GetModifiedAccounts(TRUE, x, y)

\* The arguments a client may pass: existing and missing blocks, and nil.
Args == Blocks \cup {3}

Next ==
    \/ StorageRangeAt
    \/ \E x \in Args, y \in Args \cup {Nil} : GetModifiedAccountsByNumber(x, y)
    \/ \E x \in Args, y \in Args \cup {Nil} : GetModifiedAccountsByHash(x, y)

\* The RPC client keeps paging while it has a NextKey.
Spec == Init /\ [][Next]_vars /\ WF_vars(StorageRangeAt)

-----------------------------------------------------------------------------
(* Properties *)

\* Every storageRangeAt call returns the maxResult smallest keys at or after
\* its start and, as NextKey, the key after them (nil when none is left),
\* whatever the storage and the page size: the loop's short-circuit and the
\* trailing it.Next() agree with the reference.
RangeMatchesRef ==
    lastRange # Nil =>
        lastRange.result = RangeRef(st, lastRange.start, maxResult)

\* A client that follows NextKey from the empty key receives every key of
\* the storage exactly once: no key is skipped or repeated at a page boundary.
PagingExact ==
    /\ ~overlap
    /\ pagerDone => collected = st

\* Paging with a positive maxResult ends: NextKey always moves forward.
PagingTerminates == (maxResult > 0) => <>pagerDone
==============================================================================
