----------------------------- MODULE ImportSpec -----------------------------
(***************************************************************************)
(* What admin_importChain promises, without batches or decoding: the chain *)
(* only grows along the canonical chain (by the import or by anything else *)
(* that inserts blocks, such as the downloader); the call answers true     *)
(* only when every block of the file is in the chain and the file holds no *)
(* undecodable or invalid entry; it answers an error only when the file    *)
(* holds such an entry or does not connect to the chain.                   *)
(***************************************************************************)
EXTENDS Naturals, Sequences

CONSTANTS Files, Starts, MaxBlock

VARIABLES file, start, head, result

\* Every entry decodes to a valid block.
AllValid(f) == \A i \in 1..Len(f) : f[i] = "ok"

\* Every block of the file is in the chain.
AllIn(f, s, h) == \A i \in 1..Len(f) : s + i - 1 <= h

\* The file cannot be imported as it stands: some entry is undecodable or
\* invalid, or its first block's parent is not in the chain.
Broken(f, s, h) == ~AllValid(f) \/ s > h + 1

Init ==
    /\ file \in Files
    /\ start \in Starts
    /\ head \in 0..MaxBlock
    /\ result = "running"

\* The canonical chain grows; the result is unaffected.
Grow ==
    /\ head' \in head + 1..MaxBlock
    /\ UNCHANGED <<file, start, result>>

Succeed ==
    /\ result = "running"
    /\ AllValid(file)
    /\ AllIn(file, start, head)
    /\ result' = "ok"
    /\ UNCHANGED <<file, start, head>>

\* Failure may commit part of the file before it answers.
Fail ==
    /\ result = "running"
    /\ Broken(file, start, head)
    /\ head' \in head..MaxBlock
    /\ result' = "err"
    /\ UNCHANGED <<file, start>>

Next == Grow \/ Succeed \/ Fail

Spec == Init /\ [][Next]_<<file, start, head, result>>
==============================================================================
