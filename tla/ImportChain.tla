----------------------------- MODULE ImportChain ----------------------------
(***************************************************************************)
(* PrivateAdminAPI.ImportChain (btp/api.go): blocks are decoded from a     *)
(* file into a buffer of at most Batch blocks; a batch whose blocks are    *)
(* all known already is dropped, any other is handed to InsertChain. A     *)
(* decode error or an insert error ends the call with an error; the end    *)
(* of the file with an empty buffer ends it with success. Beside it the    *)
(* downloader keeps extending the canonical chain.                         *)
(*                                                                         *)
(* The file is a sequence of entries: "ok" is the canonical block of its   *)
(* height, "bad" a block of that height that fails validation, "junk" an   *)
(* entry that does not decode. Entry i holds block start + i - 1.          *)
(***************************************************************************)
EXTENDS Naturals, Sequences

CONSTANTS
    Files,      \* the files that may be imported
    Starts,     \* the number of the first block of the file
    Batch,      \* the buffer's capacity (2500 in the code)
    MaxBlock    \* bound on the canonical chain

VARIABLES
    file, start,    \* the file being imported
    head,           \* the canonical chain is blocks 1..head
    pos,            \* the next entry the rlp stream decodes
    blocks,         \* the decoded batch: records [n, valid]
    index,          \* blocks decoded so far (the parse error reports it)
    batch,          \* the loop's batch counter (the insert error reports it)
    phase,          \* "load", "check", "insert" or "done"
    result,         \* "running", "ok" or "err"
    errAt,          \* the number the error message reports
    errKind         \* "none", "parse" (block %d) or "insert" (batch %d)

vars == <<file, start, head, pos, blocks, index, batch, phase, result, errAt, errKind>>

Block == [n : 1..MaxBlock + 3, valid : BOOLEAN]

TypeOK ==
    /\ head \in 0..MaxBlock
    /\ pos \in 1..Len(file) + 1
    /\ blocks \in Seq(Block) /\ Len(blocks) <= Batch
    /\ index \in 0..Len(file)
    /\ batch \in Nat
    /\ phase \in {"load", "check", "insert", "done"}
    /\ result \in {"running", "ok", "err"}
    /\ errAt \in Nat
    /\ errKind \in {"none", "parse", "insert"}

\* hasAllBlocks: every block of the batch is in the chain. Only canonical
\* blocks are ever inserted, so a block is known iff it is valid and at or
\* below the head.
Known(b, h) == b.valid /\ b.n <= h

hasFirstBlock(bs, h) == Known(bs[1], h)

hasAllBlocks(bs, h) == \A i \in 1..Len(bs) : Known(bs[i], h)

(***************************************************************************)
(* BlockChain.InsertChain as spec.md 4.4 gives it: blocks in order, known  *)
(* blocks skipped, the first block whose parent is missing or that fails   *)
(* validation stops it with an error; the blocks before it are committed. *)
(***************************************************************************)
RECURSIVE InsertFrom(_, _, _)
InsertFrom(bs, i, h) ==
    IF i > Len(bs) THEN [head |-> h, failed |-> FALSE]
    ELSE IF Known(bs[i], h) THEN InsertFrom(bs, i + 1, h)
    ELSE IF bs[i].n > h + 1 \/ ~bs[i].valid THEN [head |-> h, failed |-> TRUE]
    ELSE InsertFrom(bs, i + 1, bs[i].n)

InsertChain(bs, h) == InsertFrom(bs, 1, h)

Init ==
    /\ file \in Files
    /\ start \in Starts
    /\ head \in 0..MaxBlock
    /\ pos = 1
    /\ blocks = <<>>
    /\ index = 0
    /\ batch = 0
    /\ phase = "load"
    /\ result = "running"
    /\ errAt = 0
    /\ errKind = "none"

DecodeOffByOne ==
    /\ phase = "load"
    /\ Len(blocks) <= Batch
    /\ pos <= Len(file)
    /\ IF file[pos] = "junk"
         THEN /\ result' = "err" /\ errAt' = index /\ errKind' = "parse"
              /\ phase' = "done"
              /\ UNCHANGED <<blocks, index, pos>>
         ELSE /\ blocks' = Append(blocks, [n |-> start + pos - 1,
                                           valid |-> file[pos] = "ok"])
              /\ index' = index + 1
              /\ pos' = pos + 1
              /\ phase' = IF Len(blocks) = Batch THEN "check" ELSE "load"
              /\ UNCHANGED <<result, errAt, errKind>>
    /\ UNCHANGED <<file, start, head, batch>>

\* stream.Decode of one entry while the buffer has room.
Decode ==
    /\ phase = "load"
    /\ Len(blocks) < Batch
    /\ pos <= Len(file)
    /\ IF file[pos] = "junk"
         THEN /\ result' = "err"
              /\ errAt' = index
              /\ errKind' = "parse"
              /\ phase' = "done"
              /\ UNCHANGED <<blocks, index, pos>>
         ELSE /\ blocks' = Append(blocks, [n |-> start + pos - 1,
                                           valid |-> file[pos] = "ok"])
              /\ index' = index + 1
              /\ pos' = pos + 1
              /\ phase' = IF Len(blocks) + 1 = Batch THEN "check" ELSE "load"
              /\ UNCHANGED <<result, errAt, errKind>>
    /\ UNCHANGED <<file, start, head, batch>>

\* stream.Decode returns io.EOF: the inner loop breaks.
DecodeEOF ==
    /\ phase = "load"
    /\ Len(blocks) < Batch
    /\ pos > Len(file)
    /\ phase' = "check"
    /\ UNCHANGED <<file, start, head, pos, blocks, index, batch, result, errAt, errKind>>

\* An empty buffer ends the loop; a batch already in the chain is dropped
\* and the loop continues with the next batch.
CheckBatchNoCount ==
    /\ phase = "check"
    /\ IF blocks = <<>>
         THEN /\ result' = "ok" /\ phase' = "done"
              /\ UNCHANGED <<blocks, batch>>
         ELSE IF hasAllBlocks(blocks, head)
         THEN /\ blocks' = <<>> /\ phase' = "load"
              /\ UNCHANGED <<result, batch>>
         ELSE /\ phase' = "insert"
              /\ UNCHANGED <<blocks, result, batch>>
    /\ UNCHANGED <<file, start, head, pos, index, errAt, errKind>>

CheckBatchNoReset ==
    /\ phase = "check"
    /\ IF blocks = <<>>
         THEN /\ result' = "ok" /\ phase' = "done"
              /\ UNCHANGED batch
         ELSE IF hasAllBlocks(blocks, head)
         THEN /\ batch' = batch + 1 /\ phase' = "load"
         ELSE /\ phase' = "insert"
              /\ UNCHANGED batch
    /\ UNCHANGED <<file, start, head, pos, blocks, index, errAt, errKind, result>>

CheckBatch ==
    /\ phase = "check"
    /\ IF blocks = <<>>
         THEN /\ result' = "ok" /\ phase' = "done"
              /\ UNCHANGED <<blocks, batch>>
         ELSE IF hasAllBlocks(blocks, head)
         THEN /\ blocks' = <<>> /\ batch' = batch + 1 /\ phase' = "load"
              /\ UNCHANGED result
         ELSE /\ phase' = "insert"
              /\ UNCHANGED <<blocks, result, batch>>
    /\ UNCHANGED <<file, start, head, pos, index, errAt, errKind>>

\* InsertChain of the batch, then the buffer is reset; an error ends the call.
InsertBatch ==
    /\ phase = "insert"
    /\ LET r == InsertChain(blocks, head) IN
        /\ head' = r.head
        /\ IF r.failed
             THEN /\ result' = "err" /\ errAt' = batch /\ errKind' = "insert"
                  /\ phase' = "done"
                  /\ UNCHANGED <<blocks, batch>>
             ELSE /\ blocks' = <<>> /\ batch' = batch + 1 /\ phase' = "load"
                  /\ UNCHANGED <<result, errAt, errKind>>
    /\ UNCHANGED <<file, start, pos, index>>

\* The downloader inserts the next canonical block.
Sync ==
    /\ head < MaxBlock
    /\ head' = head + 1
    /\ UNCHANGED <<file, start, pos, blocks, index, batch, phase, result, errAt, errKind>>

Import == Decode \/ DecodeEOF \/ CheckBatch \/ InsertBatch

Next == Import \/ Sync

\* The RPC goroutine is always scheduled again while it can run.
Spec == Init /\ [][Next]_vars /\ WF_vars(Import)
-----------------------------------------------------------------------------
(* Properties *)

Abs == INSTANCE ImportSpec

\* ImportChain implements what it promises (ImportSpec): success only when
\* the whole file is valid and in the chain, an error only for a file with a
\* bad or undecodable entry or one that does not connect, and the chain only
\* ever grows along the canonical chain, also while the downloader runs.
ImportRefines == Abs!Spec

\* The call returns: every file ends in success or an error, whatever the
\* downloader does meanwhile.
Terminates == <>(result # "running")

\* The error names the culprit: a parse error reports the number of blocks
\* before the first undecodable entry, an insert error the number of the
\* batch (counting batches skipped as known) whose blocks failed.
ErrorLocated ==
    /\ errKind = "parse" =>
         /\ file[errAt + 1] = "junk"
         /\ \A j \in 1..errAt : file[j] # "junk"
    /\ errKind = "insert" => blocks[1].n = start + errAt * Batch
==============================================================================
