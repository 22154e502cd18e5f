----------------------------- MODULE ExportChain -----------------------------
(***************************************************************************)
(* admin_exportChain (PrivateAdminAPI.ExportChain, btp/api.go): open the   *)
(* file, wrap it in a gzip.Writer when the name ends in ".gz", let the     *)
(* chain write blocks 0..N to the writer, return, and then run the         *)
(* deferred gzip Close and file Close. A gzip.Writer buffers compressed    *)
(* data and writes it to the file when its buffer fills and on Close; a    *)
(* write to the file may fail at any point (disk full). Blocks are counted,*)
(* not encoded: a file is complete when it holds all N+1 blocks and, for   *)
(* gzip, the trailer Close writes.                                         *)
(***************************************************************************)
EXTENDS Naturals, Sequences

CONSTANT N      \* the head block number: Export writes blocks 0..N

VARIABLES
    pc,         \* "open", "export", "closing", "closeOut", "done"
    gz,         \* the file name ends in ".gz"
    buffered,   \* blocks held in the gzip.Writer's buffer
    ondisk,     \* blocks that reached the file
    trailer,    \* the gzip stream was finished by Close
    ret         \* <<ok>> once ExportChain returned, << >> before

vars == <<pc, gz, buffered, ondisk, trailer, ret>>

\* Blocks Export has handed to the writer.
Written == buffered + ondisk

Init ==
    /\ pc = "open"
    /\ gz \in BOOLEAN
    /\ buffered = 0
    /\ ondisk = 0
    /\ trailer = FALSE
    /\ ret = << >>

\* os.OpenFile: an error returns (false, err) with nothing deferred yet.
Open ==
    /\ pc = "open"
    /\ \/ pc' = "done" /\ ret' = <<FALSE>>
       \/ pc' = "export" /\ UNCHANGED ret
    /\ UNCHANGED <<gz, buffered, ondisk, trailer>>

\* Export writes the next block: to the file directly, or into the gzip
\* buffer. A failed file write makes Export, and ExportChain, fail.
WriteBlock ==
    /\ pc = "export"
    /\ Written <= N
    /\ \/ /\ IF gz THEN buffered' = buffered + 1 /\ UNCHANGED ondisk
                   ELSE ondisk' = ondisk + 1 /\ UNCHANGED buffered
          /\ UNCHANGED <<pc, ret>>
       \/ ~gz /\ pc' = "closing" /\ ret' = <<FALSE>> /\ UNCHANGED <<buffered, ondisk>>
    /\ UNCHANGED <<gz, trailer>>

\* The gzip buffer fills during Export and is written to the file; the
\* error of a failed write is returned by the next Write, failing Export.
Spill ==
    /\ pc = "export"
    /\ gz /\ buffered > 0
    /\ \/ ondisk' = ondisk + buffered /\ buffered' = 0 /\ UNCHANGED <<pc, ret>>
       \/ pc' = "closing" /\ ret' = <<FALSE>> /\ UNCHANGED <<buffered, ondisk>>
    /\ UNCHANGED <<gz, trailer>>

\* Export returned nil: ExportChain returns (true, nil).
ExportDone ==
    /\ pc = "export"
    /\ Written = N + 1
    /\ pc' = "closing"
    /\ ret' = <<TRUE>>
    /\ UNCHANGED <<gz, buffered, ondisk, trailer>>

\* The deferred writer.(*gzip.Writer).Close(): flush the buffer and write
\* the trailer. Its error is discarded.
CloseGzip ==
    /\ pc = "closing"
    /\ gz
    /\ \/ ondisk' = ondisk + buffered /\ buffered' = 0 /\ trailer' = TRUE
       \/ UNCHANGED <<ondisk, buffered, trailer>>
    /\ pc' = "closeOut"
    /\ UNCHANGED <<gz, ret>>

\* The deferred out.Close().
CloseOut ==
    /\ \/ pc = "closeOut"
       \/ pc = "closing" /\ ~gz
    /\ pc' = "done"
    /\ UNCHANGED <<gz, buffered, ondisk, trailer, ret>>

Next == Open \/ WriteBlock \/ Spill \/ ExportDone \/ CloseGzip \/ CloseOut

Spec == Init /\ [][Next]_vars

-----------------------------------------------------------------------------
(* Properties *)

TypeOK ==
    /\ pc \in {"open", "export", "closing", "closeOut", "done"}
    /\ buffered \in 0..N+1 /\ ondisk \in 0..N+1
    /\ ret \in {<< >>, <<TRUE>>, <<FALSE>>}

\* When admin_exportChain has returned true and its deferred closes have
\* run, the file holds the whole chain and, compressed, a finished stream.
ExportedFileComplete ==
    pc = "done" /\ ret = <<TRUE>> => ondisk = N + 1 /\ (gz => trailer)
==============================================================================
