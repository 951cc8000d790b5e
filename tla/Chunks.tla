------------------------------- MODULE Chunks -------------------------------
(***************************************************************************)
(* Chunk arithmetic of a compressed trace (ZSTF).  A trace is a sequence   *)
(* of marker records (opcode records, or transaction records), each        *)
(* preceded by its non-marker records; a file stores it as chunks of       *)
(* ChunkSize markers, the last chunk possibly shorter.  A chunk always     *)
(* ends with a marker record, so a position in the trace is a number of    *)
(* markers and a chunk a range of them.  Shared by the writer that cuts    *)
(* the chunks and the reader that seeks by them.                           *)
(***************************************************************************)
EXTENDS Integers

CONSTANT ChunkSize \* marker_record_chunk_size_: marker records per chunk

\* The reader refuses a file whose chunk size is 0 (open()).
ASSUME ChunkSizeAssumption == ChunkSize \in Nat \ {0}

\* chunk_indices_.size() of a file with t marker records.
NumChunks(t) == (t + ChunkSize - 1) \div ChunkSize

\* The number of markers before chunk c; and a variant that counts chunks
\* from 1.
ChunkStartFromOne(c) == (c - 1) * ChunkSize
ChunkStart(c) == c * ChunkSize

\* The number of markers in chunk c of a file with t of them.
ChunkLen(t, c) ==
    IF ChunkStart(c + 1) <= t THEN ChunkSize ELSE t - ChunkStart(c)

=============================================================================
