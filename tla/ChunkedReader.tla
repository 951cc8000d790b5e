---------------------------- MODULE ChunkedReader ----------------------------
(***************************************************************************)
(* STFCompressedIFstream and STFCompressedIFstreamSingleThreaded: reading  *)
(* a chunked, compressed trace.  The caller's thread hands out records     *)
(* from out_buf; with prefetch a std::async task reads and decompresses    *)
(* the next chunk into decompressed_buf at the same time.  The two share   *)
(* the FILE*, in_buf, last_read_pos and decompressed_buf.                  *)
(*                                                                         *)
(* A file position is a chunk number: position c is the first byte of      *)
(* chunk c, and the end of the last chunk is NumChunks(total).  A buffer   *)
(* is the chunk it holds (-1: none yet), its apparent size and its read    *)
(* pointer, both in markers; the non-marker records in front of a marker   *)
(* are read with it.                                                       *)
(***************************************************************************)
EXTENDS Chunks

CONSTANTS TraceLengths, \* numbers of markers of the files that can be opened
          Corrupt,      \* chunks whose decompression throws
          MaxSeek       \* bound on the distance of one seek

\* A file has a marker (open() refuses a zero "last chunk pointer"), and
\* open() itself decompresses chunk 0.
ASSUME ReaderAssumption ==
    /\ TraceLengths \subseteq Nat \ {0}
    /\ Corrupt \subseteq Nat \ {0}
    /\ MaxSeek \in Nat

VARIABLES
    prefetch,           \* STFCompressedIFstream, or the single-threaded one
    stream,             \* "closed" or "open": stream_ is null or not
    total,              \* markers in the open file
    num_marker_records, \* num_marker_records_
    next_chunk_end,     \* next_chunk_end_
    next_chunk_index,   \* next_chunk_index_it_ as an index
    out_buf,            \* out_buf_: the chunk being read
    decompressed_buf,   \* decompressed_buf_: the chunk being prefetched
    in_buf_rd,          \* in_buf_.getReadPos(): 0, or 1 for the whole chunk
    last_read_pos,      \* last_read_pos_
    file_pos,           \* ftell(stream_)
    in_progress,        \* decompression_in_progress_
    future,             \* decompress_result_ and the task behind it
    successful_read,    \* successful_read_
    delivered,          \* the marker the last read returned, -1 before the first
    requested,          \* the marker the last seek was asked for
    outcome,            \* how the last call ended
    threw               \* some call has thrown since open

file == <<prefetch, stream, total>>
cursor == <<num_marker_records, next_chunk_end, next_chunk_index, out_buf,
            successful_read>>
shared == <<in_buf_rd, last_read_pos, file_pos, decompressed_buf>>
task == <<in_progress, future>>
history == <<delivered, requested, outcome, threw>>
vars == <<file, cursor, shared, task, history>>

-----------------------------------------------------------------------------
(* Buffers. *)

NoBuffer == [chunk |-> -1, size |-> 0, rd |-> 0]
Filling(n) == [chunk |-> -1, size |-> n, rd |-> 0]
Holding(t, c) == [chunk |-> c, size |-> ChunkLen(t, c), rd |-> 0]
Advance(b, n) == [b EXCEPT !.rd = @ + n]
Consume(b) == [b EXCEPT !.rd = b.size]
Consumed(b) == b.rd = b.size

LastChunk == NumChunks(total) - 1
EndOfChunksOffByOne == last_read_pos + in_buf_rd > NumChunks(total)
ReachedEndOfChunks == last_read_pos + in_buf_rd >= NumChunks(total)

\* allInputConsumed_, and a variant that forgets the records left in out_buf.
OutBufForgotten == ReachedEndOfChunks /\ (prefetch => Consumed(decompressed_buf))
AllInputConsumed ==
    /\ ReachedEndOfChunks
    /\ Consumed(out_buf)
    /\ prefetch => Consumed(decompressed_buf)

-----------------------------------------------------------------------------
(* How a call ends. *)

\* An exception of the decompressor, std::future_error of a future that has
\* no state, and a read behind the decompressed data: the caller gives up
\* on the stream, only close() is left.
Fatal == {"bad_chunk", "no_state", "overrun"}

Usable == stream = "open" /\ outcome \notin Fatal

Succeed == outcome' = "ok" /\ UNCHANGED threw
Throw(what) == outcome' = what /\ threw' = TRUE

\* What the stream holds after a fatal outcome is not used any more, but for
\* what close() looks at.
GiveUp(what) ==
    /\ IF what = "overrun" THEN outcome' = what /\ UNCHANGED threw ELSE Throw(what)
    /\ UNCHANGED <<file, cursor, shared, delivered>>

\* decompress_result_.get() can return.
TaskDone == future \notin {"launched", "reading"}

\* A task that dies without completing its future: nobody wakes the caller.
FinishFailsLostException ==
    /\ in_progress
    /\ future = "none"
    /\ GiveUp("no_state")
    /\ UNCHANGED task

\* finishDecompression_ throws: get() rethrows the task's exception or finds
\* no state, and decompression_in_progress_ stays set.
FinishFails ==
    /\ in_progress
    /\ \/ future = "failed" /\ GiveUp("bad_chunk")
       \/ future = "none" /\ GiveUp("no_state")
    /\ future' = "none"
    /\ UNCHANGED in_progress

\* finishDecompression_ returns, with the buffers swapped if it waited; and
\* variants that do not wait and that do not swap.
FinishWithoutWaiting == TRUE
KeepOut(out) == out
FinishReturns == in_progress => future = "ready"
AfterFinish(out) == IF in_progress THEN decompressed_buf ELSE out
SwappedOut(out) == IF in_progress THEN out ELSE decompressed_buf

\* readNextChunk_ of STFCompressedIFstream in a file of t markers, where next
\* is next_chunk_index_it_ and buf is decompressed_buf_.
LaunchPrefetch(t, next, buf, flag) ==
    IF next = NumChunks(t)
    THEN /\ decompressed_buf' = Consume(buf)
         /\ next_chunk_index' = next
         /\ in_progress' = flag
         /\ future' = "none"
    ELSE /\ decompressed_buf' = buf
         /\ next_chunk_index' = next + 1
         /\ in_progress' = TRUE
         /\ future' = "launched"

\* readChunk_ on the caller's thread: everything from file_pos to the next
\* chunk is read and decompressed into out_buf.
ReadChunkSync(t, c, rd) ==
    /\ out_buf' = Advance(Holding(t, c), rd)
    /\ last_read_pos' = c
    /\ in_buf_rd' = 1
    /\ file_pos' = c + 1

-----------------------------------------------------------------------------
(* Opening and closing. *)

Init ==
    /\ prefetch \in BOOLEAN
    /\ stream = "closed"
    /\ total = 0
    /\ num_marker_records = 0
    /\ next_chunk_end = 0
    /\ next_chunk_index = 0
    /\ out_buf = NoBuffer
    /\ decompressed_buf = NoBuffer
    /\ in_buf_rd = 0
    /\ last_read_pos = 0
    /\ file_pos = 0
    /\ in_progress = FALSE
    /\ future = "none"
    /\ successful_read = FALSE
    /\ delivered = -1
    /\ requested = 0
    /\ outcome = "ok"
    /\ threw = FALSE

\* open() reads the header and the chunk index, decompresses chunk 0 and
\* launches chunk 1; the trace header in front of marker 0 is then read from
\* out_buf, which makes a successful read.
Open(t) ==
    /\ stream = "closed"
    /\ stream' = "open"
    /\ total' = t
    /\ next_chunk_end' = ChunkSize
    /\ ReadChunkSync(t, 0, 0)
    /\ successful_read' = TRUE
    /\ IF prefetch
       THEN LaunchPrefetch(t, 1, Filling(1), in_progress)
       ELSE /\ next_chunk_index' = 1
            /\ UNCHANGED <<decompressed_buf, task>>
    /\ delivered' = -1
    /\ requested' = 0
    /\ outcome' = "ok"
    /\ threw' = FALSE
    /\ UNCHANGED <<prefetch, num_marker_records>>

\* close_(): waits for a task in flight, but leaves decompression_in_progress_
\* as it is, then closes the file and zeroes the counter.
Close ==
    /\ stream = "open"
    /\ FinishReturns
    /\ stream' = "closed"
    /\ num_marker_records' = 0
    /\ future' = "none"
    /\ outcome' = "ok"
    /\ UNCHANGED <<prefetch, total, next_chunk_end, next_chunk_index, out_buf,
                   successful_read, shared, in_progress, delivered, requested, threw>>

\* get() throws out of close_(): the file stays open.
CloseFails ==
    /\ stream = "open"
    /\ FinishFails
    /\ UNCHANGED requested

-----------------------------------------------------------------------------
(* Reading the records up to and including the next marker. *)

ReadInChunk ==
    /\ Usable
    /\ ~Consumed(out_buf)
    /\ num_marker_records + 1 < next_chunk_end
    /\ out_buf' = Advance(out_buf, 1)
    /\ num_marker_records' = num_marker_records + 1
    /\ delivered' = ChunkStart(out_buf.chunk) + out_buf.rd
    /\ successful_read' = TRUE
    /\ Succeed
    /\ UNCHANGED <<file, next_chunk_end, next_chunk_index, shared, task, requested>>

\* markerRecordCallback at a chunk boundary of the prefetching stream.
ReadLastOfChunk ==
    /\ prefetch
    /\ Usable
    /\ ~Consumed(out_buf)
    /\ num_marker_records + 1 >= next_chunk_end
    /\ FinishReturns
    /\ out_buf' = AfterFinish(Advance(out_buf, 1))
    /\ LaunchPrefetch(total, next_chunk_index, SwappedOut(Advance(out_buf, 1)), FALSE)
    /\ num_marker_records' = num_marker_records + 1
    /\ next_chunk_end' = next_chunk_end + ChunkSize
    /\ delivered' = ChunkStart(out_buf.chunk) + out_buf.rd
    /\ successful_read' = TRUE
    /\ Succeed
    /\ UNCHANGED <<file, in_buf_rd, last_read_pos, file_pos, requested>>

\* The same callback of the synchronous stream, which reads the next chunk
\* there and then.
ReadLastOfChunkSync ==
    /\ ~prefetch
    /\ Usable
    /\ ~Consumed(out_buf)
    /\ num_marker_records + 1 >= next_chunk_end
    /\ next_chunk_index < NumChunks(total) => file_pos \notin Corrupt
    /\ IF next_chunk_index = NumChunks(total)
       THEN /\ out_buf' = Advance(out_buf, 1)
            /\ UNCHANGED <<next_chunk_index, in_buf_rd, last_read_pos, file_pos>>
       ELSE /\ ReadChunkSync(total, file_pos, 0)
            /\ next_chunk_index' = next_chunk_index + 1
    /\ num_marker_records' = num_marker_records + 1
    /\ next_chunk_end' = next_chunk_end + ChunkSize
    /\ delivered' = ChunkStart(out_buf.chunk) + out_buf.rd
    /\ successful_read' = TRUE
    /\ Succeed
    /\ UNCHANGED <<file, decompressed_buf, task, requested>>

ReadLastOfChunkFails ==
    /\ Usable
    /\ ~Consumed(out_buf)
    /\ num_marker_records + 1 >= next_chunk_end
    /\ \/ prefetch /\ FinishFails
       \/ /\ ~prefetch
          /\ next_chunk_index < NumChunks(total)
          /\ file_pos \in Corrupt
          /\ GiveUp("bad_chunk")
          /\ UNCHANGED task
    /\ UNCHANGED requested

\* checkIfReadIsPossible_ is false: the read returns nothing, feof_() holds
\* from then on and EOFException reaches the caller.
ReadAtEnd ==
    /\ Usable
    /\ AllInputConsumed
    /\ successful_read' = FALSE
    /\ outcome' = "eof"
    /\ UNCHANGED <<file, num_marker_records, next_chunk_end, next_chunk_index,
                   out_buf, shared, task, delivered, requested, threw>>

\* Nothing stops a read when out_buf is used up and the end is not reached.
ReadOverrun ==
    /\ Usable
    /\ Consumed(out_buf)
    /\ ~AllInputConsumed
    /\ GiveUp("overrun")
    /\ UNCHANGED <<task, requested>>

Read ==
    \/ ReadInChunk \/ ReadLastOfChunk \/ ReadLastOfChunkSync
    \/ ReadLastOfChunkFails \/ ReadAtEnd \/ ReadOverrun

-----------------------------------------------------------------------------
(* Seeking. *)

AtEof == AllInputConsumed /\ ~successful_read

\* Nothing more will come out of the buffers once out_buf is used up.
EndAhead == ReachedEndOfChunks /\ (prefetch => Consumed(decompressed_buf))

Left == out_buf.size - out_buf.rd

\* seek(n) to a marker before next_chunk_end reads its way there
\* (STFIFstream::seek, whose loop does not start when the end has been
\* reported already).
SeekWithin(n) ==
    /\ Usable
    /\ num_marker_records + n < next_chunk_end
    /\ n <= Left
    /\ out_buf' = Advance(out_buf, n)
    /\ num_marker_records' = num_marker_records + n
    /\ successful_read' = (n > 0 \/ successful_read)
    /\ requested' = num_marker_records + n
    /\ outcome' = IF n = 0 /\ AtEof THEN "eof" ELSE "ok"
    /\ UNCHANGED <<file, next_chunk_end, next_chunk_index, shared, task,
                   delivered, threw>>

SeekWithinAtEof(n) ==
    /\ Usable
    /\ num_marker_records + n < next_chunk_end
    /\ n > Left
    /\ AtEof
    /\ requested' = num_marker_records + n
    /\ outcome' = "eof"
    /\ UNCHANGED <<file, cursor, shared, task, delivered, threw>>

SeekWithinPastEnd(n) ==
    /\ Usable
    /\ num_marker_records + n < next_chunk_end
    /\ n > Left
    /\ EndAhead
    /\ ~AtEof
    /\ out_buf' = Consume(out_buf)
    /\ num_marker_records' = num_marker_records + Left
    /\ successful_read' = FALSE
    /\ requested' = num_marker_records + n
    /\ Throw("past_end")
    /\ UNCHANGED <<file, next_chunk_end, next_chunk_index, shared, task, delivered>>

SeekWithinOverrun(n) ==
    /\ Usable
    /\ num_marker_records + n < next_chunk_end
    /\ n > Left
    /\ ~EndAhead
    /\ requested' = num_marker_records + n
    /\ GiveUp("overrun")
    /\ UNCHANGED task

\* seekToChunk_(c) and the k markers to read from its start, after
\* cancelCurrentChunks_ has left buf in decompressed_buf_.
JumpTo(c, k, buf) ==
    LET len  == ChunkLen(total, c)
        read == IF k <= len THEN k ELSE len
    IN  /\ c \notin Corrupt
        /\ ReadChunkSync(total, c, read)
        /\ num_marker_records' = ChunkStart(c) + read
        /\ next_chunk_end' = ChunkStart(c) + ChunkSize
        /\ IF prefetch
           THEN LaunchPrefetch(total, c + 1, buf, FALSE)
           ELSE /\ next_chunk_index' = c + 1
                /\ UNCHANGED <<decompressed_buf, task>>
        /\ IF k <= len
           THEN Succeed /\ successful_read' = (k > 0 \/ successful_read)
           ELSE Throw("past_end") /\ successful_read' = FALSE
        /\ UNCHANGED <<file, delivered>>

\* seekToChunk_ of a chunk that does not decompress.
JumpFails(c) ==
    /\ c \in Corrupt
    /\ GiveUp("bad_chunk")
    /\ in_progress' = FALSE
    /\ future' = "none"

\* cancelCurrentChunks_ has thrown the current chunk away, and swapped in the
\* prefetched one, when seek() finds that there is no chunk to move to.
RefuseSeek ==
    /\ out_buf' = AfterFinish(Consume(out_buf))
    /\ decompressed_buf' = SwappedOut(Consume(out_buf))
    /\ in_progress' = FALSE
    /\ future' = "none"
    /\ in_buf_rd' = 0
    /\ Throw("past_end")
    /\ UNCHANGED <<file, num_marker_records, next_chunk_end, next_chunk_index,
                   successful_read, last_read_pos, file_pos, delivered>>

\* seek(n) to or past next_chunk_end.
SeekAcross(n) ==
    LET target == num_marker_records + n
        c      == target \div ChunkSize
    IN  /\ Usable
        /\ target >= next_chunk_end
        /\ requested' = target
        /\ \/ FinishFails
           \/ /\ FinishReturns
              /\ \/ c >= NumChunks(total) /\ RefuseSeek
                 \/ /\ c < NumChunks(total)
                    /\ \/ JumpTo(c, target % ChunkSize, SwappedOut(Consume(out_buf)))
                       \/ JumpFails(c)

Rewind ==
    /\ Usable
    /\ requested' = 0
    /\ \/ FinishFails
       \/ FinishReturns /\ JumpTo(0, 0, SwappedOut(Consume(out_buf)))

\* seekFromOffset(_, at, n) with the rest of the way inside the chunk of at.
SeekFromOffsetNear(at, n) ==
    LET c == at \div ChunkSize
        k == (at % ChunkSize) + n
    IN  /\ Usable
        /\ k < ChunkSize
        /\ requested' = at + n
        /\ \/ FinishFails
           \/ /\ FinishReturns
              /\ \/ JumpTo(c, k, SwappedOut(Consume(out_buf)))
                 \/ JumpFails(c)

\* There is no chunk for the far end of seekFromOffset: chunk c was loaded and
\* thrown away again, with the prefetched chunk c + 1 swapped in if there is one.
SeekFromOffsetRefused(c, prefetched) ==
    /\ num_marker_records' = ChunkStart(c)
    /\ next_chunk_end' = ChunkStart(c) + ChunkSize
    /\ out_buf' = IF prefetched THEN Holding(total, c + 1) ELSE Consume(Holding(total, c))
    /\ decompressed_buf' = IF prefetched THEN Consume(Holding(total, c))
                           ELSE IF prefetch THEN Consume(SwappedOut(out_buf))
                           ELSE decompressed_buf
    /\ next_chunk_index' = IF prefetched THEN c + 2 ELSE c + 1
    /\ last_read_pos' = IF prefetched THEN c + 1 ELSE c
    /\ file_pos' = IF prefetched THEN c + 2 ELSE c + 1
    /\ in_buf_rd' = 0
    /\ in_progress' = FALSE
    /\ future' = "none"
    /\ Throw("past_end")
    /\ UNCHANGED <<file, successful_read, delivered>>

\* The rest of the way leaves that chunk: seekFromOffset loads the chunk of
\* at, which launches the prefetch of the next one, and calls seek(), which
\* waits for that prefetch, throws both away and moves on.  Nobody sees the
\* state in between.
SeekFromOffsetFar(at, n) ==
    LET c == at \div ChunkSize
        k == (at % ChunkSize) + n
        d == (at + n) \div ChunkSize
        prefetched == prefetch /\ c + 1 < NumChunks(total)
    IN  /\ Usable
        /\ k >= ChunkSize
        /\ requested' = at + n
        /\ \/ FinishFails
           \/ FinishReturns /\ JumpFails(c)
           \/ /\ FinishReturns /\ c \notin Corrupt
              /\ prefetched /\ c + 1 \in Corrupt
              /\ GiveUp("bad_chunk")
              /\ in_progress' = TRUE
              /\ future' = "none"
           \/ /\ FinishReturns /\ c \notin Corrupt
              /\ prefetched => c + 1 \notin Corrupt
              /\ d < NumChunks(total)
              /\ \/ JumpTo(d, (at + n) % ChunkSize, Consume(Holding(total, c)))
                 \/ JumpFails(d)
           \/ /\ FinishReturns /\ c \notin Corrupt
              /\ prefetched => c + 1 \notin Corrupt
              /\ d >= NumChunks(total)
              /\ SeekFromOffsetRefused(c, prefetched)

SeekFromOffset(at, n) == SeekFromOffsetNear(at, n) \/ SeekFromOffsetFar(at, n)

Seek(n) ==
    \/ SeekWithin(n) \/ SeekWithinAtEof(n) \/ SeekWithinPastEnd(n)
    \/ SeekWithinOverrun(n) \/ SeekAcross(n)

-----------------------------------------------------------------------------
(* The task behind decompress_result_. *)

\* readChunk_ up to the end of the file read.
TaskRead ==
    /\ future = "launched"
    /\ future' = "reading"
    /\ decompressed_buf' = Filling(ChunkLen(total, next_chunk_index - 1))
    /\ in_buf_rd' = 0
    /\ last_read_pos' = file_pos
    /\ file_pos' = next_chunk_index
    /\ UNCHANGED <<file, cursor, in_progress, history>>

\* The rest of readChunk_.
TaskDecompress ==
    /\ future = "reading"
    /\ IF last_read_pos \in Corrupt
       THEN future' = "failed" /\ UNCHANGED <<decompressed_buf, in_buf_rd>>
       ELSE /\ future' = "ready"
            /\ decompressed_buf' = Holding(total, last_read_pos)
            /\ in_buf_rd' = 1
    /\ UNCHANGED <<file, cursor, last_read_pos, file_pos, in_progress, history>>

Task == TaskRead \/ TaskDecompress

-----------------------------------------------------------------------------

\* The offsets handed to seekFromOffset are those of markers of the trace.
Move ==
    \/ Rewind
    \/ \E n \in 0..MaxSeek : Seek(n)
    \/ \E at \in 0..(total - 1), n \in 0..MaxSeek : SeekFromOffset(at, n)

Next ==
    \/ \E t \in TraceLengths : Open(t)
    \/ Close \/ CloseFails
    \/ Read
    \/ Move
    \/ Task

\* The task is a thread of its own, which nothing in the process stops.
Spec == Init /\ [][Next]_vars /\ WF_vars(Task)

-----------------------------------------------------------------------------
(* Properties. *)

Buffers == [chunk : Nat \cup {-1}, size : Nat, rd : Nat]

TypeOK ==
    /\ prefetch \in BOOLEAN
    /\ stream \in {"closed", "open"}
    /\ total \in Nat
    /\ num_marker_records \in Nat
    /\ next_chunk_end \in Nat
    /\ next_chunk_index \in Nat
    /\ out_buf \in Buffers
    /\ decompressed_buf \in Buffers
    /\ in_buf_rd \in {0, 1}
    /\ last_read_pos \in Nat
    /\ file_pos \in Nat
    /\ in_progress \in BOOLEAN
    /\ future \in {"none", "launched", "reading", "ready", "failed"}
    /\ successful_read \in BOOLEAN
    /\ delivered \in Nat \cup {-1}
    /\ requested \in Nat
    /\ outcome \in {"ok", "eof", "past_end", "bad_chunk", "no_state", "overrun"}
    /\ threw \in BOOLEAN

\* The stream is open and every call so far has returned.
Sound == Usable /\ ~threw

\* getNumMarkerRecords() is the position in the trace of the next record that
\* will be read: after any mixture of reads, seeks inside a chunk and across
\* chunks and rewinds, with any progress of the prefetch, the counter and
\* the buffers (which markerRecordCallback, seek and seekToChunk_ update
\* separately) agree, and out_buf is used up only at the end of the trace.
PositionCoherent ==
    Sound =>
        /\ out_buf.chunk \in 0..LastChunk
        /\ out_buf.size = ChunkLen(total, out_buf.chunk)
        /\ num_marker_records = ChunkStart(out_buf.chunk) + out_buf.rd
        /\ Consumed(out_buf) => num_marker_records = total

\* fread_* copies from out_buf without looking at its size.  What keeps it
\* inside is that allInputConsumed_ is true whenever out_buf is used up: as
\* long as no call has thrown, no read runs off the decompressed data.
NeverOverruns == outcome = "overrun" => threw

\* allInputConsumed_ reads last_read_pos_, in_buf_ and decompressed_buf_ on
\* the caller's thread without waiting for the task that writes them.  Its
\* value never depends on them while the task runs, because out_buf is not
\* used up then.
EofTestRaceFree ==
    Sound /\ ~TaskDone => ~Consumed(out_buf)

\* While the task runs, the FILE*, in_buf_, last_read_pos_ and
\* decompressed_buf_ are its own: no step of the caller touches them, and no
\* call, not even close_(), leaves a running task behind.
TaskOwnsShared == [][~TaskDone => Task \/ UNCHANGED <<shared, future>>]_vars

\* The stream is a cursor over the trace (TraceStream), whatever the prefetch
\* does meanwhile.
Stream == INSTANCE TraceStream WITH
    opened <- stream = "open",
    pos <- num_marker_records,
    broken <- threw

ImplementsTraceStream == Stream!Spec

\* From some point on the program only reads, and goes on reading.
OnlyReads == <>[][Read \/ Task]_vars /\ WF_vars(Read)

\* Reading on is never stuck on the prefetch: wherever the program starts to
\* read, it comes to the end of the trace or to an exception that says why not.
ReadingEnds == OnlyReads => <>[](stream = "closed" \/ outcome \in {"eof"} \cup Fatal)

=============================================================================
