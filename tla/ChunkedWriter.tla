---------------------------- MODULE ChunkedWriter ----------------------------
(***************************************************************************)
(* STFCompressedOFstream: writing a chunked, compressed trace.  The        *)
(* caller's thread appends records to cur_chunk_buf; at every ChunkSize'th *)
(* marker record it swaps the buffer with compression_chunk_buf and starts *)
(* a std::async task that compresses the chunk, writes it over the chunk   *)
(* index at the end of the file, writes the index again behind it and      *)
(* then the position of the index into the header.                         *)
(*                                                                         *)
(* Markers are numbered in the order they are written, so the content of   *)
(* a buffer or of a chunk is an interval [from, to) of numbers, and the    *)
(* number of a marker stands for its PC.  A file position is the number of *)
(* chunks in front of it; the header holds 0 until a chunk is finished.    *)
(* Stdio hands the writes to the system late but in order, so that what a  *)
(* killed process leaves behind is the file of some earlier step.          *)
(***************************************************************************)
EXTENDS Chunks, Sequences

CONSTANT MaxMarkers \* bound on the markers written

ASSUME WriterAssumption == MaxMarkers \in Nat

VARIABLES
    alive,                 \* the process has not been killed
    stream,                \* "new", "open", "closing" in close_(), or "closed"
    written,               \* markers written so far
    num_marker_records,    \* num_marker_records_
    next_chunk_end,        \* next_chunk_end_
    pending_chunk,         \* pending_chunk_
    incomplete_chunk,      \* incomplete_chunk_
    cur_chunk_buf,         \* cur_chunk_buf_
    compression_chunk_buf, \* compression_chunk_buf_
    out_buf,               \* out_buf_
    bytes_written,         \* bytes_written_, in markers
    chunk_indices,         \* chunk_indices_
    in_progress,           \* compression_in_progress_
    task,                  \* how far the task behind compression_done_ is
    next_chunk_pc,         \* the task's argument
    disk                   \* the file

caller == <<stream, written, num_marker_records, next_chunk_end,
            pending_chunk, incomplete_chunk, cur_chunk_buf, in_progress>>
owned == <<compression_chunk_buf, out_buf, bytes_written, chunk_indices, disk>>
vars == <<alive, caller, owned, task, next_chunk_pc>>

-----------------------------------------------------------------------------
(* Buffers, the file, the index. *)

NoMarkers == [from |-> 0, to |-> 0]
Count(b) == b.to - b.from

\* fwrite_ of marker m; and a variant that loses what the buffer holds.
PutOnly(b, m) == [from |-> m, to |-> m + 1]
Put(b, m) == [from |-> IF Count(b) = 0 THEN m ELSE b.from, to |-> m + 1]

\* The file after open(), with the placeholder 0 for the end of the last chunk.
NewFile == [chunks |-> <<>>, index_at |-> 0, index |-> <<>>, end |-> 0]

\* ChunkOffset(offset, start_pc, uncompressed size).
Entry(offset, pc, size) == [offset |-> offset, pc |-> pc, size |-> size]

\* get() returns.
TaskDone == task \in {"none", "done"}

\* compressChunk_ after the wait, with buf as cur_chunk_buf_ and pc the next PC;
\* and a variant that takes the PC of the marker just written.
StartChunkLastPc(buf, pc) ==
    /\ pending_chunk' = FALSE
    /\ in_progress' = TRUE
    /\ cur_chunk_buf' = compression_chunk_buf
    /\ compression_chunk_buf' = buf
    /\ next_chunk_pc' = pc - 1
    /\ task' = "launched"
StartChunk(buf, pc) ==
    /\ pending_chunk' = FALSE
    /\ in_progress' = TRUE
    /\ cur_chunk_buf' = compression_chunk_buf
    /\ compression_chunk_buf' = buf
    /\ next_chunk_pc' = pc
    /\ task' = "launched"

\* The end of the last chunk, where endChunk_ puts the index; and a variant
\* that calls ftell() before the chunk is written.
BeforeChunk == Len(disk.chunks) - 1
AfterChunk == Len(disk.chunks)

\* The wait at the head of compressChunk_; and variants that do not wait or
\* wait for the flag which the caller alone resets.
NoWait == TRUE
WaitForFlag == ~in_progress
Waited == in_progress => TaskDone

-----------------------------------------------------------------------------
(* The caller. *)

Init ==
    /\ alive = TRUE
    /\ stream = "new"
    /\ written = 0
    /\ num_marker_records = 0
    /\ next_chunk_end = 0
    /\ pending_chunk = FALSE
    /\ incomplete_chunk = FALSE
    /\ cur_chunk_buf = NoMarkers
    /\ compression_chunk_buf = NoMarkers
    /\ out_buf = NoMarkers
    /\ bytes_written = 0
    /\ chunk_indices = <<>>
    /\ in_progress = FALSE
    /\ task = "none"
    /\ next_chunk_pc = 0
    /\ disk = NewFile

\* open(), once for a stream object: STFWriterBase makes a new one for every
\* file.
Open ==
    /\ alive
    /\ stream = "new"
    /\ stream' = "open"
    /\ next_chunk_end' = ChunkSize
    /\ chunk_indices' = Append(chunk_indices, Entry(0, 0, 0))
    /\ disk' = NewFile
    /\ UNCHANGED <<alive, written, num_marker_records, pending_chunk,
                   incomplete_chunk, cur_chunk_buf, compression_chunk_buf,
                   out_buf, bytes_written, in_progress, task, next_chunk_pc>>

\* A record that is no marker goes into the buffer, in front of its marker.
WriteOther ==
    /\ alive
    /\ stream = "open"
    /\ written < MaxMarkers
    /\ pending_chunk' = TRUE
    /\ incomplete_chunk' = TRUE
    /\ UNCHANGED <<alive, stream, written, num_marker_records,
                   next_chunk_end, cur_chunk_buf, in_progress, owned, task,
                   next_chunk_pc>>

\* fwrite_ of a marker record and its markerRecordCallback.
WriteMarker ==
    /\ alive
    /\ stream = "open"
    /\ written < MaxMarkers
    /\ num_marker_records + 1 < next_chunk_end
    /\ written' = written + 1
    /\ num_marker_records' = num_marker_records + 1
    /\ pending_chunk' = TRUE
    /\ incomplete_chunk' = FALSE
    /\ cur_chunk_buf' = Put(cur_chunk_buf, written)
    /\ UNCHANGED <<alive, stream, next_chunk_end, in_progress,
                   owned, task, next_chunk_pc>>

\* The callback at the end of a chunk.
WriteMarkerEndingChunk ==
    /\ alive
    /\ stream = "open"
    /\ written < MaxMarkers
    /\ num_marker_records + 1 >= next_chunk_end
    /\ Waited
    /\ written' = written + 1
    /\ num_marker_records' = num_marker_records + 1
    /\ incomplete_chunk' = FALSE
    /\ StartChunk(Put(cur_chunk_buf, written), written + 1)
    /\ next_chunk_end' = next_chunk_end + ChunkSize
    /\ UNCHANGED <<alive, stream, out_buf, bytes_written,
                   chunk_indices, disk>>

\* close_() starts on the pending chunk; it drops one that does not end with a
\* marker.
CloseBegins ==
    /\ alive
    /\ stream = "open"
    /\ stream' = "closing"
    /\ IF pending_chunk /\ ~incomplete_chunk
       THEN Waited /\ StartChunk(cur_chunk_buf, written)
       ELSE UNCHANGED <<pending_chunk, in_progress, cur_chunk_buf,
                        compression_chunk_buf, task, next_chunk_pc>>
    /\ UNCHANGED <<alive, written, num_marker_records,
                   next_chunk_end, incomplete_chunk, out_buf, bytes_written,
                   chunk_indices, disk>>

\* It waits for the task and closes the file.
CloseEnds ==
    /\ alive
    /\ stream = "closing"
    /\ Waited
    /\ stream' = "closed"
    /\ in_progress' = FALSE
    /\ task' = "none"
    /\ num_marker_records' = 0
    /\ UNCHANGED <<alive, written, next_chunk_end, pending_chunk,
                   incomplete_chunk, cur_chunk_buf, owned, next_chunk_pc>>

-----------------------------------------------------------------------------
(* The task: compressChunkAsync_. *)

\* compress() empties the buffer it reads.
Compress ==
    /\ alive
    /\ task = "launched"
    /\ out_buf' = compression_chunk_buf
    /\ compression_chunk_buf' = NoMarkers
    /\ bytes_written' = bytes_written + Count(compression_chunk_buf)
    /\ task' = "compressed"
    /\ UNCHANGED <<alive, caller, chunk_indices, disk, next_chunk_pc>>

\* endChunk_ has masked the signals of its thread; the chunk is written where
\* the index is.
WriteChunk ==
    /\ alive
    /\ task = "compressed"
    /\ disk' = [disk EXCEPT !.chunks = Append(@, out_buf), !.index_at = 0]
    /\ out_buf' = NoMarkers
    /\ task' = "payload"
    /\ UNCHANGED <<alive, caller, compression_chunk_buf, bytes_written,
                   chunk_indices, next_chunk_pc>>

\* The size of the chunk is filled in and the index written behind the chunk.
WriteIndex ==
    /\ alive
    /\ task = "payload"
    /\ chunk_indices' =
           [chunk_indices EXCEPT ![Len(chunk_indices)].size = bytes_written]
    /\ bytes_written' = 0
    /\ disk' = [disk EXCEPT !.index_at = Len(disk.chunks), !.index = chunk_indices']
    /\ task' = "index"
    /\ UNCHANGED <<alive, caller, compression_chunk_buf, out_buf, next_chunk_pc>>

\* The header gets the position of the index.
WriteHeader ==
    /\ alive
    /\ task = "index"
    /\ disk' = [disk EXCEPT !.end = AfterChunk]
    /\ task' = "header"
    /\ UNCHANGED <<alive, caller, compression_chunk_buf, out_buf, bytes_written,
                   chunk_indices, next_chunk_pc>>

\* The signals are unmasked and the next chunk begins.
BeginNextChunk ==
    /\ alive
    /\ task = "header"
    /\ chunk_indices' =
           Append(chunk_indices, Entry(AfterChunk, next_chunk_pc, 0))
    /\ task' = "done"
    /\ UNCHANGED <<alive, caller, compression_chunk_buf, out_buf, bytes_written,
                   disk, next_chunk_pc>>

Task == Compress \/ WriteChunk \/ WriteIndex \/ WriteHeader \/ BeginNextChunk

\* endChunk_ is between its two calls of pthread_sigmask.
EndingChunk == task \in {"payload", "index", "header"}

\* A signal that ends the process is delivered to a thread that has not
\* blocked it: pthread_sigmask blocks it in the thread of the task only.
Blocked(thread) == thread = "task" /\ EndingChunk
Threads == IF TaskDone THEN {"caller"} ELSE {"caller", "task"}

Kill ==
    /\ alive
    /\ \E thread \in Threads : ~Blocked(thread)
    /\ alive' = FALSE
    /\ UNCHANGED <<caller, owned, task, next_chunk_pc>>

Next ==
    \/ Open \/ WriteOther \/ WriteMarker \/ WriteMarkerEndingChunk
    \/ CloseBegins \/ CloseEnds
    \/ Task
    \/ Kill

\* The task is a thread of its own, and a caller inside close_() goes on as
\* soon as the task lets it.
Spec == Init /\ [][Next]_vars /\ WF_vars(Task) /\ WF_vars(CloseEnds)

-----------------------------------------------------------------------------
(* Properties. *)

Intervals == {b \in [from : Nat, to : Nat] : b.from <= b.to}
Entries == [offset : Nat, pc : Nat, size : Nat]

TypeOK ==
    /\ alive \in BOOLEAN
    /\ stream \in {"new", "open", "closing", "closed"}
    /\ written \in Nat
    /\ num_marker_records \in Nat
    /\ next_chunk_end \in Nat
    /\ pending_chunk \in BOOLEAN
    /\ incomplete_chunk \in BOOLEAN
    /\ cur_chunk_buf \in Intervals
    /\ compression_chunk_buf \in Intervals
    /\ out_buf \in Intervals
    /\ bytes_written \in Nat
    /\ chunk_indices \in Seq(Entries)
    /\ in_progress \in BOOLEAN
    /\ task \in {"none", "launched", "compressed", "payload", "index", "header", "done"}
    /\ next_chunk_pc \in Nat
    /\ disk \in [chunks : Seq(Intervals), index_at : Nat, index : Seq(Entries), end : Nat]

\* What the reader finds: the header points behind the last chunk whose index
\* is there.
Readable == disk.end # 0 /\ disk.index_at = disk.end

\* The number of markers in the chunks of the file.
Stored == IF disk.chunks = <<>> THEN 0 ELSE disk.chunks[Len(disk.chunks)].to

\* The chunks of the file are those the reader counts on when it seeks by
\* chunk size: together they hold the markers of the trace in order, each
\* chunk ChunkSize of them, and only the last one, of a stream being closed,
\* may be shorter.  (STFCompressedIFstream computes chunk numbers from marker
\* numbers and never looks at the real lengths.)
ChunksAreCut ==
    /\ Len(disk.chunks) = NumChunks(Stored)
    /\ \A c \in 0..(NumChunks(Stored) - 1) :
           disk.chunks[c + 1] = [from |-> ChunkStart(c),
                                 to |-> ChunkStart(c) + ChunkLen(Stored, c)]
    /\ stream = "open" => Stored % ChunkSize = 0

\* Whenever a reader can open the file, whether the writer lives or not, the
\* index it finds has one entry for each chunk, with its position, the PC of
\* its first marker (0 for the first chunk) and its uncompressed size.  The
\* three are collected at three different times, by two threads.
IndexDescribesChunks ==
    Readable =>
        /\ Len(disk.index) = disk.end
        /\ \A c \in 0..(disk.end - 1) :
               disk.index[c + 1] = Entry(c, ChunkStart(c), Count(disk.chunks[c + 1]))

\* Once a chunk has been finished the file can be read at any time, but while
\* endChunk_ works on it, and contains every finished chunk.
ReadableBetweenChunks ==
    ~EndingChunk /\ disk.chunks # <<>> =>
        Readable /\ disk.end = Len(disk.chunks)

\* The chunks of the file, the chunk under compression and the records still
\* in the buffer are, in this order, all markers written: none is lost, none
\* written twice, in spite of the swapping of the buffers.
NoMarkerLost ==
    /\ Stored + Count(out_buf) + Count(compression_chunk_buf)
         + Count(cur_chunk_buf) = written
    /\ Count(cur_chunk_buf) > 0 => cur_chunk_buf.to = written

\* A file that was closed contains all markers, unless the last record written
\* was no marker: then it lacks the markers of the last chunk, fewer than
\* ChunkSize.
CloseKeepsMarkers ==
    stream = "closed" =>
        /\ ~incomplete_chunk => Stored = written
        /\ written - Stored < ChunkSize
        /\ Stored > 0 => Readable

\* While the task runs, the file, the index and the buffers it works on are
\* its own: no step of the caller touches them.
TaskOwnsFile == [][~TaskDone => Task \/ UNCHANGED owned]_vars

\* close_() returns.
CloseReturns == stream = "closing" ~> (stream = "closed" \/ ~alive)

=============================================================================
