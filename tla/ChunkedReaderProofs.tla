------------------------- MODULE ChunkedReaderProofs -------------------------
(***************************************************************************)
(* Proofs about ChunkedReader, for every chunk size, every set of traces,  *)
(* every set of corrupt chunks and seeks of every length.                  *)
(*                                                                         *)
(* The inductive invariant has two parts beside the types.  Placed holds   *)
(* as long as the stream is open: which chunk each buffer holds, and where *)
(* the file pointer stands relative to the chunk iterator in every phase   *)
(* of the prefetch.  Coherent holds until a call throws: it relates the    *)
(* marker counter and the next chunk boundary to the buffers, and says     *)
(* that there is a prefetch exactly when there is a next chunk.            *)
(***************************************************************************)
EXTENDS ChunkedReader, TLAPS

-----------------------------------------------------------------------------
(* Chunk arithmetic, for every chunk size and every trace.  The other proofs *)
(* cite these facts and never expand a product.                              *)

\* Dividing a position by the chunk size gives its chunk and the markers to
\* read from the start of that chunk.
LEMMA Division ==
    ASSUME NEW x \in Nat
    PROVE  /\ x \div ChunkSize \in Nat
           /\ (x % ChunkSize) \in 0..(ChunkSize - 1)
           /\ x = ChunkStart(x \div ChunkSize) + (x % ChunkSize)
BY ChunkSizeAssumption, SMT DEF ChunkStart

\* Chunks start ChunkSize markers apart.
LEMMA Starts ==
    ASSUME NEW c \in Nat
    PROVE  /\ ChunkStart(c) \in Nat
           /\ ChunkStart(c + 1) = ChunkStart(c) + ChunkSize
           /\ ChunkStart(0) = 0
BY ChunkSizeAssumption, SMT DEF ChunkStart

\* A later chunk starts at least ChunkSize markers later.
LEMMA StartsMonotone ==
    ASSUME NEW c \in Nat, NEW d \in Nat, c < d
    PROVE  ChunkStart(c) + ChunkSize <= ChunkStart(d)
BY ChunkSizeAssumption, SMT DEF ChunkStart

\* The last chunk holds the last marker.
LEMMA LastChunkFacts ==
    ASSUME NEW t \in Nat \ {0}
    PROVE  /\ NumChunks(t) \in Nat \ {0}
           /\ ChunkStart(NumChunks(t) - 1) < t
           /\ t <= ChunkStart(NumChunks(t) - 1) + ChunkSize
<1> DEFINE n == NumChunks(t)
<1>1. t + ChunkSize - 1 \in Nat
    BY ChunkSizeAssumption
<1>2. /\ n \in Nat
      /\ ((t + ChunkSize - 1) % ChunkSize) \in 0..(ChunkSize - 1)
      /\ t + ChunkSize - 1 = ChunkStart(n) + ((t + ChunkSize - 1) % ChunkSize)
    BY <1>1, Division DEF NumChunks
<1>3. n # 0
    BY <1>2, ChunkSizeAssumption, Starts
<1>4. ChunkStart(n) = ChunkStart(n - 1) + ChunkSize /\ ChunkStart(n - 1) \in Nat
    BY <1>2, <1>3, Starts
<1> QED
    BY <1>2, <1>3, <1>4, ChunkSizeAssumption

\* Every chunk but the last is full, and the last one ends with the trace.
LEMMA Lengths ==
    ASSUME NEW t \in Nat \ {0}, NEW c \in 0..(NumChunks(t) - 1)
    PROVE  /\ ChunkLen(t, c) \in 1..ChunkSize
           /\ ChunkStart(c) + ChunkLen(t, c) <= t
           /\ c < NumChunks(t) - 1 => ChunkLen(t, c) = ChunkSize
           /\ c = NumChunks(t) - 1 => ChunkStart(c) + ChunkLen(t, c) = t
<1> DEFINE n == NumChunks(t)
<1>1. n \in Nat \ {0} /\ ChunkStart(n - 1) < t /\ t <= ChunkStart(n - 1) + ChunkSize
    BY LastChunkFacts
<1>2. c \in Nat /\ ChunkStart(c) \in Nat /\ ChunkStart(c + 1) = ChunkStart(c) + ChunkSize
    BY <1>1, Starts
<1>3. CASE c = n - 1
    BY <1>1, <1>2, <1>3, ChunkSizeAssumption DEF ChunkLen
<1>4. CASE c < n - 1
    <2>1. ChunkStart(c) + ChunkSize <= ChunkStart(n - 1) /\ ChunkStart(n - 1) \in Nat
        BY <1>1, <1>2, <1>4, StartsMonotone, Starts
    <2> QED
        BY <1>1, <1>2, <1>4, <2>1, ChunkSizeAssumption DEF ChunkLen
<1> QED
    BY <1>1, <1>3, <1>4

\* A marker of the trace lies in one of its chunks, and a position whose chunk
\* does not exist is not before the end of the trace.
LEMMA ChunkOfMarker ==
    ASSUME NEW t \in Nat \ {0}, NEW x \in Nat
    PROVE  /\ x < t => x \div ChunkSize < NumChunks(t)
           /\ x \div ChunkSize >= NumChunks(t) => x >= t
<1> DEFINE n == NumChunks(t)
           c == x \div ChunkSize
<1>1. n \in Nat \ {0} /\ t <= ChunkStart(n - 1) + ChunkSize
    BY LastChunkFacts
<1>2. c \in Nat /\ (x % ChunkSize) \in Nat /\ x = ChunkStart(c) + (x % ChunkSize)
    BY Division
<1>3. ASSUME c >= n PROVE x >= t
    <2>1. ChunkStart(n - 1) + ChunkSize <= ChunkStart(c)
        BY <1>1, <1>2, <1>3, StartsMonotone
    <2>2. ChunkStart(n - 1) \in Nat /\ ChunkStart(c) \in Nat
        BY <1>1, <1>2, Starts
    <2> QED
        BY <1>1, <1>2, <2>1, <2>2, ChunkSizeAssumption
<1> QED
    BY <1>1, <1>2, <1>3

-----------------------------------------------------------------------------

Chunk(c) == c \in 0..LastChunk

Placed ==
    /\ future # "none" => stream = "open" /\ in_progress /\ prefetch
    /\ stream = "open" =>
        /\ total # 0
        /\ next_chunk_index \in 1..NumChunks(total)
        /\ file_pos = IF future = "launched" THEN next_chunk_index - 1
                                             ELSE next_chunk_index
        /\ future = "launched" => next_chunk_index > 1
        /\ future \in {"reading", "ready", "failed"} => last_read_pos = next_chunk_index - 1
        /\ future = "ready" =>
               decompressed_buf = Holding(total, last_read_pos) /\ in_buf_rd = 1
        /\ Chunk(out_buf.chunk)
        /\ out_buf.size = ChunkLen(total, out_buf.chunk)
        /\ out_buf.rd <= out_buf.size

Coherent ==
    LET c == out_buf.chunk
    IN  /\ num_marker_records = ChunkStart(c) + out_buf.rd
        /\ c < LastChunk =>
               /\ ~Consumed(out_buf)
               /\ next_chunk_end = ChunkStart(c) + ChunkSize
               /\ next_chunk_index = IF prefetch THEN c + 2 ELSE c + 1
               /\ prefetch => future # "none"
        /\ c = LastChunk =>
               /\ \/ next_chunk_end = ChunkStart(c) + ChunkSize
                  \/ Consumed(out_buf) /\ next_chunk_end > ChunkStart(c) + ChunkSize
               /\ next_chunk_index = NumChunks(total)
               /\ future = "none"
               /\ ReachedEndOfChunks
               /\ prefetch => Consumed(decompressed_buf)

\* close_() has zeroed the counter that open() counts on.
Closed == stream = "closed" => num_marker_records = 0

Inv == TypeOK /\ Placed /\ Closed /\ (Sound => Coherent) /\ NeverOverruns

-----------------------------------------------------------------------------
(* Buffers. *)

\* A buffer that holds a chunk of the trace is not empty and not used up.
LEMMA HoldingFacts ==
    ASSUME NEW t \in Nat \ {0}, NEW c \in 0..(NumChunks(t) - 1)
    PROVE  /\ Holding(t, c) \in Buffers
           /\ Holding(t, c).chunk = c
           /\ Holding(t, c).size = ChunkLen(t, c)
           /\ Holding(t, c).rd = 0
           /\ ~Consumed(Holding(t, c))
           /\ ChunkLen(t, c) \in 1..ChunkSize
<1>1. ChunkLen(t, c) \in 1..ChunkSize
    BY Lengths
<1>2. NumChunks(t) \in Nat
    BY LastChunkFacts
<1> QED
    BY <1>1, <1>2, ChunkSizeAssumption DEF Holding, Buffers, Consumed

\* Reading on in a buffer, and throwing its rest away, move only its read
\* pointer.
LEMMA BufferOps ==
    ASSUME NEW b \in Buffers, NEW n \in Nat
    PROVE  /\ Advance(b, n) \in Buffers
           /\ Advance(b, n).chunk = b.chunk
           /\ Advance(b, n).size = b.size
           /\ Advance(b, n).rd = b.rd + n
           /\ Consume(b) \in Buffers
           /\ Consume(b).chunk = b.chunk
           /\ Consume(b).size = b.size
           /\ Consume(b).rd = b.size
           /\ Consumed(Consume(b))
BY DEF Advance, Consume, Consumed, Buffers

\* A buffer that readChunk_ has sized but not yet filled is a buffer.
LEMMA FillingFacts ==
    ASSUME NEW n \in Nat
    PROVE  Filling(n) \in Buffers
BY DEF Filling, Buffers

\* What an open stream knows of the trace, and of the buffers that
\* finishDecompression_ leaves behind when it returns.
LEMMA OpenFacts ==
    ASSUME Inv, stream = "open"
    PROVE  /\ total \in Nat \ {0}
           /\ NumChunks(total) \in Nat \ {0}
           /\ LastChunk = NumChunks(total) - 1
           /\ out_buf \in Buffers /\ decompressed_buf \in Buffers
           /\ out_buf.chunk \in 0..(NumChunks(total) - 1)
           /\ out_buf.size \in 1..ChunkSize
           /\ out_buf.rd \in 0..out_buf.size
<1>1. total \in Nat \ {0} /\ Chunk(out_buf.chunk) /\ out_buf \in Buffers /\ decompressed_buf \in Buffers
    BY DEF Inv, TypeOK, Placed
<1>2. NumChunks(total) \in Nat \ {0}
    BY <1>1, LastChunkFacts
<1>3. out_buf.size \in 1..ChunkSize
    BY <1>1, <1>2, Lengths DEF Inv, Placed, Chunk, LastChunk
<1> QED
    BY <1>1, <1>2, <1>3 DEF Inv, Placed, Buffers, Chunk, LastChunk

\* When finishDecompression_ returns, there was either no prefetch to wait for
\* and nothing is swapped, or the prefetched chunk is complete and becomes the
\* current one.
LEMMA FinishFacts ==
    ASSUME Inv, stream = "open", FinishReturns
    PROVE  /\ future \in {"none", "ready"}
           /\ file_pos = next_chunk_index
           /\ \A b \in Buffers : AfterFinish(b) \in Buffers /\ SwappedOut(b) \in Buffers
           /\ ~in_progress => future = "none" /\ \A b : AfterFinish(b) = b
           /\ in_progress => /\ future = "ready"
                             /\ last_read_pos \in 0..(NumChunks(total) - 1)
                             /\ last_read_pos = next_chunk_index - 1
                             /\ in_buf_rd = 1
                             /\ decompressed_buf = Holding(total, last_read_pos)
                             /\ \A b : AfterFinish(b) = decompressed_buf
                             /\ \A b : SwappedOut(b) = b
<1>1. /\ NumChunks(total) \in Nat \ {0}
      /\ decompressed_buf \in Buffers
    BY OpenFacts
<1>2. future \in {"none", "ready"}
    BY DEF Inv, TypeOK, Placed, FinishReturns
<1>3. last_read_pos \in Nat /\ next_chunk_index \in 1..NumChunks(total)
    BY DEF Inv, TypeOK, Placed
<1> QED
    BY <1>1, <1>2, <1>3 DEF Inv, Placed, FinishReturns, AfterFinish, SwappedOut

-----------------------------------------------------------------------------
(* The ways a call ends. *)

\* A call that gives up leaves the invariant alone: nothing is promised of
\* the counters any more, and the buffers are as they were.
LEMMA GiveUpInv ==
    ASSUME Inv, NEW what \in Fatal, GiveUp(what),
           what = "overrun" => threw,
           requested' \in Nat,
           in_progress' \in BOOLEAN,
           \/ UNCHANGED task
           \/ future # "launched" /\ future' = "none"
    PROVE  Inv'
<1> USE DEF GiveUp, Throw, Fatal, file, cursor, shared, task
<1>1. TypeOK'
    BY DEF Inv, TypeOK
<1>2. Placed'
    <2>1. Chunk(out_buf.chunk)' = Chunk(out_buf.chunk)
        BY DEF Chunk, LastChunk
    <2> QED
        BY <2>1 DEF Inv, TypeOK, Placed
<1>3. ~Sound' /\ Closed'
    BY DEF Sound, Usable, Inv, Closed
<1>4. NeverOverruns'
    BY DEF Inv, NeverOverruns
<1> QED
    BY <1>1, <1>2, <1>3, <1>4 DEF Inv

\* finishDecompression_ that throws, whatever called it, keeps the invariant.
LEMMA FinishFailsInv ==
    ASSUME Inv, FinishFails, requested' \in Nat
    PROVE  Inv'
<1>1. PICK what \in {"bad_chunk", "no_state"} : GiveUp(what)
    BY DEF FinishFails
<1>2. future # "launched" /\ future' = "none" /\ in_progress' \in BOOLEAN
    BY DEF FinishFails, Inv, TypeOK
<1> QED
    BY <1>1, <1>2, GiveUpInv DEF Fatal

\* seekToChunk_ and the reads after it end inside the chunk they went to, or
\* at its end when it is the last one.
LEMMA JumpInv ==
    ASSUME Inv, stream = "open", requested' \in Nat,
           NEW c \in 0..(NumChunks(total) - 1), NEW k \in 0..(ChunkSize - 1),
           NEW buf \in Buffers, JumpTo(c, k, buf)
    PROVE  Inv'
<1> DEFINE len  == ChunkLen(total, c)
           read == IF k <= len THEN k ELSE len
           n    == NumChunks(total)
<1>0. total \in Nat \ {0} /\ n \in Nat \ {0} /\ c \in Nat
    BY OpenFacts
<1>1. /\ len \in 1..ChunkSize
      /\ c < n - 1 => len = ChunkSize
    BY <1>0, Lengths
<1>2. /\ Holding(total, c) \in Buffers
      /\ Holding(total, c).chunk = c
      /\ Holding(total, c).size = len
      /\ Holding(total, c).rd = 0
    BY <1>0, HoldingFacts
<1>3. read \in 0..len
    BY <1>1
<1>4. /\ out_buf' \in Buffers
      /\ out_buf'.chunk = c
      /\ out_buf'.size = len
      /\ out_buf'.rd = read
    <2>1. read \in Nat /\ out_buf' = Advance(Holding(total, c), read)
        BY <1>1, <1>3 DEF JumpTo, ReadChunkSync
    <2> QED
        BY <1>2, <2>1, BufferOps
<1>5. /\ last_read_pos' = c
      /\ in_buf_rd' = 1
      /\ file_pos' = c + 1
      /\ num_marker_records' = ChunkStart(c) + read
      /\ next_chunk_end' = ChunkStart(c) + ChunkSize
      /\ UNCHANGED <<prefetch, stream, total, delivered>>
    BY DEF JumpTo, ReadChunkSync, file
<1>6. ChunkStart(c) \in Nat
    BY <1>0, Starts
<1>7. \/ /\ outcome' = "ok" /\ UNCHANGED threw
         /\ successful_read' \in BOOLEAN
         /\ k <= len
      \/ outcome' = "past_end" /\ threw' = TRUE /\ successful_read' = FALSE
    BY DEF JumpTo, Succeed, Throw, Inv, TypeOK
<1>8. successful_read' \in BOOLEAN /\ threw' \in BOOLEAN /\ outcome' \in {"ok", "past_end"}
    BY <1>7 DEF Inv, TypeOK
<1>9. /\ num_marker_records' \in Nat
      /\ next_chunk_end' \in Nat
      /\ out_buf' \in Buffers
      /\ last_read_pos' \in Nat
      /\ file_pos' \in Nat
      /\ in_buf_rd' \in {0, 1}
    BY <1>0, <1>1, <1>3, <1>4, <1>5, <1>6, ChunkSizeAssumption
<1>10. CASE prefetch /\ c < n - 1
    <2>1. /\ decompressed_buf' = buf
          /\ next_chunk_index' = c + 2
          /\ in_progress' = TRUE
          /\ future' = "launched"
        BY <1>0, <1>10 DEF JumpTo, LaunchPrefetch
    <2>2. TypeOK'
        BY <1>0, <1>5, <1>8, <1>9, <2>1 DEF Inv, TypeOK
    <2>3. Placed'
        BY <1>0, <1>3, <1>4, <1>5, <1>10, <2>1 DEF Placed, Chunk, LastChunk
    <2>4. Sound' => Coherent'
        BY <1>0, <1>1, <1>3, <1>4, <1>5, <1>7, <1>10, <2>1
        DEF Sound, Coherent, LastChunk, Consumed
    <2> QED
        BY <1>5, <1>7, <2>2, <2>3, <2>4 DEF Inv, Closed, NeverOverruns
<1>11. CASE prefetch /\ c = n - 1
    <2>1. /\ decompressed_buf' = Consume(buf)
          /\ next_chunk_index' = n
          /\ in_progress' = FALSE
          /\ future' = "none"
        BY <1>0, <1>11 DEF JumpTo, LaunchPrefetch
    <2>2. Consume(buf) \in Buffers /\ Consumed(Consume(buf))
        BY BufferOps
    <2>3. TypeOK'
        BY <1>0, <1>5, <1>8, <1>9, <2>1, <2>2 DEF Inv, TypeOK
    <2>4. Placed'
        BY <1>0, <1>3, <1>4, <1>5, <1>11, <2>1 DEF Placed, Chunk, LastChunk
    <2>5. Sound' => Coherent'
        BY <1>0, <1>3, <1>4, <1>5, <1>11, <2>1, <2>2
        DEF Coherent, LastChunk, ReachedEndOfChunks, Consumed
    <2> QED
        BY <1>5, <1>7, <2>3, <2>4, <2>5 DEF Inv, Closed, NeverOverruns
<1>12. CASE ~prefetch
    <2>1. /\ next_chunk_index' = c + 1
          /\ UNCHANGED <<decompressed_buf, in_progress, future>>
          /\ future = "none"
        BY <1>12 DEF JumpTo, task, Inv, Placed
    <2>2. TypeOK'
        BY <1>0, <1>5, <1>8, <1>9, <2>1 DEF Inv, TypeOK
    <2>3. Placed'
        BY <1>0, <1>3, <1>4, <1>5, <1>12, <2>1 DEF Placed, Chunk, LastChunk
    <2>4. Sound' => Coherent'
        BY <1>0, <1>1, <1>3, <1>4, <1>5, <1>7, <1>12, <2>1
        DEF Sound, Coherent, LastChunk, ReachedEndOfChunks, Consumed
    <2> QED
        BY <1>5, <1>7, <2>2, <2>3, <2>4 DEF Inv, Closed, NeverOverruns
<1> QED
    BY <1>0, <1>10, <1>11, <1>12 DEF Inv, TypeOK

\* seekToChunk_ of a chunk that does not decompress keeps the invariant.
LEMMA JumpFailsInv ==
    ASSUME Inv, stream = "open", FinishReturns, requested' \in Nat,
           NEW c, JumpFails(c)
    PROVE  Inv'
<1>1. future # "launched"
    BY FinishFacts
<1>2. GiveUp("bad_chunk") /\ in_progress' = FALSE /\ future' = "none"
    BY DEF JumpFails
<1> QED
    BY <1>1, <1>2, GiveUpInv DEF Fatal

-----------------------------------------------------------------------------
(* The actions. *)

\* A stream that was never opened satisfies the invariant.
LEMMA InitInv == Init => Inv
<1> SUFFICES ASSUME Init PROVE Inv
    OBVIOUS
<1>1. TypeOK
    BY DEF Init, TypeOK, NoBuffer, Buffers
<1>2. Placed /\ Closed /\ ~Sound /\ NeverOverruns
    BY DEF Init, Placed, Closed, Sound, Usable, NeverOverruns
<1> QED
    BY <1>1, <1>2 DEF Inv

\* open(), which decompresses chunk 0 and launches chunk 1, establishes it.
LEMMA OpenInv ==
    ASSUME Inv, NEW t \in TraceLengths, Open(t)
    PROVE  Inv'
<1> DEFINE n == NumChunks(t)
<1>0. t \in Nat \ {0} /\ n \in Nat \ {0}
    BY ReaderAssumption, LastChunkFacts
<1>1. future = "none"
    BY DEF Open, Inv, Placed
<1>2. /\ out_buf' = Advance(Holding(t, 0), 0)
      /\ last_read_pos' = 0 /\ in_buf_rd' = 1 /\ file_pos' = 1
      /\ stream' = "open" /\ total' = t /\ next_chunk_end' = ChunkSize
      /\ prefetch' = prefetch /\ num_marker_records' = num_marker_records
      /\ outcome' = "ok" /\ threw' = FALSE /\ successful_read' = TRUE
      /\ delivered' = -1 /\ requested' = 0
    BY DEF Open, ReadChunkSync
<1>3. /\ out_buf' \in Buffers
      /\ out_buf'.chunk = 0 /\ out_buf'.rd = 0
      /\ out_buf'.size = ChunkLen(t, 0)
      /\ ChunkLen(t, 0) \in 1..ChunkSize
      /\ ChunkLen(t, 0) = ChunkSize \/ n = 1
    <2>1. 0 \in 0..(NumChunks(t) - 1)
        BY <1>0
    <2>2. /\ Holding(t, 0) \in Buffers
          /\ Holding(t, 0).chunk = 0 /\ Holding(t, 0).rd = 0
          /\ Holding(t, 0).size = ChunkLen(t, 0)
          /\ ChunkLen(t, 0) \in 1..ChunkSize
        BY <1>0, <2>1, HoldingFacts
    <2>3. ChunkLen(t, 0) = ChunkSize \/ n = 1
        BY <1>0, <2>1, Lengths
    <2> QED
        BY <1>2, <2>2, <2>3, BufferOps
<1>4. /\ decompressed_buf' \in Buffers
      /\ in_progress' \in BOOLEAN
      /\ \/ /\ prefetch /\ n > 1
            /\ next_chunk_index' = 2 /\ in_progress' = TRUE /\ future' = "launched"
         \/ /\ prefetch /\ n = 1 /\ Consumed(decompressed_buf')
            /\ next_chunk_index' = 1 /\ future' = "none"
         \/ ~prefetch /\ next_chunk_index' = 1 /\ future' = "none"
    <2>1. Filling(1) \in Buffers /\ Consume(Filling(1)) \in Buffers /\ Consumed(Consume(Filling(1)))
        BY FillingFacts, BufferOps
    <2>2. CASE prefetch /\ n > 1
        <3>1. n # 1 /\ 1 + 1 = 2
            BY <1>0, <2>2
        <3>2. /\ decompressed_buf' = Filling(1)
              /\ next_chunk_index' = 2 /\ in_progress' = TRUE /\ future' = "launched"
            BY <2>2, <3>1 DEF Open, LaunchPrefetch
        <3> QED
            BY <2>1, <2>2, <3>2
    <2>3. CASE prefetch /\ n = 1
        BY <1>0, <2>1, <2>3 DEF Open, LaunchPrefetch, Inv, TypeOK
    <2>4. CASE ~prefetch
        BY <1>1, <2>4 DEF Open, task, Inv, TypeOK
    <2>5. n = 1 \/ n > 1
        BY <1>0
    <2> QED
        BY <2>2, <2>3, <2>4, <2>5
<1>5. ChunkStart(0) = 0
    BY Starts
<1>6. TypeOK'
    <2>1. /\ next_chunk_index' \in Nat
          /\ future' \in {"none", "launched", "reading", "ready", "failed"}
        BY <1>4
    <2>2. prefetch' \in BOOLEAN /\ successful_read' \in BOOLEAN /\ threw' \in BOOLEAN
        BY <1>2 DEF Inv, TypeOK
    <2> QED
        BY <1>0, <1>2, <1>3, <1>4, <2>1, <2>2, ChunkSizeAssumption DEF Inv, TypeOK
<1>7. Placed'
    BY <1>0, <1>2, <1>3, <1>4 DEF Placed, Chunk, LastChunk
<1>8. Coherent'
    <2>1. num_marker_records = 0
        BY DEF Open, Inv, Closed
    <2>2. CASE prefetch /\ n > 1
        BY <1>0, <1>2, <1>3, <1>4, <1>5, <2>1, <2>2 DEF Coherent, LastChunk, Consumed
    <2>3. CASE n = 1
        <3>1. next_chunk_index' = 1 /\ future' = "none"
            BY <1>4, <2>3
        <3>2. prefetch' => Consumed(decompressed_buf')
            BY <1>2, <1>4, <2>3
        <3>3. ReachedEndOfChunks'
            BY <1>2, <2>3 DEF ReachedEndOfChunks
        <3> QED
            BY <1>2, <1>3, <1>5, <2>1, <2>3, <3>1, <3>2, <3>3, ChunkSizeAssumption
            DEF Coherent, LastChunk
    <2>4. CASE ~prefetch /\ n > 1
        BY <1>0, <1>2, <1>3, <1>4, <1>5, <2>1, <2>4 DEF Coherent, LastChunk, Consumed
    <2>5. n = 1 \/ n > 1
        BY <1>0
    <2> QED
        BY <2>2, <2>3, <2>4, <2>5
<1> QED
    BY <1>2, <1>6, <1>7, <1>8 DEF Inv, Closed, NeverOverruns

\* close_() of a stream whose prefetch, if any, has ended keeps it.
LEMMA CloseInv ==
    ASSUME Inv, Close
    PROVE  Inv'
<1>1. TypeOK'
    BY DEF Inv, TypeOK, Close, shared
<1>2. Placed' /\ Closed' /\ ~Sound' /\ NeverOverruns'
    BY DEF Placed, Closed, Sound, Usable, NeverOverruns, Close
<1> QED
    BY <1>1, <1>2 DEF Inv

\* Reading a marker before the chunk boundary keeps the invariant.
LEMMA ReadInChunkInv ==
    ASSUME Inv, ReadInChunk
    PROVE  Inv'
<1> DEFINE c == out_buf.chunk
<1>0. stream = "open" /\ (~threw => Coherent)
    BY DEF ReadInChunk, Usable, Inv, Sound
<1>1. /\ total \in Nat \ {0} /\ NumChunks(total) \in Nat \ {0}
      /\ c \in 0..(NumChunks(total) - 1) /\ out_buf \in Buffers
      /\ out_buf.size \in 1..ChunkSize /\ out_buf.rd \in 0..out_buf.size
    BY <1>0, OpenFacts
<1>2. out_buf.rd < out_buf.size
    BY <1>1, ChunkSizeAssumption DEF ReadInChunk, Consumed
<1>3. /\ out_buf' \in Buffers /\ out_buf'.chunk = c
      /\ out_buf'.size = out_buf.size /\ out_buf'.rd = out_buf.rd + 1
    BY <1>1, BufferOps DEF ReadInChunk
<1>4. /\ UNCHANGED <<file, next_chunk_end, next_chunk_index, shared, task, requested>>
      /\ num_marker_records' = num_marker_records + 1
      /\ delivered' = ChunkStart(c) + out_buf.rd
      /\ successful_read' = TRUE /\ outcome' = "ok" /\ UNCHANGED threw
    BY DEF ReadInChunk, Succeed
<1>5. ChunkStart(c) \in Nat
    BY <1>1, Starts
<1>6. TypeOK'
    BY <1>1, <1>3, <1>4, <1>5, ChunkSizeAssumption DEF Inv, TypeOK, file, shared, task
<1>7. Placed' /\ Closed'
    BY <1>0, <1>1, <1>2, <1>3, <1>4, ChunkSizeAssumption
    DEF Inv, Placed, Closed, Chunk, LastChunk, file, shared, task
<1>8. ASSUME Coherent PROVE Coherent'
    <2>1. CASE c < LastChunk
        <3>1. /\ num_marker_records = ChunkStart(c) + out_buf.rd
              /\ next_chunk_end = ChunkStart(c) + ChunkSize
              /\ out_buf.size = ChunkSize
            BY <1>0, <1>1, <1>8, <2>1, Lengths DEF Coherent, LastChunk, Inv, Placed
        <3>2. out_buf.rd + 1 < ChunkSize
            BY <1>1, <1>5, <3>1, ChunkSizeAssumption DEF ReadInChunk
        <3> QED
            BY <1>1, <1>3, <1>4, <1>5, <1>8, <2>1, <3>1, <3>2, ChunkSizeAssumption
            DEF Coherent, LastChunk, Consumed, file, task
    <2>2. CASE c = LastChunk
        BY <1>1, <1>2, <1>3, <1>4, <1>5, <1>8, <2>2, ChunkSizeAssumption
        DEF Coherent, LastChunk, Consumed, ReachedEndOfChunks, file, shared, task
    <2> QED
        BY <1>1, <2>1, <2>2 DEF LastChunk
<1> QED
    BY <1>0, <1>4, <1>6, <1>7, <1>8 DEF Inv, NeverOverruns, Sound, Usable

\* Where the counter stands when it reaches a chunk boundary.
LEMMA BoundaryFacts ==
    ASSUME Inv, stream = "open", Coherent, ~Consumed(out_buf),
           num_marker_records + 1 >= next_chunk_end
    PROVE  /\ num_marker_records + 1 = ChunkStart(out_buf.chunk) + ChunkSize
           /\ next_chunk_end = num_marker_records + 1
           /\ out_buf.rd + 1 = ChunkSize
           /\ out_buf.size = ChunkSize
<1> DEFINE c == out_buf.chunk
<1>1. /\ total \in Nat \ {0} /\ NumChunks(total) \in Nat \ {0}
      /\ c \in 0..(NumChunks(total) - 1)
      /\ out_buf.size \in 1..ChunkSize /\ out_buf.rd \in 0..out_buf.size
    BY OpenFacts
<1>2. ChunkStart(c) \in Nat
    BY <1>1, Starts
<1>3. num_marker_records = ChunkStart(c) + out_buf.rd /\ next_chunk_end = ChunkStart(c) + ChunkSize
    BY <1>1 DEF Coherent, LastChunk
<1> QED
    BY <1>1, <1>2, <1>3, ChunkSizeAssumption DEF Consumed

\* markerRecordCallback at a chunk boundary, which swaps the buffers and
\* launches the next prefetch, keeps the invariant.
LEMMA ReadLastOfChunkInv ==
    ASSUME Inv, ReadLastOfChunk
    PROVE  Inv'
<1> DEFINE c == out_buf.chunk
           n == NumChunks(total)
           old == Advance(out_buf, 1)
<1>0. stream = "open" /\ prefetch /\ (~threw => Coherent) /\ FinishReturns /\ ~Consumed(out_buf)
    BY DEF ReadLastOfChunk, Usable, Inv, Sound
<1>1. /\ total \in Nat \ {0} /\ n \in Nat \ {0}
      /\ c \in 0..(n - 1) /\ out_buf \in Buffers /\ decompressed_buf \in Buffers
      /\ out_buf.size \in 1..ChunkSize /\ out_buf.rd \in 0..out_buf.size
    BY <1>0, OpenFacts
<1>2. out_buf.rd < out_buf.size
    BY <1>0, <1>1, ChunkSizeAssumption DEF Consumed
<1>3. /\ old \in Buffers /\ old.chunk = c
      /\ old.size = out_buf.size /\ old.rd = out_buf.rd + 1
    BY <1>1, BufferOps
<1>4. /\ out_buf' = AfterFinish(old)
      /\ LaunchPrefetch(total, next_chunk_index, SwappedOut(old), FALSE)
      /\ UNCHANGED <<file, in_buf_rd, last_read_pos, file_pos, requested>>
      /\ num_marker_records' = num_marker_records + 1
      /\ next_chunk_end' = next_chunk_end + ChunkSize
      /\ delivered' = ChunkStart(c) + out_buf.rd
      /\ successful_read' = TRUE /\ outcome' = "ok" /\ UNCHANGED threw
    BY DEF ReadLastOfChunk, Succeed
<1>5. ChunkStart(c) \in Nat
    BY <1>1, Starts
<1>6. /\ AfterFinish(old) \in Buffers /\ SwappedOut(old) \in Buffers
      /\ Consume(SwappedOut(old)) \in Buffers /\ Consumed(Consume(SwappedOut(old)))
    BY <1>0, <1>3, FinishFacts, BufferOps
<1>7. next_chunk_index \in 1..n /\ file_pos = next_chunk_index
    BY <1>0, FinishFacts DEF Inv, Placed
<1>8. /\ out_buf'.chunk \in 0..(n - 1)
      /\ out_buf'.size = ChunkLen(total, out_buf'.chunk)
      /\ out_buf'.rd \in 0..out_buf'.size
    <2>1. CASE in_progress
        <3>1. out_buf' = Holding(total, last_read_pos) /\ last_read_pos \in 0..(n - 1)
            BY <1>0, <1>4, <2>1, FinishFacts
        <3> QED
            BY <1>1, <3>1, HoldingFacts
    <2>2. CASE ~in_progress
        <3>1. out_buf' = old
            BY <1>0, <1>4, <2>2, FinishFacts
        <3> QED
            BY <1>0, <1>1, <1>2, <1>3, <3>1 DEF Inv, Placed
    <2> QED
        BY <2>1, <2>2
<1>9. \/ /\ next_chunk_index = n
         /\ decompressed_buf' = Consume(SwappedOut(old))
         /\ next_chunk_index' = n /\ in_progress' = FALSE /\ future' = "none"
      \/ /\ next_chunk_index < n
         /\ decompressed_buf' = SwappedOut(old)
         /\ next_chunk_index' = next_chunk_index + 1
         /\ in_progress' = TRUE /\ future' = "launched"
    BY <1>1, <1>4, <1>7 DEF LaunchPrefetch
<1>10. TypeOK'
    <2>1. next_chunk_index' \in Nat /\ decompressed_buf' \in Buffers
        BY <1>1, <1>6, <1>7, <1>9
    <2>2. /\ in_progress' \in BOOLEAN
          /\ future' \in {"none", "launched", "reading", "ready", "failed"}
        BY <1>9
    <2> QED
        BY <1>1, <1>4, <1>5, <1>6, <2>1, <2>2, ChunkSizeAssumption DEF Inv, TypeOK, file
<1>11. Placed' /\ Closed'
    BY <1>0, <1>1, <1>4, <1>7, <1>8, <1>9 DEF Inv, Placed, Closed, Chunk, LastChunk, file
<1>12. ASSUME Coherent PROVE Coherent'
    <2>1. /\ num_marker_records + 1 = ChunkStart(c) + ChunkSize
          /\ next_chunk_end = num_marker_records + 1
          /\ out_buf.rd + 1 = ChunkSize /\ out_buf.size = ChunkSize
        BY <1>0, <1>12, BoundaryFacts DEF ReadLastOfChunk
    <2>2. ChunkStart(c + 1) = ChunkStart(c) + ChunkSize
        BY <1>1, Starts
    <2>3. CASE c < n - 1
        <3>1. next_chunk_index = c + 2 /\ future # "none"
            BY <1>0, <1>1, <1>12, <2>3 DEF Coherent, LastChunk
        <3>2. /\ future = "ready" /\ in_buf_rd = 1
              /\ last_read_pos = c + 1
              /\ out_buf' = Holding(total, c + 1)
            BY <1>0, <1>1, <1>4, <3>1, FinishFacts
        <3>3. out_buf'.chunk = c + 1 /\ out_buf'.rd = 0 /\ ~Consumed(out_buf')
            BY <1>1, <2>3, <3>2, HoldingFacts
        <3>4. /\ num_marker_records' = ChunkStart(c + 1) + 0
              /\ next_chunk_end' = ChunkStart(c + 1) + ChunkSize
            BY <1>4, <1>5, <2>1, <2>2, ChunkSizeAssumption
        <3>5. CASE c + 2 = n
            <4>1. /\ next_chunk_index' = n /\ future' = "none" /\ Consumed(decompressed_buf')
                  /\ LastChunk' = c + 1
                BY <1>1, <1>4, <1>6, <1>9, <3>1, <3>5 DEF LastChunk, file
            <4>2. ReachedEndOfChunks'
                BY <1>1, <1>4, <3>2, <3>5 DEF ReachedEndOfChunks, file
            <4> QED
                BY <1>4, <3>3, <3>4, <4>1, <4>2, <1>1, ChunkSizeAssumption DEF Coherent, file
        <3>6. CASE c + 2 < n
            <4>1. /\ next_chunk_index' = c + 3 /\ future' = "launched"
                  /\ c + 1 < LastChunk' /\ LastChunk' \in Nat
                BY <1>1, <1>4, <1>9, <3>1, <3>6 DEF LastChunk, file
            <4> QED
                BY <1>0, <1>1, <1>4, <3>3, <3>4, <4>1, ChunkSizeAssumption DEF Coherent, file
        <3> QED
            BY <1>1, <2>3, <3>5, <3>6
    <2>4. CASE c = n - 1
        <3>1. /\ next_chunk_index = n /\ future = "none"
              /\ ReachedEndOfChunks
            BY <1>1, <1>12, <2>4 DEF Coherent, LastChunk
        <3>2. out_buf' = old /\ Consumed(old)
            BY <1>0, <1>3, <1>4, <2>1, <3>1, FinishFacts DEF Consumed
        <3>3. next_chunk_index' = n /\ future' = "none" /\ Consumed(decompressed_buf')
            BY <1>1, <1>6, <1>9, <3>1
        <3>4. ReachedEndOfChunks' /\ LastChunk' = c
            BY <1>1, <1>4, <2>4, <3>1 DEF ReachedEndOfChunks, LastChunk, file
        <3>5. /\ num_marker_records' = ChunkStart(c) + out_buf'.rd
              /\ next_chunk_end' > ChunkStart(c) + ChunkSize
            BY <1>1, <1>3, <1>4, <1>5, <2>1, <3>2, ChunkSizeAssumption
        <3> QED
            BY <1>1, <1>3, <1>4, <2>4, <3>2, <3>3, <3>4, <3>5 DEF Coherent, file
    <2> QED
        BY <1>1, <2>3, <2>4
<1> QED
    BY <1>0, <1>4, <1>10, <1>11, <1>12 DEF Inv, NeverOverruns, Sound, Usable

\* The same callback of the single-threaded stream keeps the invariant.
LEMMA ReadLastOfChunkSyncInv ==
    ASSUME Inv, ReadLastOfChunkSync
    PROVE  Inv'
<1> DEFINE c == out_buf.chunk
           n == NumChunks(total)
           old == Advance(out_buf, 1)
<1>0. /\ stream = "open" /\ ~prefetch /\ (~threw => Coherent) /\ ~Consumed(out_buf)
      /\ future = "none" /\ file_pos = next_chunk_index /\ next_chunk_index \in 1..n
    BY DEF ReadLastOfChunkSync, Usable, Inv, Sound, Placed
<1>1. /\ total \in Nat \ {0} /\ n \in Nat \ {0}
      /\ c \in 0..(n - 1) /\ out_buf \in Buffers
      /\ out_buf.size \in 1..ChunkSize /\ out_buf.rd \in 0..out_buf.size
    BY <1>0, OpenFacts
<1>2. out_buf.rd < out_buf.size
    BY <1>0, <1>1, ChunkSizeAssumption DEF Consumed
<1>3. /\ old \in Buffers /\ old.chunk = c
      /\ old.size = out_buf.size /\ old.rd = out_buf.rd + 1
    BY <1>1, BufferOps
<1>4. /\ UNCHANGED <<file, decompressed_buf, task, requested>>
      /\ num_marker_records' = num_marker_records + 1
      /\ next_chunk_end' = next_chunk_end + ChunkSize
      /\ delivered' = ChunkStart(c) + out_buf.rd
      /\ successful_read' = TRUE /\ outcome' = "ok" /\ UNCHANGED threw
    BY DEF ReadLastOfChunkSync, Succeed
<1>5. ChunkStart(c) \in Nat /\ ChunkStart(c + 1) = ChunkStart(c) + ChunkSize
    BY <1>1, Starts
<1>6. Coherent => /\ num_marker_records + 1 = ChunkStart(c) + ChunkSize
                  /\ next_chunk_end = num_marker_records + 1
                  /\ out_buf.rd + 1 = ChunkSize /\ out_buf.size = ChunkSize
    BY <1>0, BoundaryFacts DEF ReadLastOfChunkSync
<1>7. CASE next_chunk_index = n
    <2>1. out_buf' = old /\ UNCHANGED <<next_chunk_index, in_buf_rd, last_read_pos, file_pos>>
        BY <1>7 DEF ReadLastOfChunkSync
    <2>2. TypeOK'
        BY <1>1, <1>3, <1>4, <1>5, <2>1, ChunkSizeAssumption DEF Inv, TypeOK, file, task
    <2>3. Placed' /\ Closed'
        BY <1>0, <1>1, <1>2, <1>3, <1>4, <2>1, ChunkSizeAssumption
        DEF Inv, Placed, Closed, Chunk, LastChunk, file, task
    <2>4. ASSUME Coherent PROVE Coherent'
        <3>1. c = n - 1
            BY <1>0, <1>1, <1>7, <2>4 DEF Coherent, LastChunk
        <3>2. Consumed(old)
            BY <1>3, <1>6, <2>4 DEF Consumed
        <3>3. ReachedEndOfChunks' /\ LastChunk' = c
            BY <1>1, <1>4, <2>1, <2>4, <3>1 DEF Coherent, ReachedEndOfChunks, LastChunk, file
        <3>4. /\ num_marker_records' = ChunkStart(c) + old.rd
              /\ next_chunk_end' > ChunkStart(c) + ChunkSize
            BY <1>1, <1>3, <1>4, <1>5, <1>6, <2>4, ChunkSizeAssumption
        <3> QED
            BY <1>0, <1>1, <1>3, <1>4, <1>7, <2>1, <3>2, <3>3, <3>4 DEF Coherent, file, task
    <2> QED
        BY <1>0, <1>4, <2>2, <2>3, <2>4 DEF Inv, NeverOverruns, Sound, Usable
<1>8. CASE next_chunk_index < n
    <2>0. file_pos \in 0..(n - 1)
        BY <1>0, <1>1, <1>8
    <2>1. /\ out_buf' = Advance(Holding(total, file_pos), 0)
          /\ last_read_pos' = file_pos /\ in_buf_rd' = 1 /\ file_pos' = file_pos + 1
          /\ next_chunk_index' = next_chunk_index + 1
        BY <1>0, <1>1, <1>8 DEF ReadLastOfChunkSync, ReadChunkSync
    <2>2. /\ Holding(total, file_pos) \in Buffers
          /\ Holding(total, file_pos).chunk = file_pos
          /\ Holding(total, file_pos).rd = 0
          /\ Holding(total, file_pos).size = ChunkLen(total, file_pos)
          /\ ChunkLen(total, file_pos) \in 1..ChunkSize
        BY <1>1, <2>0, HoldingFacts
    <2>3. /\ out_buf' \in Buffers /\ out_buf'.chunk = file_pos /\ out_buf'.rd = 0
          /\ out_buf'.size = ChunkLen(total, file_pos)
        BY <2>1, <2>2, BufferOps
    <2>4. TypeOK'
        BY <1>0, <1>1, <1>4, <1>5, <2>1, <2>3, ChunkSizeAssumption DEF Inv, TypeOK, file, task
    <2>5. Placed' /\ Closed'
        BY <1>0, <1>1, <1>4, <1>8, <2>0, <2>1, <2>2, <2>3
        DEF Inv, Placed, Closed, Chunk, LastChunk, file, task
    <2>6. ASSUME Coherent PROVE Coherent'
        <3>1. file_pos = c + 1
            BY <1>0, <1>1, <1>8, <2>6 DEF Coherent, LastChunk
        <3>2. /\ num_marker_records' = ChunkStart(out_buf'.chunk) + out_buf'.rd
              /\ next_chunk_end' = ChunkStart(out_buf'.chunk) + ChunkSize
            BY <1>1, <1>4, <1>5, <1>6, <2>3, <2>6, <3>1, ChunkSizeAssumption
        <3>3. ~Consumed(out_buf')
            BY <2>2, <2>3 DEF Consumed
        <3>4. LastChunk' = n - 1 /\ out_buf'.chunk = next_chunk_index
            BY <1>0, <1>4, <2>3 DEF LastChunk, file
        <3>5. out_buf'.chunk = n - 1 => ReachedEndOfChunks'
            BY <1>0, <1>1, <1>4, <2>0, <2>1, <3>4 DEF ReachedEndOfChunks, file
        <3>6. future' = "none" /\ ~prefetch' /\ next_chunk_index' = out_buf'.chunk + 1 /\ NumChunks(total)' = n
            BY <1>0, <1>4, <2>1, <3>4 DEF file, task
        <3> QED
            BY <1>1, <3>2, <3>3, <3>4, <3>5, <3>6 DEF Coherent
    <2> QED
        BY <1>0, <1>4, <2>4, <2>5, <2>6 DEF Inv, NeverOverruns, Sound, Usable
<1> QED
    BY <1>0, <1>1, <1>7, <1>8

\* An exception at a chunk boundary keeps the invariant.
LEMMA ReadLastOfChunkFailsInv ==
    ASSUME Inv, ReadLastOfChunkFails
    PROVE  Inv'
<1>1. requested' \in Nat
    BY DEF ReadLastOfChunkFails, Inv, TypeOK
<1>2. CASE FinishFails
    BY <1>1, <1>2, FinishFailsInv
<1>3. CASE GiveUp("bad_chunk") /\ UNCHANGED task
    BY <1>1, <1>3, GiveUpInv DEF Fatal, Inv, TypeOK, task
<1> QED
    BY <1>2, <1>3 DEF ReadLastOfChunkFails

\* The read that reports the end of the trace keeps the invariant.
LEMMA ReadAtEndInv ==
    ASSUME Inv, ReadAtEnd
    PROVE  Inv'
<1>1. TypeOK'
    BY DEF Inv, TypeOK, ReadAtEnd, file, shared, task
<1>2. Placed' /\ Closed'
    BY DEF Inv, Placed, Closed, ReadAtEnd, Chunk, LastChunk, file, shared, task
<1>3. Sound' => Sound
    BY DEF Sound, Usable, ReadAtEnd
<1>4. Coherent => Coherent'
    BY DEF ReadAtEnd, Coherent, LastChunk, Consumed, ReachedEndOfChunks, file, shared, task
<1> QED
    BY <1>1, <1>2, <1>3, <1>4 DEF Inv, NeverOverruns, ReadAtEnd

\* Until a call has thrown, out_buf is used up only at the end of the trace,
\* and a marker before next_chunk_end that is not in out_buf does not exist.
LEMMA EndFacts ==
    ASSUME Inv, stream = "open", Coherent
    PROVE  /\ Consumed(out_buf) => AllInputConsumed
           /\ \A n \in Nat : num_marker_records + n < next_chunk_end /\ n > Left => EndAhead
<1> DEFINE c == out_buf.chunk
<1>1. /\ total \in Nat \ {0} /\ NumChunks(total) \in Nat \ {0}
      /\ c \in 0..(NumChunks(total) - 1)
      /\ out_buf.size \in 1..ChunkSize /\ out_buf.rd \in 0..out_buf.size
    BY OpenFacts
<1>2. CASE c = LastChunk
    BY <1>2 DEF Coherent, AllInputConsumed, EndAhead
<1>3. CASE c < LastChunk
    <2>1. ChunkStart(c) \in Nat
        BY <1>1, Starts
    <2>2. out_buf.size = ChunkSize
        BY <1>1, <1>3, Lengths DEF LastChunk, Inv, Placed
    <2> QED
        BY <1>1, <1>3, <2>1, <2>2, ChunkSizeAssumption DEF Coherent, Left
<1> QED
    BY <1>1, <1>2, <1>3 DEF LastChunk

\* A read or a seek that runs off out_buf is possible only once a call has
\* thrown; then it keeps the invariant.
LEMMA OverrunInv ==
    ASSUME Inv, ReadOverrun \/ \E n \in 0..MaxSeek : SeekWithinOverrun(n)
    PROVE  Inv'
<1>1. GiveUp("overrun") /\ UNCHANGED task /\ Usable
    BY DEF ReadOverrun, SeekWithinOverrun
<1>2. requested' \in Nat
    BY ReaderAssumption DEF ReadOverrun, SeekWithinOverrun, Inv, TypeOK
<1>3. threw
    BY <1>1, EndFacts, ReaderAssumption DEF Inv, Sound, Usable, ReadOverrun, SeekWithinOverrun
<1> QED
    BY <1>1, <1>2, <1>3, GiveUpInv DEF Fatal, Inv, TypeOK, task

\* The three ways a seek before next_chunk_end can return or throw.
LEMMA SeekWithinInv ==
    ASSUME Inv, NEW n \in 0..MaxSeek, SeekWithin(n)
    PROVE  Inv'
<1> DEFINE c == out_buf.chunk
<1>0. stream = "open" /\ (~threw => Coherent) /\ n \in Nat
    BY ReaderAssumption DEF SeekWithin, Usable, Inv, Sound
<1>1. /\ total \in Nat \ {0} /\ NumChunks(total) \in Nat \ {0}
      /\ c \in 0..(NumChunks(total) - 1) /\ out_buf \in Buffers
      /\ out_buf.size \in 1..ChunkSize /\ out_buf.rd \in 0..out_buf.size
    BY <1>0, OpenFacts
<1>2. out_buf.rd + n <= out_buf.size
    BY <1>0, <1>1, ChunkSizeAssumption DEF SeekWithin, Left
<1>3. /\ out_buf' \in Buffers /\ out_buf'.chunk = c
      /\ out_buf'.size = out_buf.size /\ out_buf'.rd = out_buf.rd + n
    BY <1>0, <1>1, BufferOps DEF SeekWithin
<1>4. /\ UNCHANGED <<file, next_chunk_end, next_chunk_index, shared, task, delivered, threw>>
      /\ num_marker_records' = num_marker_records + n
      /\ requested' = num_marker_records + n
    BY DEF SeekWithin
<1>5. successful_read' \in BOOLEAN /\ outcome' \in {"ok", "eof"}
    BY DEF SeekWithin, Inv, TypeOK
<1>6. ChunkStart(c) \in Nat
    BY <1>1, Starts
<1>7. TypeOK'
    BY <1>0, <1>1, <1>3, <1>4, <1>5 DEF Inv, TypeOK, file, shared, task
<1>8. Placed' /\ Closed'
    BY <1>0, <1>1, <1>2, <1>3, <1>4, ChunkSizeAssumption
    DEF Inv, Placed, Closed, Chunk, LastChunk, file, shared, task
<1>9. ASSUME Coherent PROVE Coherent'
    <2>1. CASE c < LastChunk
        <3>1. /\ num_marker_records = ChunkStart(c) + out_buf.rd
              /\ next_chunk_end = ChunkStart(c) + ChunkSize
              /\ out_buf.size = ChunkSize
            BY <1>0, <1>1, <1>9, <2>1, Lengths DEF Coherent, LastChunk, Inv, Placed
        <3>2. out_buf.rd + n < ChunkSize
            BY <1>0, <1>1, <1>6, <3>1, ChunkSizeAssumption DEF SeekWithin
        <3> QED
            BY <1>0, <1>1, <1>3, <1>4, <1>6, <1>9, <2>1, <3>1, <3>2, ChunkSizeAssumption
            DEF Coherent, LastChunk, Consumed, file, task
    <2>2. CASE c = LastChunk
        <3>1. Consumed(out_buf) => Consumed(out_buf')
            BY <1>0, <1>1, <1>2, <1>3, ChunkSizeAssumption DEF Consumed
        <3> QED
            BY <1>0, <1>1, <1>3, <1>4, <1>6, <1>9, <2>2, <3>1, ChunkSizeAssumption
            DEF Coherent, LastChunk, ReachedEndOfChunks, file, shared, task
    <2> QED
        BY <1>1, <2>1, <2>2 DEF LastChunk
<1>10. NeverOverruns'
    BY <1>5 DEF NeverOverruns
<1> QED
    BY <1>0, <1>4, <1>7, <1>8, <1>9, <1>10 DEF Inv, Sound

\* A seek inside the chunk after the end has been reported changes nothing.
LEMMA SeekWithinAtEofInv ==
    ASSUME Inv, NEW n \in 0..MaxSeek, SeekWithinAtEof(n)
    PROVE  Inv'
<1>1. TypeOK'
    BY ReaderAssumption DEF Inv, TypeOK, SeekWithinAtEof, file, cursor, shared, task
<1>2. Placed' /\ Closed'
    BY DEF Inv, Placed, Closed, SeekWithinAtEof, Chunk, LastChunk, file, cursor, shared, task
<1>3. Sound' => Sound
    BY DEF Sound, Usable, SeekWithinAtEof
<1>4. Coherent => Coherent'
    BY DEF SeekWithinAtEof, Coherent, LastChunk, Consumed, ReachedEndOfChunks,
           file, cursor, shared, task
<1> QED
    BY <1>1, <1>2, <1>3, <1>4 DEF Inv, NeverOverruns, SeekWithinAtEof

\* A seek inside the last chunk that runs into the end of the trace throws, and
\* keeps the invariant.
LEMMA SeekWithinPastEndInv ==
    ASSUME Inv, NEW n \in 0..MaxSeek, SeekWithinPastEnd(n)
    PROVE  Inv'
<1>0. stream = "open" /\ n \in Nat
    BY ReaderAssumption DEF SeekWithinPastEnd, Usable
<1>1. /\ out_buf \in Buffers /\ out_buf.size \in 1..ChunkSize
      /\ out_buf.rd \in 0..out_buf.size /\ num_marker_records \in Nat
    BY <1>0, OpenFacts DEF Inv, TypeOK
<1>2. /\ out_buf' \in Buffers /\ out_buf'.chunk = out_buf.chunk
      /\ out_buf'.size = out_buf.size /\ out_buf'.rd = out_buf.size
    BY <1>0, <1>1, BufferOps DEF SeekWithinPastEnd
<1>3. /\ UNCHANGED <<file, next_chunk_end, next_chunk_index, shared, task, delivered>>
      /\ requested' = num_marker_records + n
      /\ outcome' = "past_end" /\ threw' = TRUE /\ successful_read' = FALSE
      /\ num_marker_records' = num_marker_records + Left
    BY DEF SeekWithinPastEnd, Throw
<1>4. Left \in Nat
    BY <1>1, ChunkSizeAssumption DEF Left
<1>5. TypeOK'
    <2>1. num_marker_records' \in Nat /\ requested' \in Nat
        BY <1>0, <1>1, <1>3, <1>4
    <2>2. successful_read' \in BOOLEAN /\ threw' \in BOOLEAN
        BY <1>3
    <2> QED
        BY <1>2, <1>3, <2>1, <2>2 DEF Inv, TypeOK, file, shared, task
<1>6. Placed' /\ Closed'
    BY <1>0, <1>1, <1>2, <1>3, ChunkSizeAssumption
    DEF Inv, Placed, Closed, Chunk, LastChunk, file, shared, task
<1> QED
    BY <1>3, <1>5, <1>6 DEF Inv, NeverOverruns, Sound

\* Every seek across a chunk boundary goes through finishDecompression_ first.
LEMMA FinishedBuffers ==
    ASSUME Inv, stream = "open", FinishReturns
    PROVE  /\ SwappedOut(Consume(out_buf)) \in Buffers
           /\ Consume(out_buf) \in Buffers
BY OpenFacts, BufferOps, FinishFacts

\* seek() to or past the chunk boundary keeps the invariant: a jump, a refusal
\* or an exception of one of the two chunks.
LEMMA SeekAcrossInv ==
    ASSUME Inv, NEW n \in 0..MaxSeek, SeekAcross(n)
    PROVE  Inv'
<1> DEFINE target == num_marker_records + n
           c == target \div ChunkSize
<1>0. stream = "open" /\ target \in Nat /\ requested' = target
    BY ReaderAssumption DEF SeekAcross, Usable, Inv, TypeOK
<1>1. total \in Nat \ {0} /\ NumChunks(total) \in Nat \ {0} /\ out_buf \in Buffers
    BY <1>0, OpenFacts
<1>2. c \in Nat /\ (target % ChunkSize) \in 0..(ChunkSize - 1)
    BY <1>0, Division
<1>3. CASE FinishFails
    BY <1>0, <1>3, FinishFailsInv
<1>4. CASE FinishReturns /\ RefuseSeek
    <2> DEFINE left == Consume(out_buf)
    <2>1. /\ left \in Buffers /\ left.chunk = out_buf.chunk /\ left.size = out_buf.size
          /\ left.rd = out_buf.size
        BY <1>1, BufferOps
    <2>2. /\ out_buf' = AfterFinish(left) /\ out_buf' \in Buffers
          /\ decompressed_buf' = SwappedOut(left) /\ decompressed_buf' \in Buffers
        BY <1>0, <1>4, <2>1, FinishFacts DEF RefuseSeek
    <2>3. /\ out_buf'.chunk \in 0..(NumChunks(total) - 1)
          /\ out_buf'.size = ChunkLen(total, out_buf'.chunk)
          /\ out_buf'.rd <= out_buf'.size
        <3>1. CASE in_progress
            <4>1. out_buf' = Holding(total, last_read_pos)
                  /\ last_read_pos \in 0..(NumChunks(total) - 1)
                BY <1>0, <1>4, <2>2, <3>1, FinishFacts
            <4> QED
                BY <1>1, <4>1, HoldingFacts
        <3>2. CASE ~in_progress
            <4>1. out_buf' = left
                BY <1>0, <1>4, <2>2, <3>2, FinishFacts
            <4>2. /\ out_buf.chunk \in 0..(NumChunks(total) - 1)
                  /\ out_buf.size = ChunkLen(total, out_buf.chunk)
                  /\ out_buf.size \in 1..ChunkSize
                BY <1>0, OpenFacts DEF Inv, Placed
            <4> QED
                BY <2>1, <4>1, <4>2, ChunkSizeAssumption
        <3> QED
            BY <3>1, <3>2
    <2>4. /\ in_progress' = FALSE /\ future' = "none" /\ in_buf_rd' = 0
          /\ outcome' = "past_end" /\ threw' = TRUE
          /\ UNCHANGED <<file, num_marker_records, next_chunk_end, next_chunk_index,
                         successful_read, last_read_pos, file_pos, delivered>>
        BY <1>4 DEF RefuseSeek, Throw
    <2>5. file_pos = next_chunk_index
        BY <1>0, <1>4, FinishFacts
    <2>6. TypeOK'
        BY <1>0, <2>2, <2>4 DEF Inv, TypeOK, file
    <2>7. Placed' /\ Closed'
        BY <1>0, <2>3, <2>4, <2>5 DEF Inv, Placed, Closed, Chunk, LastChunk, file
    <2> QED
        BY <2>4, <2>6, <2>7 DEF Inv, NeverOverruns, Sound
<1>5. CASE FinishReturns /\ c < NumChunks(total)
           /\ JumpTo(c, target % ChunkSize, SwappedOut(Consume(out_buf)))
    <2>1. c \in 0..(NumChunks(total) - 1)
        BY <1>1, <1>2, <1>5
    <2>2. SwappedOut(Consume(out_buf)) \in Buffers
        BY <1>0, <1>5, FinishedBuffers
    <2> QED
        BY <1>0, <1>2, <1>5, <2>1, <2>2, JumpInv
<1>6. CASE FinishReturns /\ JumpFails(c)
    BY <1>0, <1>6, JumpFailsInv
<1> QED
    BY <1>3, <1>4, <1>5, <1>6 DEF SeekAcross

\* rewind() keeps the invariant.
LEMMA RewindInv ==
    ASSUME Inv, Rewind
    PROVE  Inv'
<1>0. stream = "open" /\ requested' = 0
    BY DEF Rewind, Usable
<1>1. CASE FinishFails
    BY <1>0, <1>1, FinishFailsInv
<1>2. CASE FinishReturns /\ JumpTo(0, 0, SwappedOut(Consume(out_buf)))
    <2>1. 0 \in 0..(NumChunks(total) - 1) /\ 0 \in 0..(ChunkSize - 1)
        BY <1>0, OpenFacts, ChunkSizeAssumption
    <2>2. SwappedOut(Consume(out_buf)) \in Buffers
        BY <1>0, <1>2, FinishedBuffers
    <2> QED
        BY <1>0, <1>2, <2>1, <2>2, JumpInv
<1> QED
    BY <1>1, <1>2 DEF Rewind

\* seekFromOffset() inside the chunk of its offset keeps the invariant.
LEMMA SeekFromOffsetNearInv ==
    ASSUME Inv, NEW at \in 0..(total - 1), NEW n \in 0..MaxSeek, SeekFromOffsetNear(at, n)
    PROVE  Inv'
<1> DEFINE c == at \div ChunkSize
           k == (at % ChunkSize) + n
<1>0. /\ stream = "open" /\ at \in Nat /\ n \in Nat /\ at < total
      /\ requested' \in Nat
    BY ReaderAssumption DEF SeekFromOffsetNear, Usable, Inv, TypeOK
<1>1. total \in Nat \ {0} /\ NumChunks(total) \in Nat \ {0}
    BY <1>0, OpenFacts
<1>2. /\ c \in 0..(NumChunks(total) - 1)
      /\ (at % ChunkSize) \in 0..(ChunkSize - 1)
    BY <1>0, <1>1, Division, ChunkOfMarker
<1>3. k \in 0..(ChunkSize - 1)
    BY <1>0, <1>2, ChunkSizeAssumption DEF SeekFromOffsetNear
<1>4. CASE FinishFails
    BY <1>0, <1>4, FinishFailsInv
<1>5. CASE FinishReturns /\ JumpTo(c, k, SwappedOut(Consume(out_buf)))
    <2>1. SwappedOut(Consume(out_buf)) \in Buffers
        BY <1>0, <1>5, FinishedBuffers
    <2> QED
        BY <1>0, <1>2, <1>3, <1>5, <2>1, JumpInv
<1>6. CASE FinishReturns /\ JumpFails(c)
    BY <1>0, <1>6, JumpFailsInv
<1> QED
    BY <1>4, <1>5, <1>6 DEF SeekFromOffsetNear

\* seekFromOffset() past the last chunk, which loads a chunk and throws it away
\* before it throws, keeps the invariant.
LEMMA SeekFromOffsetRefusedInv ==
    ASSUME Inv, stream = "open", FinishReturns, requested' \in Nat,
           NEW c \in 0..(NumChunks(total) - 1), NEW prefetched \in BOOLEAN,
           prefetched <=> prefetch /\ c + 1 < NumChunks(total),
           SeekFromOffsetRefused(c, prefetched)
    PROVE  Inv'
<1> DEFINE n == NumChunks(total)
<1>0. /\ total \in Nat \ {0} /\ n \in Nat \ {0} /\ c \in Nat /\ ChunkStart(c) \in Nat
      /\ out_buf \in Buffers /\ decompressed_buf \in Buffers
    BY OpenFacts, Starts
<1>1. /\ Holding(total, c) \in Buffers
      /\ Holding(total, c).chunk = c
      /\ Holding(total, c).size = ChunkLen(total, c)
      /\ ChunkLen(total, c) \in 1..ChunkSize
    BY <1>0, HoldingFacts
<1>2. /\ Consume(Holding(total, c)) \in Buffers
      /\ Consume(Holding(total, c)).chunk = c
      /\ Consume(Holding(total, c)).size = ChunkLen(total, c)
      /\ Consume(Holding(total, c)).rd = ChunkLen(total, c)
      /\ Consume(SwappedOut(out_buf)) \in Buffers
    BY <1>0, <1>1, BufferOps, FinishFacts
<1>3. /\ num_marker_records' = ChunkStart(c)
      /\ next_chunk_end' = ChunkStart(c) + ChunkSize
      /\ in_buf_rd' = 0 /\ in_progress' = FALSE /\ future' = "none"
      /\ outcome' = "past_end" /\ threw' = TRUE
      /\ UNCHANGED <<file, successful_read, delivered>>
    BY DEF SeekFromOffsetRefused, Throw
<1>4. in_progress' \in BOOLEAN /\ threw' \in BOOLEAN
    BY <1>3
<1>5. CASE prefetched
    <2>1. c + 1 \in 0..(n - 1)
        BY <1>0, <1>5
    <2>2. /\ Holding(total, c + 1) \in Buffers
          /\ Holding(total, c + 1).chunk = c + 1
          /\ Holding(total, c + 1).size = ChunkLen(total, c + 1)
          /\ Holding(total, c + 1).rd = 0
          /\ ChunkLen(total, c + 1) \in 1..ChunkSize
        BY <1>0, <2>1, HoldingFacts
    <2>3. /\ out_buf' = Holding(total, c + 1)
          /\ decompressed_buf' = Consume(Holding(total, c))
          /\ next_chunk_index' = c + 2 /\ last_read_pos' = c + 1 /\ file_pos' = c + 2
        BY <1>5 DEF SeekFromOffsetRefused
    <2>4. TypeOK'
        <3>1. next_chunk_index' \in Nat /\ last_read_pos' \in Nat /\ file_pos' \in Nat
              /\ next_chunk_end' \in Nat
            BY <1>0, <1>3, <2>3, ChunkSizeAssumption
        <3> QED
            BY <1>0, <1>2, <1>3, <1>4, <2>2, <2>3, <3>1 DEF Inv, TypeOK, file
    <2>5. Placed' /\ Closed'
        BY <1>0, <1>3, <2>1, <2>2, <2>3, ChunkSizeAssumption
        DEF Placed, Closed, Chunk, LastChunk, file
    <2> QED
        BY <1>3, <2>4, <2>5 DEF Inv, NeverOverruns, Sound
<1>6. CASE ~prefetched
    <2>1. /\ out_buf' = Consume(Holding(total, c))
          /\ decompressed_buf' \in {Consume(SwappedOut(out_buf)), decompressed_buf}
          /\ next_chunk_index' = c + 1 /\ last_read_pos' = c /\ file_pos' = c + 1
        BY <1>6 DEF SeekFromOffsetRefused
    <2>2. TypeOK'
        <3>1. next_chunk_index' \in Nat /\ last_read_pos' \in Nat /\ file_pos' \in Nat
              /\ next_chunk_end' \in Nat
            BY <1>0, <1>3, <2>1, ChunkSizeAssumption
        <3>2. decompressed_buf' \in Buffers
            BY <1>0, <1>2, <2>1
        <3> QED
            BY <1>0, <1>2, <1>3, <1>4, <2>1, <3>1, <3>2 DEF Inv, TypeOK, file
    <2>3. Placed' /\ Closed'
        BY <1>0, <1>1, <1>2, <1>3, <2>1, ChunkSizeAssumption
        DEF Placed, Closed, Chunk, LastChunk, file
    <2> QED
        BY <1>3, <2>2, <2>3 DEF Inv, NeverOverruns, Sound
<1> QED
    BY <1>5, <1>6

\* seekFromOffset() that leaves the chunk of its offset keeps the invariant.
LEMMA SeekFromOffsetFarInv ==
    ASSUME Inv, NEW at \in 0..(total - 1), NEW n \in 0..MaxSeek, SeekFromOffsetFar(at, n)
    PROVE  Inv'
<1> DEFINE c == at \div ChunkSize
           d == (at + n) \div ChunkSize
           prefetched == prefetch /\ c + 1 < NumChunks(total)
<1>0. /\ stream = "open" /\ at \in Nat /\ n \in Nat /\ at < total /\ at + n \in Nat
      /\ requested' \in Nat
    BY ReaderAssumption DEF SeekFromOffsetFar, Usable, Inv, TypeOK
<1>1. total \in Nat \ {0} /\ NumChunks(total) \in Nat \ {0}
    BY <1>0, OpenFacts
<1>2. /\ c \in 0..(NumChunks(total) - 1)
      /\ d \in Nat
      /\ ((at + n) % ChunkSize) \in 0..(ChunkSize - 1)
    BY <1>0, <1>1, Division, ChunkOfMarker
<1>3. CASE FinishFails
    BY <1>0, <1>3, FinishFailsInv
<1>4. CASE FinishReturns /\ JumpFails(c)
    BY <1>0, <1>4, JumpFailsInv
<1>5. CASE FinishReturns /\ GiveUp("bad_chunk") /\ in_progress' = TRUE /\ future' = "none"
    <2>1. future # "launched"
        BY <1>0, <1>5, FinishFacts
    <2> QED
        BY <1>0, <1>5, <2>1, GiveUpInv DEF Fatal
<1>6. CASE FinishReturns /\ d < NumChunks(total)
           /\ JumpTo(d, (at + n) % ChunkSize, Consume(Holding(total, c)))
    <2>1. Consume(Holding(total, c)) \in Buffers
        BY <1>1, <1>2, HoldingFacts, BufferOps
    <2>2. d \in 0..(NumChunks(total) - 1)
        BY <1>1, <1>2, <1>6
    <2> QED
        BY <1>0, <1>2, <1>6, <2>1, <2>2, JumpInv
<1>7. CASE FinishReturns /\ JumpFails(d)
    BY <1>0, <1>7, JumpFailsInv
<1>8. CASE FinishReturns /\ SeekFromOffsetRefused(c, prefetched)
    <2>1. prefetched \in BOOLEAN
        OBVIOUS
    <2> QED
        BY <1>0, <1>2, <1>8, <2>1, SeekFromOffsetRefusedInv
<1> QED
    BY <1>3, <1>4, <1>5, <1>6, <1>7, <1>8 DEF SeekFromOffsetFar

\* The steps of the prefetch keep the invariant, at whatever point of the
\* caller's work they come.
LEMMA TaskInv ==
    ASSUME Inv, Task
    PROVE  Inv'
<1> DEFINE n == NumChunks(total)
<1>0. /\ stream = "open" /\ future \in {"launched", "reading"} /\ prefetch
      /\ total \in Nat \ {0} /\ n \in Nat \ {0}
      /\ next_chunk_index - 1 \in 0..(n - 1)
    <2>1. stream = "open" /\ future \in {"launched", "reading"} /\ prefetch
        BY DEF Inv, Placed, Task, TaskRead, TaskDecompress
    <2> QED
        BY <2>1, OpenFacts DEF Inv, Placed
<1>1. /\ ChunkLen(total, next_chunk_index - 1) \in 1..ChunkSize
      /\ Holding(total, next_chunk_index - 1) \in Buffers
    BY <1>0, HoldingFacts
<1>2. UNCHANGED <<file, cursor, in_progress, history>>
    BY DEF Task, TaskRead, TaskDecompress
<1>3. CASE TaskRead
    <2>1. /\ future = "launched" /\ future' = "reading"
          /\ decompressed_buf' = Filling(ChunkLen(total, next_chunk_index - 1))
          /\ in_buf_rd' = 0
          /\ last_read_pos' = next_chunk_index - 1
          /\ file_pos' = next_chunk_index
        BY <1>3 DEF TaskRead, Inv, Placed
    <2>2. decompressed_buf' \in Buffers
        BY <1>1, <2>1, FillingFacts, ChunkSizeAssumption
    <2>3. TypeOK'
        BY <1>0, <1>2, <2>1, <2>2 DEF Inv, TypeOK, file, cursor, history
    <2>4. Placed' /\ Closed'
        BY <1>2, <2>1 DEF Inv, Placed, Closed, Chunk, LastChunk, file, cursor
    <2>5. Coherent => Coherent'
        BY <1>0, <1>2, <2>1 DEF Coherent, LastChunk, Consumed, file, cursor
    <2> QED
        BY <1>2, <2>3, <2>4, <2>5 DEF Inv, NeverOverruns, Sound, Usable, file, history
<1>4. CASE TaskDecompress
    <2>1. /\ future = "reading" /\ UNCHANGED <<last_read_pos, file_pos>>
          /\ last_read_pos = next_chunk_index - 1
          /\ \/ future' = "failed" /\ UNCHANGED <<decompressed_buf, in_buf_rd>>
             \/ /\ future' = "ready" /\ in_buf_rd' = 1
                /\ decompressed_buf' = Holding(total, next_chunk_index - 1)
        BY <1>4 DEF TaskDecompress, Inv, Placed
    <2>2. decompressed_buf' \in Buffers /\ in_buf_rd' \in {0, 1}
          /\ future' \in {"ready", "failed"}
        BY <1>1, <2>1 DEF Inv, TypeOK
    <2>3. TypeOK'
        BY <1>0, <1>2, <2>1, <2>2 DEF Inv, TypeOK, file, cursor, history
    <2>4. Placed' /\ Closed'
        BY <1>2, <2>1 DEF Inv, Placed, Closed, Chunk, LastChunk, file, cursor
    <2>5. Coherent => Coherent'
        BY <1>0, <1>2, <2>1 DEF Coherent, LastChunk, Consumed, file, cursor
    <2> QED
        BY <1>2, <2>3, <2>4, <2>5 DEF Inv, NeverOverruns, Sound, Usable, file, history
<1> QED
    BY <1>3, <1>4 DEF Task

-----------------------------------------------------------------------------
(* The theorems. *)

\* The invariant is inductive: every step of the caller or of the prefetch
\* keeps it.
LEMMA NextInv == Inv /\ [Next]_vars => Inv'
<1> SUFFICES ASSUME Inv, [Next]_vars PROVE Inv'
    OBVIOUS
<1>1. ASSUME NEW t \in TraceLengths, Open(t) PROVE Inv'
    BY <1>1, OpenInv
<1>2. CASE Close
    BY <1>2, CloseInv
<1>3. CASE CloseFails
    <2>1. requested' \in Nat /\ FinishFails
        BY <1>3 DEF CloseFails, Inv, TypeOK
    <2> QED
        BY <2>1, FinishFailsInv
<1>4. CASE Read
    <2>1. CASE ReadOverrun
        BY <2>1, OverrunInv
    <2> QED
        BY <1>4, <2>1, ReadInChunkInv, ReadLastOfChunkInv, ReadLastOfChunkSyncInv,
           ReadLastOfChunkFailsInv, ReadAtEndInv DEF Read
<1>5. CASE Rewind
    BY <1>5, RewindInv
<1>6. ASSUME NEW n \in 0..MaxSeek, Seek(n) PROVE Inv'
    <2>1. CASE SeekWithinOverrun(n)
        BY <2>1, OverrunInv
    <2> QED
        BY <1>6, <2>1, SeekWithinInv, SeekWithinAtEofInv, SeekWithinPastEndInv,
           SeekAcrossInv DEF Seek
<1>7. ASSUME NEW at \in 0..(total - 1), NEW n \in 0..MaxSeek, SeekFromOffset(at, n)
      PROVE  Inv'
    BY <1>7, SeekFromOffsetNearInv, SeekFromOffsetFarInv DEF SeekFromOffset
<1>8. CASE Task
    BY <1>8, TaskInv
<1>9. CASE UNCHANGED vars
    BY <1>9 DEF Inv, TypeOK, Placed, Closed, Sound, Usable, Coherent, NeverOverruns,
                Chunk, LastChunk, Consumed, ReachedEndOfChunks,
                vars, file, cursor, shared, task, history
<1> QED
    BY <1>1, <1>2, <1>3, <1>4, <1>5, <1>6, <1>7, <1>8, <1>9 DEF Next, Move

\* The inductive invariant of STFCompressedIFstream: types, the place of the
\* buffers and of the file pointer, and, until a call throws, the agreement of
\* counter, boundary and buffers.
THEOREM Invariance == Spec => []Inv
<1>1. Inv /\ [Next]_vars => Inv'
    BY NextInv
<1> QED
    BY <1>1, InitInv, PTL DEF Spec

\* Every variable of the reader stays in its type, after any failure too.
THEOREM TypeCorrect == Spec => []TypeOK
<1>1. Inv => TypeOK
    BY DEF Inv
<1> QED
    BY <1>1, Invariance, PTL

\* The marker counter and the buffers agree: PositionCoherent holds of traces
\* of any length, chunks of any size and any interleaving with the prefetch.
THEOREM PositionIsCoherent == Spec => []PositionCoherent
<1>1. Inv => PositionCoherent
    <2> SUFFICES ASSUME Inv, Sound PROVE PositionCoherent
        BY DEF PositionCoherent
    <2>1. stream = "open" /\ Coherent
        BY DEF Inv, Sound, Usable
    <2>2. /\ total \in Nat \ {0} /\ NumChunks(total) \in Nat \ {0}
          /\ out_buf.chunk \in 0..(NumChunks(total) - 1)
          /\ out_buf.size \in 1..ChunkSize /\ out_buf.rd \in 0..out_buf.size
          /\ out_buf.size = ChunkLen(total, out_buf.chunk)
        BY <2>1, OpenFacts DEF Inv, Placed
    <2>3. Consumed(out_buf) => num_marker_records = total
        <3>1. CASE out_buf.chunk = NumChunks(total) - 1
            BY <2>1, <2>2, <3>1, Lengths DEF Coherent, Consumed
        <3>2. CASE out_buf.chunk < NumChunks(total) - 1
            BY <2>1, <2>2, <3>2 DEF Coherent, LastChunk
        <3> QED
            BY <2>2, <3>1, <3>2
    <2> QED
        BY <2>1, <2>2, <2>3 DEF PositionCoherent, Coherent, LastChunk
<1> QED
    BY <1>1, Invariance, PTL

\* No read runs off the decompressed data unless a call has thrown before.
THEOREM OverrunFree == Spec => []NeverOverruns
<1>1. Inv => NeverOverruns
    BY DEF Inv
<1> QED
    BY <1>1, Invariance, PTL

\* What the task writes while it runs cannot change the value of the test for
\* the end of the trace.
THEOREM EofTestIsRaceFree == Spec => []EofTestRaceFree
<1>1. Inv => EofTestRaceFree
    <2> SUFFICES ASSUME Inv, Sound, ~TaskDone PROVE ~Consumed(out_buf)
        BY DEF EofTestRaceFree
    <2>1. stream = "open" /\ Coherent /\ future # "none"
        BY DEF Inv, Sound, Usable, TaskDone
    <2>2. out_buf.chunk \in 0..(NumChunks(total) - 1) /\ NumChunks(total) \in Nat
        BY <2>1, OpenFacts
    <2> QED
        BY <2>1, <2>2 DEF Coherent, LastChunk
<1> QED
    BY <1>1, Invariance, PTL

-----------------------------------------------------------------------------
(* The task's state is its own while it runs. *)

\* TaskOwnsShared for every instance: a step taken while the task is running
\* is a step of the task, or one that touches neither what the task uses nor
\* its future.
THEOREM TaskOwnsSharedState == Spec => TaskOwnsShared
<1>1. ASSUME Inv, [Next]_vars, ~TaskDone
      PROVE  Task \/ UNCHANGED <<shared, future>>
    <2>0. /\ future \in {"launched", "reading"} /\ in_progress /\ prefetch
          /\ stream = "open"
        BY <1>1 DEF Inv, TypeOK, Placed, TaskDone
    <2>1. ~FinishReturns /\ ~FinishFails
        BY <2>0 DEF FinishReturns, FinishFails
    <2>2. CASE Read
        BY <2>0, <2>1, <2>2
        DEF Read, ReadInChunk, ReadLastOfChunk, ReadLastOfChunkSync, ReadLastOfChunkFails,
            ReadAtEnd, ReadOverrun, GiveUp, task
    <2>3. ASSUME NEW n, Seek(n) PROVE UNCHANGED <<shared, future>>
        BY <2>0, <2>1, <2>3
        DEF Seek, SeekWithin, SeekWithinAtEof, SeekWithinPastEnd, SeekWithinOverrun,
            SeekAcross, GiveUp, task
    <2>4. ~Rewind /\ ~Close /\ ~CloseFails /\ \A t : ~Open(t)
        BY <2>0, <2>1 DEF Rewind, Close, CloseFails, Open
    <2>5. \A at, n : ~SeekFromOffset(at, n)
        BY <2>1 DEF SeekFromOffset, SeekFromOffsetNear, SeekFromOffsetFar
    <2>6. CASE UNCHANGED vars
        BY <2>6 DEF vars, task
    <2> QED
        BY <1>1, <2>2, <2>3, <2>4, <2>5, <2>6 DEF Next, Move
<1>2. Inv /\ [Next]_vars => [~TaskDone => Task \/ UNCHANGED <<shared, future>>]_vars
    BY <1>1
<1> QED
    BY <1>2, Invariance, PTL DEF Spec, TaskOwnsShared

-----------------------------------------------------------------------------
(* The stream is a cursor over the trace. *)

\* Once a read has failed at the end of the trace, the end has been reported.
EofReported == Sound /\ Consumed(out_buf) /\ ~successful_read => outcome = "eof"

\* A jump leaves out_buf used up with a failed read only when it has thrown.
LEMMA JumpReports ==
    ASSUME Inv, stream = "open",
           NEW c \in 0..(NumChunks(total) - 1), NEW k \in 0..(ChunkSize - 1),
           NEW buf \in Buffers, JumpTo(c, k, buf)
    PROVE  EofReported'
<1>1. total \in Nat \ {0}
    BY OpenFacts
<1>2. /\ Holding(total, c) \in Buffers
      /\ Holding(total, c).size = ChunkLen(total, c)
      /\ Holding(total, c).rd = 0
      /\ ChunkLen(total, c) \in 1..ChunkSize
    BY <1>1, HoldingFacts
<1>3. CASE k <= ChunkLen(total, c)
    <2>1. /\ out_buf' = Advance(Holding(total, c), k)
          /\ successful_read' = (k > 0 \/ successful_read)
        BY <1>3 DEF JumpTo, ReadChunkSync
    <2>2. out_buf'.rd = k /\ out_buf'.size = ChunkLen(total, c)
        BY <1>2, <2>1, BufferOps, ChunkSizeAssumption
    <2>3. Consumed(out_buf') => k > 0
        BY <1>2, <2>2, ChunkSizeAssumption DEF Consumed
    <2> QED
        BY <2>1, <2>3, Zenon DEF EofReported
<1>4. CASE ~(k <= ChunkLen(total, c))
    BY <1>4 DEF JumpTo, Throw, EofReported, Sound
<1> QED
    BY <1>3, <1>4

\* After a fatal exception nothing is claimed of the end of the trace.
LEMMA GiveUpReports ==
    ASSUME NEW what \in Fatal, GiveUp(what)
    PROVE  EofReported'
BY DEF GiveUp, Throw, Fatal, EofReported, Sound, Usable

\* feof_() becomes true only in a call that reports the end: EofReported is
\* kept by every step.
LEMMA EofReportedStep ==
    ASSUME Inv, EofReported, [Next]_vars
    PROVE  EofReported'
<1>1. FinishFails => EofReported'
    BY GiveUpReports DEF FinishFails, Fatal
<1>2. ASSUME NEW c, JumpFails(c) PROVE EofReported'
    BY <1>2, GiveUpReports DEF JumpFails, Fatal
<1>3. ASSUME NEW t \in TraceLengths, Open(t) PROVE EofReported'
    BY <1>3 DEF Open, EofReported
<1>4. CASE Close \/ CloseFails
    BY <1>1, <1>4 DEF Close, CloseFails, EofReported, Sound, Usable
<1>5. CASE Read
    <2>1. CASE ReadInChunk \/ ReadLastOfChunk \/ ReadLastOfChunkSync
        BY <2>1 DEF ReadInChunk, ReadLastOfChunk, ReadLastOfChunkSync, EofReported
    <2>2. CASE ReadLastOfChunkFails \/ ReadOverrun
        BY <1>1, <2>2, GiveUpReports DEF ReadLastOfChunkFails, ReadOverrun, Fatal
    <2>3. CASE ReadAtEnd
        BY <2>3 DEF ReadAtEnd, EofReported
    <2> QED
        BY <1>5, <2>1, <2>2, <2>3 DEF Read
<1>6. CASE Rewind
    <2>1. CASE FinishReturns /\ JumpTo(0, 0, SwappedOut(Consume(out_buf)))
        <3>1. stream = "open"
            BY <1>6 DEF Rewind, Usable
        <3>2. /\ 0 \in 0..(NumChunks(total) - 1) /\ 0 \in 0..(ChunkSize - 1)
              /\ SwappedOut(Consume(out_buf)) \in Buffers
            BY <2>1, <3>1, OpenFacts, FinishedBuffers, ChunkSizeAssumption
        <3> QED
            BY <2>1, <3>1, <3>2, JumpReports
    <2> QED
        BY <1>1, <1>6, <2>1 DEF Rewind
<1>7. ASSUME NEW n \in 0..MaxSeek, Seek(n) PROVE EofReported'
    <2>0. stream = "open" /\ n \in Nat
        BY <1>7, ReaderAssumption
        DEF Seek, SeekWithin, SeekWithinAtEof, SeekWithinPastEnd, SeekWithinOverrun,
            SeekAcross, Usable
    <2>1. CASE SeekWithin(n)
        <3>1. out_buf \in Buffers /\ out_buf' = Advance(out_buf, n)
            BY <2>0, <2>1, OpenFacts DEF SeekWithin
        <3>2. n = 0 => (Consumed(out_buf') => Consumed(out_buf))
            BY <3>1, <2>0, BufferOps DEF Consumed, Buffers
        <3>3. /\ successful_read' = (n > 0 \/ successful_read)
              /\ UNCHANGED <<stream, threw>>
              /\ outcome' = IF n = 0 /\ AtEof THEN "eof" ELSE "ok"
            BY <2>1 DEF SeekWithin, file
        <3>4. ASSUME Sound', Consumed(out_buf'), ~successful_read' PROVE outcome' = "eof"
            <4>0. n = 0 \/ n > 0
                BY <2>0
            <4>1. n = 0 /\ ~successful_read /\ Consumed(out_buf)
                BY <3>2, <3>3, <3>4, <4>0, Zenon
            <4>2. Sound
                BY <2>1, <3>3, <3>4 DEF Sound, SeekWithin
            <4>3. AllInputConsumed
                BY <2>0, <4>1, <4>2, EndFacts DEF Inv
            <4> QED
                BY <3>3, <4>1, <4>3 DEF AtEof
        <3> QED
            BY <3>4 DEF EofReported
    <2>2. CASE SeekWithinAtEof(n)
        BY <2>2 DEF SeekWithinAtEof, EofReported
    <2>3. CASE SeekWithinPastEnd(n)
        BY <2>3 DEF SeekWithinPastEnd, Throw, EofReported, Sound
    <2>4. CASE SeekWithinOverrun(n)
        BY <2>4, GiveUpReports DEF SeekWithinOverrun, Fatal
    <2>5. CASE SeekAcross(n)
        <3> DEFINE target == num_marker_records + n
                   c == target \div ChunkSize
        <3>1. target \in Nat /\ NumChunks(total) \in Nat \ {0}
            BY <2>0, OpenFacts DEF Inv, TypeOK
        <3>2. c \in Nat /\ (target % ChunkSize) \in 0..(ChunkSize - 1)
            BY <3>1, Division
        <3>3. CASE FinishReturns /\ c < NumChunks(total)
                   /\ JumpTo(c, target % ChunkSize, SwappedOut(Consume(out_buf)))
            <4>1. c \in 0..(NumChunks(total) - 1)
                BY <3>1, <3>2, <3>3
            <4>2. SwappedOut(Consume(out_buf)) \in Buffers
                BY <2>0, <3>3, FinishedBuffers
            <4> QED
                BY <2>0, <3>2, <3>3, <4>1, <4>2, JumpReports
        <3>4. CASE RefuseSeek
            BY <3>4 DEF RefuseSeek, Throw, EofReported, Sound
        <3> QED
            BY <1>1, <1>2, <2>5, <3>3, <3>4 DEF SeekAcross
    <2> QED
        BY <1>7, <2>1, <2>2, <2>3, <2>4, <2>5 DEF Seek
<1>8. ASSUME NEW at \in 0..(total - 1), NEW n \in 0..MaxSeek, SeekFromOffset(at, n)
      PROVE  EofReported'
    <2> DEFINE c == at \div ChunkSize
               d == (at + n) \div ChunkSize
               k == (at % ChunkSize) + n
    <2>0. /\ stream = "open" /\ at \in Nat /\ n \in Nat /\ at < total /\ at + n \in Nat
        BY <1>8, ReaderAssumption
        DEF SeekFromOffset, SeekFromOffsetNear, SeekFromOffsetFar, Usable, Inv, TypeOK
    <2>1. /\ total \in Nat \ {0} /\ NumChunks(total) \in Nat \ {0}
        BY <2>0, OpenFacts
    <2>2. /\ c \in 0..(NumChunks(total) - 1) /\ d \in Nat
          /\ (at % ChunkSize) \in 0..(ChunkSize - 1)
          /\ ((at + n) % ChunkSize) \in 0..(ChunkSize - 1)
        BY <2>0, <2>1, Division, ChunkOfMarker
    <2>3. CASE SeekFromOffsetNear(at, n)
        <3>1. k \in 0..(ChunkSize - 1)
            BY <2>0, <2>2, <2>3, ChunkSizeAssumption DEF SeekFromOffsetNear
        <3>2. ASSUME FinishReturns, JumpTo(c, k, SwappedOut(Consume(out_buf)))
              PROVE  EofReported'
            BY <2>0, <2>2, <3>1, <3>2, FinishedBuffers, JumpReports
        <3> QED
            BY <1>1, <1>2, <2>3, <3>2 DEF SeekFromOffsetNear
    <2>4. CASE SeekFromOffsetFar(at, n)
        <3>1. ASSUME d < NumChunks(total),
                     JumpTo(d, (at + n) % ChunkSize, Consume(Holding(total, c)))
              PROVE  EofReported'
            <4>1. Consume(Holding(total, c)) \in Buffers /\ d \in 0..(NumChunks(total) - 1)
                BY <2>1, <2>2, <3>1, HoldingFacts, BufferOps
            <4> QED
                BY <2>0, <2>2, <3>1, <4>1, JumpReports
        <3>2. ASSUME NEW prefetched, SeekFromOffsetRefused(c, prefetched) PROVE EofReported'
            BY <3>2 DEF SeekFromOffsetRefused, Throw, EofReported, Sound
        <3>3. GiveUp("bad_chunk") => EofReported'
            BY GiveUpReports DEF Fatal
        <3> QED
            BY <1>1, <1>2, <2>4, <3>1, <3>2, <3>3 DEF SeekFromOffsetFar
    <2> QED
        BY <1>8, <2>3, <2>4 DEF SeekFromOffset
<1>9. CASE Task \/ UNCHANGED vars
    BY <1>9 DEF Task, TaskRead, TaskDecompress, EofReported, Sound, Usable, Consumed,
                vars, file, cursor, history
<1> QED
    BY <1>3, <1>4, <1>5, <1>6, <1>7, <1>8, <1>9 DEF Next, Move

\* seekToChunk_ and the reads after it move the cursor exactly, or refuse a
\* target behind the end.
LEMMA JumpMaps ==
    ASSUME Inv, stream = "open", ~threw,
           NEW c \in 0..(NumChunks(total) - 1), NEW k \in 0..(ChunkSize - 1),
           NEW buf \in Buffers, JumpTo(c, k, buf),
           requested' = ChunkStart(c) + k
    PROVE  Stream!MoveTo(ChunkStart(c) + k) \/ Stream!Refuse(ChunkStart(c) + k)
<1> DEFINE len == ChunkLen(total, c)
<1>0. total \in Nat \ {0} /\ NumChunks(total) \in Nat \ {0} /\ ChunkStart(c) \in Nat
    BY OpenFacts, Starts
<1>1. /\ len \in 1..ChunkSize /\ ChunkStart(c) + len <= total
      /\ len < ChunkSize => ChunkStart(c) + len = total
    <2>1. c = NumChunks(total) - 1 \/ c < NumChunks(total) - 1
        BY <1>0
    <2> QED
        BY <1>0, <2>1, Lengths, ChunkSizeAssumption
<1>2. Stream!Working /\ UNCHANGED <<stream, total, delivered>>
    BY DEF Stream!Working, JumpTo, file
<1>3. CASE k <= len
    <2>1. num_marker_records' = ChunkStart(c) + k /\ outcome' = "ok" /\ UNCHANGED threw
        BY <1>3 DEF JumpTo, Succeed
    <2>2. ChunkStart(c) + k <= total
        BY <1>0, <1>1, <1>3, ChunkSizeAssumption
    <2> QED
        BY <1>2, <2>1, <2>2 DEF Stream!MoveTo
<1>4. CASE ~(k <= len)
    <2>1. outcome' = "past_end" /\ threw'
        BY <1>4 DEF JumpTo, Throw
    <2>2. ChunkStart(c) + k >= total
        BY <1>0, <1>1, <1>4, ChunkSizeAssumption
    <2> QED
        BY <1>2, <2>1, <2>2 DEF Stream!Refuse
<1> QED
    BY <1>3, <1>4

\* A call that gives up with an exception is a fault of the abstract stream.
LEMMA FaultMaps ==
    ASSUME stream = "open", NEW what \in {"bad_chunk", "no_state"}, GiveUp(what)
    PROVE  Stream!Fault
BY DEF GiveUp, Throw, Stream!Fault, file

\* After a throw, everything but open() and close() is unspecified.
LEMMA BrokenStays ==
    ASSUME threw, [Next]_vars, stream = "open", ~Close
    PROVE  threw'
<1>1. \A what : GiveUp(what) => threw'
    BY DEF GiveUp, Throw
<1>2. FinishFails => threw'
    BY <1>1 DEF FinishFails
<1>3. \A c, k, buf : JumpTo(c, k, buf) => threw'
    BY DEF JumpTo, Succeed, Throw
<1>4. \A c : JumpFails(c) => threw'
    BY <1>1 DEF JumpFails
<1>5. CASE Read
    BY <1>1, <1>2, <1>5
    DEF Read, ReadInChunk, ReadLastOfChunk, ReadLastOfChunkSync, ReadLastOfChunkFails,
        ReadAtEnd, ReadOverrun, Succeed
<1>6. ASSUME NEW n, Seek(n) PROVE threw'
    BY <1>1, <1>2, <1>3, <1>4, <1>6
    DEF Seek, SeekWithin, SeekWithinAtEof, SeekWithinPastEnd, SeekWithinOverrun,
        SeekAcross, RefuseSeek, Throw
<1>7. CASE Rewind
    BY <1>2, <1>3, <1>7 DEF Rewind
<1>8. ASSUME NEW at, NEW n, SeekFromOffset(at, n) PROVE threw'
    BY <1>1, <1>2, <1>3, <1>4, <1>8
    DEF SeekFromOffset, SeekFromOffsetNear, SeekFromOffsetFar, SeekFromOffsetRefused, Throw
<1>9. CASE CloseFails \/ Task \/ UNCHANGED vars
    BY <1>2, <1>9 DEF CloseFails, Task, TaskRead, TaskDecompress, vars, history
<1>10. \A t : ~Open(t)
    BY DEF Open
<1> QED
    BY <1>5, <1>6, <1>7, <1>8, <1>9, <1>10 DEF Next, Move

\* A read is a step of the cursor: it delivers the next marker, or reports the
\* end, or fails.
LEMMA ReadMaps ==
    ASSUME Inv, EofReported, stream = "open", ~threw, Read
    PROVE  Stream!Next
<1>0. /\ Usable /\ Sound /\ Coherent /\ Stream!Working
    BY DEF Read, ReadInChunk, ReadLastOfChunk, ReadLastOfChunkSync, ReadLastOfChunkFails,
           ReadAtEnd, ReadOverrun, Sound, Inv, Stream!Working
<1>1. /\ total \in Nat \ {0} /\ NumChunks(total) \in Nat \ {0}
      /\ out_buf.chunk \in 0..(NumChunks(total) - 1)
      /\ out_buf.size \in 1..ChunkSize /\ out_buf.rd \in 0..out_buf.size
      /\ ChunkStart(out_buf.chunk) \in Nat
    BY OpenFacts, Starts
<1>2. /\ ChunkStart(out_buf.chunk) + out_buf.size <= total
      /\ out_buf.chunk = LastChunk => ChunkStart(out_buf.chunk) + out_buf.size = total
    BY <1>1, Lengths DEF Inv, Placed, LastChunk
<1>3. num_marker_records = ChunkStart(out_buf.chunk) + out_buf.rd
    BY <1>0 DEF Coherent
<1>4. CASE ReadInChunk \/ ReadLastOfChunk \/ ReadLastOfChunkSync
    <2>1. /\ ~Consumed(out_buf)
          /\ num_marker_records' = num_marker_records + 1
          /\ delivered' = num_marker_records
          /\ outcome' = "ok" /\ UNCHANGED <<stream, total, requested, threw>>
        BY <1>3, <1>4 DEF ReadInChunk, ReadLastOfChunk, ReadLastOfChunkSync, Succeed, file
    <2>2. num_marker_records < total
        BY <1>1, <1>2, <1>3, <2>1, ChunkSizeAssumption DEF Consumed
    <2>3. Stream!Read
        BY <1>0, <2>1, <2>2 DEF Stream!Read
    <2> QED
        BY <2>3 DEF Stream!Next
<1>5. CASE ReadLastOfChunkFails
    <2>1. Stream!Fault
        BY <1>5, FaultMaps DEF ReadLastOfChunkFails, FinishFails
    <2> QED
        BY <2>1 DEF Stream!Next
<1>6. CASE ReadAtEnd
    <2>1. Consumed(out_buf)
        BY <1>6 DEF ReadAtEnd, AllInputConsumed
    <2>2. num_marker_records = total
        BY <1>0, <1>1, <1>2, <1>3, <2>1 DEF Coherent, LastChunk, Consumed
    <2>3. Stream!ReadAtEnd
        BY <1>0, <1>6, <2>2 DEF ReadAtEnd, Stream!ReadAtEnd, file
    <2> QED
        BY <2>3 DEF Stream!Next
<1>7. ~ReadOverrun
    BY <1>0, EndFacts DEF ReadOverrun
<1> QED
    BY <1>4, <1>5, <1>6, <1>7 DEF Read

\* seek(n), wherever the chunk boundaries are, moves the cursor by n or fails.
LEMMA SeekMaps ==
    ASSUME Inv, EofReported, stream = "open", ~threw, NEW n \in 0..MaxSeek, Seek(n)
    PROVE  Stream!Seek(num_marker_records + n) \/ Stream!Fault
<1> DEFINE target == num_marker_records + n
           c == target \div ChunkSize
<1>0. /\ Usable /\ Sound /\ Coherent /\ Stream!Working
      /\ n \in Nat /\ num_marker_records \in Nat
    BY ReaderAssumption
    DEF Seek, SeekWithin, SeekWithinAtEof, SeekWithinPastEnd, SeekWithinOverrun,
        SeekAcross, Sound, Inv, TypeOK, Stream!Working
<1>1. /\ total \in Nat \ {0} /\ NumChunks(total) \in Nat \ {0}
      /\ out_buf.chunk \in 0..(NumChunks(total) - 1)
      /\ out_buf.size \in 1..ChunkSize /\ out_buf.rd \in 0..out_buf.size
      /\ ChunkStart(out_buf.chunk) \in Nat
    BY OpenFacts, Starts
<1>2. /\ ChunkStart(out_buf.chunk) + out_buf.size <= total
      /\ out_buf.chunk = LastChunk => ChunkStart(out_buf.chunk) + out_buf.size = total
      /\ out_buf.chunk < LastChunk => out_buf.size = ChunkSize
    BY <1>1, Lengths DEF Inv, Placed, LastChunk
<1>3. num_marker_records = ChunkStart(out_buf.chunk) + out_buf.rd
    BY <1>0 DEF Coherent
<1>4. CASE SeekWithin(n)
    <2>1. /\ num_marker_records' = target /\ requested' = target
          /\ outcome' = IF n = 0 /\ AtEof THEN "eof" ELSE "ok"
          /\ n <= Left
          /\ UNCHANGED <<stream, total, delivered, threw>>
        BY <1>4 DEF SeekWithin, file
    <2>2. target <= total
        BY <1>0, <1>1, <1>2, <1>3, <2>1, ChunkSizeAssumption DEF Left
    <2>3. outcome' = "eof" => outcome = "eof" /\ target = total
        <3>1. SUFFICES ASSUME n = 0, AtEof PROVE outcome = "eof" /\ target = total
            BY <2>1
        <3>2. Consumed(out_buf) /\ ~successful_read
            BY <3>1 DEF AtEof, AllInputConsumed
        <3> QED
            BY <1>0, <1>1, <1>2, <1>3, <3>1, <3>2
            DEF EofReported, Coherent, LastChunk, Consumed
    <2>4. Stream!MoveTo(target)
        BY <1>0, <2>1, <2>2, <2>3 DEF Stream!MoveTo
    <2> QED
        BY <2>4 DEF Stream!Seek
<1>5. CASE SeekWithinAtEof(n)
    <2>1. outcome = "eof"
        BY <1>0, <1>5 DEF SeekWithinAtEof, AtEof, AllInputConsumed, EofReported
    <2>2. Stream!SeekAfterEof(target)
        BY <1>0, <1>5, <2>1 DEF SeekWithinAtEof, Stream!SeekAfterEof, file, cursor
    <2> QED
        BY <2>2 DEF Stream!Seek
<1>6. CASE SeekWithinPastEnd(n)
    <2>1. out_buf.chunk = LastChunk
        BY <1>0, <1>1, <1>2, <1>3, <1>6, ChunkSizeAssumption
        DEF SeekWithinPastEnd, Coherent, Left, LastChunk
    <2>2. target >= total
        BY <1>0, <1>1, <1>2, <1>3, <1>6, <2>1, ChunkSizeAssumption DEF SeekWithinPastEnd, Left
    <2>3. Stream!Refuse(target)
        BY <1>0, <1>6, <2>2 DEF SeekWithinPastEnd, Throw, Stream!Refuse, file
    <2> QED
        BY <2>3 DEF Stream!Seek
<1>7. ~SeekWithinOverrun(n)
    BY <1>0, EndFacts DEF SeekWithinOverrun
<1>8. CASE SeekAcross(n)
    <2>1. /\ c \in Nat /\ (target % ChunkSize) \in 0..(ChunkSize - 1)
          /\ target \in Nat
          /\ target = ChunkStart(c) + (target % ChunkSize)
        BY <1>0, Division
    <2>2. CASE FinishFails \/ JumpFails(c)
        BY <2>2, FaultMaps DEF FinishFails, JumpFails
    <2>3. CASE c >= NumChunks(total) /\ RefuseSeek
        <3>1. target >= total
            BY <1>1, <2>1, <2>3, ChunkOfMarker
        <3>2. Stream!Refuse(target)
            BY <1>0, <1>8, <2>3, <3>1 DEF SeekAcross, RefuseSeek, Throw, Stream!Refuse, file
        <3> QED
            BY <3>2 DEF Stream!Seek
    <2>4. CASE FinishReturns /\ c < NumChunks(total)
               /\ JumpTo(c, target % ChunkSize, SwappedOut(Consume(out_buf)))
        <3>1. c \in 0..(NumChunks(total) - 1) /\ SwappedOut(Consume(out_buf)) \in Buffers
            BY <1>1, <2>1, <2>4, FinishedBuffers
        <3>2. requested' = ChunkStart(c) + (target % ChunkSize)
            BY <1>8, <2>1 DEF SeekAcross
        <3>3. Stream!MoveTo(target) \/ Stream!Refuse(target)
            BY <2>1, <2>4, <3>1, <3>2, JumpMaps
        <3> QED
            BY <3>3 DEF Stream!Seek
    <2> QED
        BY <1>8, <2>2, <2>3, <2>4 DEF SeekAcross
<1> QED
    BY <1>4, <1>5, <1>6, <1>7, <1>8 DEF Seek

\* seekFromOffset(_, at, n) moves the cursor to marker at + n, refuses, or
\* fails.
LEMMA SeekFromOffsetMaps ==
    ASSUME Inv, stream = "open", ~threw,
           NEW at \in 0..(total - 1), NEW n \in 0..MaxSeek, SeekFromOffset(at, n)
    PROVE  \/ Stream!MoveTo(at + n) \/ Stream!Refuse(at + n)
           \/ Stream!Fault
<1> DEFINE c == at \div ChunkSize
           d == (at + n) \div ChunkSize
           k == (at % ChunkSize) + n
<1>0. /\ at \in Nat /\ n \in Nat /\ at < total /\ at + n \in Nat
      /\ requested' = at + n /\ Stream!Working
    BY ReaderAssumption
    DEF SeekFromOffset, SeekFromOffsetNear, SeekFromOffsetFar, Inv, TypeOK, Stream!Working
<1>1. total \in Nat \ {0} /\ NumChunks(total) \in Nat \ {0}
    BY OpenFacts
<1>2. /\ c \in 0..(NumChunks(total) - 1) /\ d \in Nat /\ ChunkStart(c) \in Nat
      /\ (at % ChunkSize) \in 0..(ChunkSize - 1)
      /\ at = ChunkStart(c) + (at % ChunkSize)
      /\ ((at + n) % ChunkSize) \in 0..(ChunkSize - 1)
      /\ at + n = ChunkStart(d) + ((at + n) % ChunkSize)
    <2>1. /\ c \in Nat /\ (at % ChunkSize) \in 0..(ChunkSize - 1)
          /\ at = ChunkStart(c) + (at % ChunkSize)
        BY <1>0, Division
    <2>2. /\ d \in Nat /\ ((at + n) % ChunkSize) \in 0..(ChunkSize - 1)
          /\ at + n = ChunkStart(d) + ((at + n) % ChunkSize)
        BY <1>0, Division
    <2>3. c < NumChunks(total)
        BY <1>0, <1>1, ChunkOfMarker
    <2> HIDE DEF c, d
    <2>4. ChunkStart(c) \in Nat
        BY <2>1, Starts
    <2> QED
        BY <1>1, <2>1, <2>2, <2>3, <2>4
<1>3. \A x : FinishFails \/ JumpFails(x) \/ GiveUp("bad_chunk") => Stream!Fault
    BY FaultMaps DEF FinishFails, JumpFails
<1>4. CASE SeekFromOffsetNear(at, n)
    <2>1. k \in 0..(ChunkSize - 1) /\ at + n = ChunkStart(c) + k
        <3>1. PICK r \in 0..(ChunkSize - 1) : r = at % ChunkSize
            BY <1>2
        <3>2. k = r + n /\ r + n < ChunkSize /\ at = ChunkStart(c) + r
            BY <1>2, <1>4, <3>1 DEF SeekFromOffsetNear
        <3> HIDE DEF c, k
        <3> QED
            BY <1>0, <1>2, <3>2, ChunkSizeAssumption
    <2>2. ASSUME FinishReturns, JumpTo(c, k, SwappedOut(Consume(out_buf)))
          PROVE  Stream!MoveTo(at + n) \/ Stream!Refuse(at + n)
        <3>1. SwappedOut(Consume(out_buf)) \in Buffers
            BY <2>2, FinishedBuffers
        <3> QED
            BY <1>0, <1>2, <2>1, <2>2, <3>1, JumpMaps
    <2> QED
        BY <1>3, <1>4, <2>2 DEF SeekFromOffsetNear
<1>5. CASE SeekFromOffsetFar(at, n)
    <2>1. ASSUME d < NumChunks(total),
                 JumpTo(d, (at + n) % ChunkSize, Consume(Holding(total, c)))
          PROVE  Stream!MoveTo(at + n) \/ Stream!Refuse(at + n)
        <3>1. Consume(Holding(total, c)) \in Buffers /\ d \in 0..(NumChunks(total) - 1)
            BY <1>1, <1>2, <2>1, HoldingFacts, BufferOps
        <3> QED
            BY <1>0, <1>2, <2>1, <3>1, JumpMaps
    <2>2. ASSUME NEW prefetched, d >= NumChunks(total), SeekFromOffsetRefused(c, prefetched)
          PROVE  Stream!Refuse(at + n)
        <3>1. at + n >= total
            BY <1>0, <1>1, <2>2, ChunkOfMarker
        <3> QED
            BY <1>0, <2>2, <3>1 DEF SeekFromOffsetRefused, Throw, Stream!Refuse, file
    <2> QED
        BY <1>3, <1>5, <2>1, <2>2 DEF SeekFromOffsetFar
<1> QED
    BY <1>4, <1>5 DEF SeekFromOffset

\* Every step of the stream, those of the prefetch included, is a step of the
\* cursor or leaves it alone.
LEMMA StepMaps ==
    ASSUME Inv, EofReported, [Next]_vars
    PROVE  [Stream!Next]_(Stream!vars)
<1>1. ASSUME NEW t \in TraceLengths, Open(t) PROVE Stream!Next
    <2>1. Stream!Open
        BY <1>1 DEF Open, Inv, Closed, Stream!Open
    <2> QED
        BY <2>1 DEF Stream!Next
<1>2. CASE Close
    <2>1. Stream!Close
        BY <1>2 DEF Close, Stream!Close
    <2> QED
        BY <2>1 DEF Stream!Next
<1>3. CASE stream = "open" /\ threw /\ ~Close
    <2>1. Stream!Unspecified
        BY <1>3, BrokenStays DEF Stream!Unspecified
    <2> QED
        BY <2>1 DEF Stream!Next
<1>4. CASE stream = "open" /\ ~threw /\ ~Close
    <2>1. CASE CloseFails
        <3>1. Stream!Fault
            BY <1>4, <2>1, FaultMaps DEF CloseFails, FinishFails
        <3> QED
            BY <3>1 DEF Stream!Next
    <2>2. CASE Read
        BY <1>4, <2>2, ReadMaps
    <2>3. CASE Rewind
        <3>1. ASSUME FinishReturns, JumpTo(0, 0, SwappedOut(Consume(out_buf)))
              PROVE  Stream!MoveTo(0)
            <4>1. /\ 0 \in 0..(NumChunks(total) - 1) /\ 0 \in 0..(ChunkSize - 1)
                  /\ SwappedOut(Consume(out_buf)) \in Buffers
                  /\ total \in Nat \ {0} /\ ChunkLen(total, 0) \in 1..ChunkSize
                BY <1>4, <3>1, OpenFacts, FinishedBuffers, Lengths, ChunkSizeAssumption
            <4>2. ChunkStart(0) = 0
                BY Starts
            <4>3. num_marker_records' = 0 /\ outcome' = "ok"
                  /\ UNCHANGED <<stream, total, delivered, threw>>
                BY <3>1, <4>1, <4>2, ChunkSizeAssumption DEF JumpTo, Succeed, file
            <4> QED
                BY <1>4, <2>3, <4>1, <4>3 DEF Rewind, Stream!MoveTo, Stream!Working
        <3>2. Stream!MoveTo(0) \/ Stream!Fault
            BY <1>4, <2>3, <3>1, FaultMaps DEF Rewind, FinishFails
        <3> QED
            BY <3>2 DEF Stream!Next, Stream!Move
    <2>4. ASSUME NEW n \in 0..MaxSeek, Seek(n) PROVE Stream!Next
        BY <1>4, <2>4, SeekMaps DEF Stream!Next, Stream!Move
    <2>5. ASSUME NEW at \in 0..(total - 1), NEW n \in 0..MaxSeek, SeekFromOffset(at, n)
          PROVE  Stream!Next
        BY <1>4, <2>5, SeekFromOffsetMaps DEF Stream!Next, Stream!Move
    <2>6. CASE Task
        BY <2>6 DEF Task, TaskRead, TaskDecompress, file, cursor, history, Stream!vars
    <2>7. CASE UNCHANGED vars
        BY <2>7 DEF vars, file, cursor, history, Stream!vars
    <2>8. \A t : ~Open(t)
        BY <1>4 DEF Open
    <2> QED
        BY <1>4, <2>1, <2>2, <2>3, <2>4, <2>5, <2>6, <2>7, <2>8 DEF Next, Move
<1>5. CASE stream = "closed"
    <2>1. future = "none"
        BY <1>5 DEF Inv, Placed
    <2>2. /\ ~Close /\ ~CloseFails /\ ~Read /\ ~Rewind /\ ~Task
          /\ \A n : ~Seek(n)
          /\ \A at, n : ~SeekFromOffset(at, n)
        BY <1>5, <2>1
        DEF Close, CloseFails, Rewind, Task, TaskRead, TaskDecompress, Usable,
            Read, ReadInChunk, ReadLastOfChunk, ReadLastOfChunkSync, ReadLastOfChunkFails,
            ReadAtEnd, ReadOverrun, Seek, SeekWithin, SeekWithinAtEof, SeekWithinPastEnd,
            SeekWithinOverrun, SeekAcross, SeekFromOffset, SeekFromOffsetNear,
            SeekFromOffsetFar
    <2>3. CASE UNCHANGED vars
        BY <2>3 DEF vars, file, cursor, history, Stream!vars
    <2> QED
        BY <1>1, <2>2, <2>3 DEF Next, Move
<1>6. stream \in {"closed", "open"}
    BY DEF Inv, TypeOK
<1> QED
    BY <1>1, <1>2, <1>3, <1>4, <1>5, <1>6

\* The reader implements the cursor of TraceStream: every read delivers the
\* next marker, every seek arrives exactly where it was asked to go or is
\* refused for a target that is not before the end, and the end is reported
\* at the end and nowhere else, whatever the prefetch does meanwhile.
THEOREM ReaderImplementsTraceStream == Spec => ImplementsTraceStream
<1>1. Init => Stream!Init
    BY DEF Init, Stream!Init
<1>2. Init => EofReported
    BY DEF Init, EofReported, Sound, Usable
<1>3. Inv /\ EofReported /\ [Next]_vars => EofReported'
    BY EofReportedStep
<1>4. Inv /\ EofReported /\ [Next]_vars => [Stream!Next]_(Stream!vars)
    BY StepMaps
<1> QED
    BY <1>1, <1>2, <1>3, <1>4, Invariance, PTL DEF Spec, ImplementsTraceStream, Stream!Spec

=============================================================================
