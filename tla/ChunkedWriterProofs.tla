------------------------ MODULE ChunkedWriterProofs -------------------------
(***************************************************************************)
(* Proofs about ChunkedWriter, for every chunk size and any number of      *)
(* markers.                                                                *)
(*                                                                         *)
(* The markers that have left cur_chunk_buf are cut off at Sealed.  The    *)
(* invariant Inv says what each buffer, the file and the index hold while  *)
(* the task is at each of its steps; a stream that is being closed may cut *)
(* its last chunk short, and no other.                                     *)
(***************************************************************************)
EXTENDS ChunkedWriter, SequenceTheorems, TLAPS

-----------------------------------------------------------------------------
(* Chunk arithmetic, as for the reader, and what a trace cut at some marker  *)
(* makes of it.                                                              *)

\* Dividing a position by the chunk size gives its chunk and the markers to
\* read from the start of that chunk.
LEMMA Division ==
    ASSUME NEW x \in Nat
    PROVE  /\ x \div ChunkSize \in Nat
           /\ (x % ChunkSize) \in 0..(ChunkSize - 1)
           /\ x = ChunkStart(x \div ChunkSize) + (x % ChunkSize)
BY ChunkSizeAssumption, SMT DEF ChunkStart

\* Chunks start ChunkSize markers apart.
LEMMA Starts ==
    ASSUME NEW c \in Nat
    PROVE  /\ ChunkStart(c) \in Nat
           /\ ChunkStart(c + 1) = ChunkStart(c) + ChunkSize
           /\ ChunkStart(0) = 0
BY ChunkSizeAssumption, SMT DEF ChunkStart

\* A later chunk starts at least ChunkSize markers later.
LEMMA StartsMonotone ==
    ASSUME NEW c \in Nat, NEW d \in Nat, c < d
    PROVE  ChunkStart(c) + ChunkSize <= ChunkStart(d)
BY ChunkSizeAssumption, SMT DEF ChunkStart

\* The last chunk holds the last marker.
LEMMA LastChunkFacts ==
    ASSUME NEW t \in Nat \ {0}
    PROVE  /\ NumChunks(t) \in Nat \ {0}
           /\ ChunkStart(NumChunks(t) - 1) < t
           /\ t <= ChunkStart(NumChunks(t) - 1) + ChunkSize
<1> DEFINE n == NumChunks(t)
<1>1. t + ChunkSize - 1 \in Nat
    BY ChunkSizeAssumption
<1>2. /\ n \in Nat
      /\ ((t + ChunkSize - 1) % ChunkSize) \in 0..(ChunkSize - 1)
      /\ t + ChunkSize - 1 = ChunkStart(n) + ((t + ChunkSize - 1) % ChunkSize)
    BY <1>1, Division DEF NumChunks
<1>3. n # 0
    BY <1>2, ChunkSizeAssumption, Starts
<1>4. ChunkStart(n) = ChunkStart(n - 1) + ChunkSize /\ ChunkStart(n - 1) \in Nat
    BY <1>2, <1>3, Starts
<1> QED
    BY <1>2, <1>3, <1>4, ChunkSizeAssumption

\* Markers that reach into the n-th chunk and not beyond it make n chunks.
LEMMA NumChunksOfCut ==
    /\ NumChunks(0) = 0
    /\ \A n \in Nat \ {0} : \A x \in (ChunkStart(n - 1) + 1)..ChunkStart(n) : NumChunks(x) = n
<1>1. NumChunks(0) = 0
    <2> DEFINE q == (ChunkSize - 1) \div ChunkSize
    <2>1. ChunkSize - 1 \in Nat
        BY ChunkSizeAssumption
    <2>2. q \in Nat /\ ((ChunkSize - 1) % ChunkSize) \in Nat
          /\ ChunkSize - 1 = ChunkStart(q) + ((ChunkSize - 1) % ChunkSize)
        BY <2>1, Division
    <2>3. q > 0 => ChunkSize <= ChunkStart(q)
        BY <2>2, StartsMonotone, Starts, ChunkSizeAssumption
    <2>4. q = 0
        BY <2>2, <2>3, Starts, ChunkSizeAssumption
    <2>5. 0 + ChunkSize - 1 = ChunkSize - 1
        BY ChunkSizeAssumption
    <2> QED
        BY <2>4, <2>5 DEF NumChunks
<1>2. ASSUME NEW n \in Nat \ {0}, NEW x \in (ChunkStart(n - 1) + 1)..ChunkStart(n)
      PROVE  NumChunks(x) = n
    <2> DEFINE m == NumChunks(x)
    <2>1. ChunkStart(n - 1) \in Nat /\ n - 1 \in Nat /\ ChunkStart(n) \in Nat
        BY Starts
    <2>2. x \in Nat \ {0}
        BY <2>1
    <2>3. m \in Nat \ {0} /\ ChunkStart(m - 1) < x /\ x <= ChunkStart(m - 1) + ChunkSize
        BY <2>2, LastChunkFacts
    <2>4. m - 1 \in Nat /\ ChunkStart(m - 1) \in Nat /\ ChunkStart(n) = ChunkStart(n - 1) + ChunkSize
        BY <2>1, <2>3, Starts
    <2> HIDE DEF m
    <2>5. ~(m < n)
        <3>1. m < n => ChunkStart(m - 1) + ChunkSize <= ChunkStart(n - 1)
            BY <2>1, <2>3, <2>4, StartsMonotone
        <3> QED
            BY <2>1, <2>2, <2>3, <2>4, <3>1, ChunkSizeAssumption
    <2>6. ~(n < m)
        <3>1. n < m => ChunkStart(n - 1) + ChunkSize <= ChunkStart(m - 1)
            BY <2>1, <2>3, <2>4, StartsMonotone
        <3> QED
            BY <2>1, <2>2, <2>3, <2>4, <3>1, ChunkSizeAssumption
    <2> QED
        BY <2>3, <2>5, <2>6 DEF m
<1> QED
    BY <1>1, <1>2

\* Chunks start at the multiples of the chunk size.
LEMMA StartIsMultiple ==
    ASSUME NEW c \in Nat
    PROVE  ChunkStart(c) % ChunkSize = 0
<1> DEFINE x == ChunkStart(c)
           q == x \div ChunkSize
           r == x % ChunkSize
<1>1. x \in Nat
    BY Starts
<1>2. q \in Nat /\ r \in 0..(ChunkSize - 1) /\ x = ChunkStart(q) + r
    BY <1>1, Division
<1>3. ChunkStart(q) \in Nat
    BY <1>2, Starts
<1> HIDE DEF x, q, r
<1>4. /\ q < c => ChunkStart(q) + ChunkSize <= ChunkStart(c)
      /\ c < q => ChunkStart(c) + ChunkSize <= ChunkStart(q)
    BY <1>2, StartsMonotone
<1>5. q = c
    BY <1>1, <1>2, <1>3, <1>4, ChunkSizeAssumption DEF x
<1>6. r = 0
    BY <1>2, <1>3, <1>5 DEF x
<1> QED
    BY <1>6 DEF x, r

-----------------------------------------------------------------------------

NumStored == Len(disk.chunks)

\* The task has a chunk that is not in the file yet, and what the chunk holds.
Busy == task \in {"launched", "compressed"}
InHand == IF task = "launched" THEN compression_chunk_buf ELSE out_buf
Sealed == IF Busy THEN next_chunk_pc ELSE Stored

\* b holds chunk c, or, at the end of the trace, some of it.
Cut(c, b) ==
    b \in Intervals /\ b.from = ChunkStart(c) /\ b.to \in (ChunkStart(c) + 1)..ChunkStart(c + 1)
Full(c, b) == b.to = ChunkStart(c + 1)

Buffers ==
    /\ task # "launched" => compression_chunk_buf = NoMarkers
    /\ task # "compressed" => out_buf = NoMarkers
    /\ Busy => Cut(NumStored, InHand) /\ InHand.to = next_chunk_pc
    /\ Busy /\ stream = "open" => Full(NumStored, InHand)
    /\ cur_chunk_buf = IF written = Sealed THEN NoMarkers ELSE [from |-> Sealed, to |-> written]
    /\ written \in Sealed..(Sealed + ChunkSize - 1)

File ==
    /\ \A c \in 0..(NumStored - 1) : Cut(c, disk.chunks[c + 1])
    /\ \A c \in 0..(NumStored - 1) :
          c + 1 < NumStored \/ Busy \/ stream = "open" => Full(c, disk.chunks[c + 1])
    /\ task \in {"payload", "index", "header"} => NumStored > 0 /\ next_chunk_pc = Stored

Calls ==
    /\ in_progress <=> task # "none"
    /\ stream = "new" =>
          /\ task = "none" /\ written = 0 /\ num_marker_records = 0 /\ disk = NewFile
          /\ ~pending_chunk
    /\ stream = "open" => num_marker_records = written /\ next_chunk_end = Sealed + ChunkSize
    /\ ~pending_chunk => written = Sealed /\ ~incomplete_chunk
    /\ stream = "open" /\ pending_chunk /\ ~incomplete_chunk => written # Sealed
    /\ stream \in {"closing", "closed"} /\ ~incomplete_chunk => written = Sealed
    /\ stream = "closed" => task = "none"

\* Entries 0 to n - 1 of an index describe chunks of that number.
Describes(index, chunks, n) ==
    \A c \in 0..(n - 1) : index[c + 1] = Entry(c, ChunkStart(c), Count(chunks[c + 1]))

Index ==
    /\ stream = "new" => chunk_indices = <<>>
    /\ stream # "new" =>
          Len(chunk_indices) = IF EndingChunk THEN NumStored ELSE NumStored + 1
    /\ Describes(chunk_indices, disk.chunks, IF task = "payload" THEN NumStored - 1 ELSE NumStored)
    /\ task = "payload" =>
          chunk_indices[NumStored] = Entry(NumStored - 1, ChunkStart(NumStored - 1), 0)
    /\ stream # "new" /\ ~EndingChunk =>
          chunk_indices[NumStored + 1] = Entry(NumStored, Stored, 0)
    /\ bytes_written = CASE task = "compressed" -> Count(out_buf)
                         [] task = "payload" -> Count(disk.chunks[NumStored])
                         [] OTHER -> 0

Header ==
    /\ task = "payload" => disk.index_at = 0
    /\ task # "payload" =>
          /\ disk.index_at = NumStored /\ Len(disk.index) = NumStored
          /\ Describes(disk.index, disk.chunks, NumStored)
    /\ disk.end = IF task \in {"payload", "index"} THEN NumStored - 1 ELSE NumStored

Inv == TypeOK /\ Buffers /\ File /\ Calls /\ Index /\ Header

-----------------------------------------------------------------------------
(* Types. *)

LEMMA EmptyType ==
    /\ NoMarkers \in Intervals
    /\ NewFile \in [chunks : Seq(Intervals), index_at : Nat, index : Seq(Entries), end : Nat]
BY DEF NoMarkers, NewFile, Intervals

LEMMA InitType == Init => TypeOK
<1> SUFFICES ASSUME Init PROVE TypeOK
    OBVIOUS
<1>1. disk \in [chunks : Seq(Intervals), index_at : Nat, index : Seq(Entries), end : Nat]
    BY EmptyType DEF Init
<1>2. cur_chunk_buf \in Intervals /\ compression_chunk_buf \in Intervals /\ out_buf \in Intervals
    BY EmptyType DEF Init
<1>3. chunk_indices \in Seq(Entries)
    BY DEF Init
<1>4. /\ alive \in BOOLEAN /\ pending_chunk \in BOOLEAN
      /\ incomplete_chunk \in BOOLEAN /\ in_progress \in BOOLEAN
    BY DEF Init
<1> QED
    BY <1>1, <1>2, <1>3, <1>4 DEF Init, TypeOK

LEMMA PutType ==
    ASSUME NEW b \in Intervals, NEW m \in Nat, b = NoMarkers \/ b.from <= m
    PROVE  Put(b, m) \in Intervals
BY DEF Put, Intervals, Count, NoMarkers

LEMMA AppendFacts ==
    ASSUME NEW S, NEW s \in Seq(S), NEW e \in S
    PROVE  /\ Append(s, e) \in Seq(S)
           /\ Len(Append(s, e)) = Len(s) + 1
           /\ \A i \in 1..Len(s) : Append(s, e)[i] = s[i]
           /\ Append(s, e)[Len(s) + 1] = e
OBVIOUS

-----------------------------------------------------------------------------
(* What is stored and sealed. *)

LEMMA StoredFacts ==
    ASSUME TypeOK, File
    PROVE  /\ NumStored \in Nat /\ Stored \in Nat
           /\ NumStored = 0 => Stored = 0 /\ disk.chunks = <<>>
           /\ NumStored > 0 => /\ Stored = disk.chunks[NumStored].to
                               /\ Cut(NumStored - 1, disk.chunks[NumStored])
           /\ Busy \/ stream = "open" => Stored = ChunkStart(NumStored)
<1>1. disk.chunks \in Seq(Intervals) /\ NumStored = Len(disk.chunks) /\ NumStored \in Nat
    BY DEF TypeOK, NumStored
<1>2. CASE NumStored = 0
    <2>1. disk.chunks = <<>>
        BY <1>1, <1>2, EmptySeq
    <2>2. Stored = 0
        BY <2>1 DEF Stored
    <2>3. ChunkStart(0) = 0
        BY Starts
    <2> QED
        BY <1>1, <1>2, <2>1, <2>2, <2>3
<1>3. CASE NumStored > 0
    <2>1. disk.chunks # <<>>
        BY <1>1, <1>3
    <2>2. Stored = disk.chunks[NumStored].to
        BY <2>1 DEF Stored, NumStored
    <2>3. NumStored - 1 \in 0..(NumStored - 1) /\ NumStored - 1 + 1 = NumStored
        BY <1>1, <1>3
    <2>4. Cut(NumStored - 1, disk.chunks[NumStored])
        BY <2>3 DEF File
    <2>5. Stored \in Nat
        BY <2>2, <2>4 DEF Cut, Intervals
    <2>6. Busy \/ stream = "open" => Stored = ChunkStart(NumStored)
        BY <2>2, <2>3 DEF File, Full
    <2> QED
        BY <1>1, <1>3, <2>2, <2>4, <2>5, <2>6
<1> QED
    BY <1>1, <1>2, <1>3

\* The marker the next chunk begins with.
LEMMA SealedFacts ==
    ASSUME Inv
    PROVE  /\ Sealed \in Nat
           /\ ~Busy => Sealed = Stored
           /\ Busy => /\ Sealed = next_chunk_pc
                      /\ Sealed \in (ChunkStart(NumStored) + 1)..ChunkStart(NumStored + 1)
           /\ stream = "open" =>
                 Sealed = IF Busy THEN ChunkStart(NumStored + 1) ELSE ChunkStart(NumStored)
<1>1. Stored \in Nat /\ NumStored \in Nat /\ (stream = "open" => Stored = ChunkStart(NumStored))
    BY StoredFacts DEF Inv
<1>2. ChunkStart(NumStored) \in Nat /\ ChunkStart(NumStored + 1) \in Nat
    BY <1>1, Starts
<1> QED
    BY <1>1, <1>2 DEF Inv, Buffers, Sealed, Cut, Full

-----------------------------------------------------------------------------
(* Steps of the caller that leave the task alone. *)

\* Of the file and of the chunk in hand, they change nothing.
LEMMA NothingSealed ==
    ASSUME UNCHANGED <<owned, next_chunk_pc>>,
           task' = task \/ (TaskDone /\ task' = "none")
    PROVE  /\ NumStored' = NumStored /\ Stored' = Stored /\ Busy' = Busy
           /\ Sealed' = Sealed /\ EndingChunk' = EndingChunk
           /\ Busy => InHand' = InHand
<1>1. /\ disk' = disk /\ next_chunk_pc' = next_chunk_pc
      /\ compression_chunk_buf' = compression_chunk_buf /\ out_buf' = out_buf
    BY DEF owned
<1>2. NumStored' = NumStored /\ Stored' = Stored
    BY <1>1 DEF NumStored, Stored
<1>3. Busy' = Busy /\ EndingChunk' = EndingChunk /\ (Busy => task' = task)
    BY DEF Busy, TaskDone, EndingChunk
<1>4. Busy => InHand' = InHand
    BY <1>1, <1>3 DEF InHand
<1> QED
    BY <1>1, <1>2, <1>3, <1>4 DEF Sealed

LEMMA CallerKeeps ==
    ASSUME Inv, UNCHANGED <<owned, next_chunk_pc>>,
           task' = task \/ (TaskDone /\ task' = "none"),
           stream' = "new" <=> stream = "new", stream' = "open" => stream = "open"
    PROVE  File' /\ Index' /\ Header'
<1>1. /\ NumStored' = NumStored /\ Stored' = Stored /\ Busy' = Busy
      /\ EndingChunk' = EndingChunk
    BY NothingSealed
<1>2. /\ disk' = disk /\ next_chunk_pc' = next_chunk_pc
      /\ out_buf' = out_buf /\ chunk_indices' = chunk_indices /\ bytes_written' = bytes_written
    BY DEF owned
<1>3. /\ task' = "payload" <=> task = "payload"
      /\ task' = "compressed" <=> task = "compressed"
      /\ task' \in {"payload", "index"} <=> task \in {"payload", "index"}
      /\ task' \in {"payload", "index", "header"} <=> task \in {"payload", "index", "header"}
    BY DEF TaskDone
<1>4. File'
    BY <1>1, <1>2, <1>3 DEF Inv, File
<1>5. Header'
    BY <1>1, <1>2, <1>3 DEF Inv, Header
<1>6. bytes_written' = CASE task' = "compressed" -> Count(out_buf')
                         [] task' = "payload" -> Count(disk'.chunks[NumStored'])
                         [] OTHER -> 0
    BY <1>1, <1>2, <1>3 DEF Inv, Index
<1>7. Describes(chunk_indices', disk'.chunks, IF task' = "payload" THEN NumStored' - 1 ELSE NumStored')
    BY <1>1, <1>2, <1>3 DEF Inv, Index
<1>8. Index'
    BY <1>1, <1>2, <1>3, <1>6, <1>7 DEF Inv, Index
<1> QED
    BY <1>4, <1>5, <1>8

LEMMA WriteOtherInv == ASSUME Inv, WriteOther PROVE Inv'
<1>1. TypeOK'
    BY DEF WriteOther, Inv, TypeOK, owned
<1>2. File' /\ Index' /\ Header'
    BY CallerKeeps DEF WriteOther
<1>3. /\ NumStored' = NumStored /\ Busy' = Busy /\ Sealed' = Sealed /\ (Busy => InHand' = InHand)
      /\ task' = task /\ next_chunk_pc' = next_chunk_pc /\ stream = "open" /\ stream' = stream
      /\ out_buf' = out_buf /\ compression_chunk_buf' = compression_chunk_buf
      /\ cur_chunk_buf' = cur_chunk_buf /\ written' = written
    BY NothingSealed DEF WriteOther, owned
<1>4. Buffers'
    BY <1>3 DEF Inv, Buffers
<1>5. Calls'
    BY <1>3 DEF Inv, Calls, WriteOther
<1> QED
    BY <1>1, <1>2, <1>4, <1>5 DEF Inv

LEMMA PutBehind ==
    ASSUME Inv, stream = "open"
    PROVE  Put(cur_chunk_buf, written) = [from |-> Sealed, to |-> written + 1]
<1>1. written \in Nat /\ Sealed \in Nat
    BY SealedFacts DEF Inv, TypeOK
<1>2. CASE written = Sealed
    BY <1>1, <1>2 DEF Inv, Buffers, Put, Count, NoMarkers
<1>3. CASE written # Sealed
    BY <1>1, <1>3 DEF Inv, Buffers, Put, Count
<1> QED
    BY <1>2, <1>3

LEMMA WriteMarkerInv == ASSUME Inv, WriteMarker PROVE Inv'
<1>1. /\ Sealed \in Nat /\ written \in Nat
      /\ num_marker_records = written /\ next_chunk_end = Sealed + ChunkSize
      /\ written \in Sealed..(Sealed + ChunkSize - 1) /\ written + 1 < Sealed + ChunkSize
    BY SealedFacts DEF Inv, TypeOK, Buffers, Calls, WriteMarker
<1>2. cur_chunk_buf' = [from |-> Sealed, to |-> written + 1]
    BY PutBehind DEF WriteMarker
<1>3. TypeOK'
    <2>1. cur_chunk_buf' \in Intervals
        BY <1>1, <1>2 DEF Intervals
    <2>2. written' \in Nat /\ num_marker_records' \in Nat
        BY <1>1 DEF WriteMarker
    <2> QED
        BY <2>1, <2>2 DEF WriteMarker, Inv, TypeOK, owned
<1>4. File' /\ Index' /\ Header'
    BY CallerKeeps DEF WriteMarker
<1>5. /\ NumStored' = NumStored /\ Busy' = Busy /\ Sealed' = Sealed /\ (Busy => InHand' = InHand)
      /\ task' = task /\ next_chunk_pc' = next_chunk_pc /\ stream = "open" /\ stream' = stream
      /\ out_buf' = out_buf /\ compression_chunk_buf' = compression_chunk_buf
      /\ written' = written + 1
    BY NothingSealed DEF WriteMarker, owned
<1>6. Buffers'
    <2>1. /\ written' # Sealed' /\ written' \in Sealed'..(Sealed' + ChunkSize - 1)
        BY <1>1, <1>5, ChunkSizeAssumption
    <2> QED
        BY <1>2, <1>5, <2>1 DEF Inv, Buffers
<1>7. Calls'
    BY <1>1, <1>5 DEF Inv, Calls, WriteMarker
<1> QED
    BY <1>3, <1>4, <1>6, <1>7 DEF Inv

LEMMA CloseEndsInv == ASSUME Inv, CloseEnds PROVE Inv'
<1>1. TaskDone /\ task' = "none" /\ stream = "closing" /\ stream' = "closed"
    BY DEF CloseEnds, Waited, Inv, Calls, TaskDone
<1>2. TypeOK'
    BY DEF CloseEnds, Inv, TypeOK, owned
<1>3. File' /\ Index' /\ Header'
    BY <1>1, CallerKeeps DEF CloseEnds
<1>4. /\ NumStored' = NumStored /\ Busy' = Busy /\ Sealed' = Sealed /\ ~Busy
      /\ next_chunk_pc' = next_chunk_pc
      /\ out_buf' = out_buf /\ compression_chunk_buf' = compression_chunk_buf
      /\ cur_chunk_buf' = cur_chunk_buf /\ written' = written
    BY <1>1, NothingSealed DEF CloseEnds, owned, Busy, TaskDone
<1>5. Buffers'
    BY <1>1, <1>4 DEF Inv, Buffers, TaskDone
<1>6. Calls'
    BY <1>1, <1>4 DEF Inv, Calls, CloseEnds
<1> QED
    BY <1>2, <1>3, <1>5, <1>6 DEF Inv

LEMMA StutterInv ==
    ASSUME Inv, alive' \in BOOLEAN, UNCHANGED <<caller, owned, task, next_chunk_pc>> PROVE Inv'
<1>1. TypeOK'
    BY DEF Inv, TypeOK, owned, caller
<1>2. File' /\ Index' /\ Header'
    BY CallerKeeps DEF caller
<1>3. /\ NumStored' = NumStored /\ Busy' = Busy /\ Sealed' = Sealed /\ (Busy => InHand' = InHand)
      /\ task' = task /\ next_chunk_pc' = next_chunk_pc /\ stream' = stream
      /\ out_buf' = out_buf /\ compression_chunk_buf' = compression_chunk_buf
      /\ cur_chunk_buf' = cur_chunk_buf /\ written' = written /\ in_progress' = in_progress
      /\ disk' = disk /\ num_marker_records' = num_marker_records
      /\ next_chunk_end' = next_chunk_end
      /\ pending_chunk' = pending_chunk /\ incomplete_chunk' = incomplete_chunk
    BY NothingSealed DEF owned, caller
<1>4. Buffers'
    BY <1>3 DEF Inv, Buffers
<1>5. Calls'
    BY <1>3 DEF Inv, Calls
<1> QED
    BY <1>1, <1>2, <1>4, <1>5 DEF Inv

LEMMA OpenInv == ASSUME Inv, Open PROVE Inv'
<1>1. /\ disk = NewFile /\ disk' = NewFile /\ task = "none" /\ task' = "none"
      /\ written = 0 /\ written' = 0 /\ num_marker_records' = 0 /\ chunk_indices = <<>>
      /\ chunk_indices' = <<Entry(0, 0, 0)>> /\ next_chunk_end' = ChunkSize
      /\ stream = "new" /\ stream' = "open"
    BY DEF Open, Inv, Calls, Index
<1>2. NumStored = 0 /\ Stored = 0 /\ NumStored' = 0 /\ Stored' = 0 /\ ~Busy /\ ~Busy' /\ ~EndingChunk'
    BY <1>1 DEF NumStored, Stored, NewFile, Busy, EndingChunk
<1>3. Sealed = 0 /\ Sealed' = 0
    BY <1>2 DEF Sealed
<1>4. TypeOK'
    <2>1. disk' \in [chunks : Seq(Intervals), index_at : Nat, index : Seq(Entries), end : Nat]
        BY <1>1, EmptyType
    <2>2. chunk_indices' \in Seq(Entries)
        <3>1. Entry(0, 0, 0) \in Entries
            BY DEF Entry, Entries
        <3> QED
            BY <1>1, <3>1
    <2> QED
        BY <1>1, <2>1, <2>2, ChunkSizeAssumption DEF Open, Inv, TypeOK
<1>5. Buffers'
    BY <1>1, <1>2, <1>3, ChunkSizeAssumption DEF Open, Inv, Buffers
<1>6. File'
    BY <1>1, <1>2 DEF File
<1>7. Calls'
    <2>1. next_chunk_end' = Sealed' + ChunkSize /\ written' = Sealed' /\ num_marker_records' = written'
        BY <1>1, <1>3, ChunkSizeAssumption
    <2>2. in_progress' = in_progress /\ ~in_progress
        BY <1>1 DEF Open, Inv, Calls
    <2>3. ~pending_chunk' => ~incomplete_chunk'
        BY DEF Open, Inv, Calls
    <2>4. stream' = "open" /\ pending_chunk' /\ ~incomplete_chunk' => written' # Sealed'
        BY <1>1, <1>3 DEF Open, Inv, Calls
    <2> QED
        BY <1>1, <2>1, <2>2, <2>3, <2>4 DEF Calls
<1>8. Index'
    <2>1. Len(chunk_indices') = 1 /\ chunk_indices'[1] = Entry(0, 0, 0)
        BY <1>1
    <2>2. bytes_written' = 0
        BY <1>1 DEF Open, Inv, Index
    <2> QED
        BY <1>1, <1>2, <2>1, <2>2 DEF Index, Describes
<1>9. Header'
    BY <1>1, <1>2 DEF Header, Describes, NewFile
<1> QED
    BY <1>4, <1>5, <1>6, <1>7, <1>8, <1>9 DEF Inv

-----------------------------------------------------------------------------
(* Steps that start the task on a chunk. *)

LEMMA WaitedFacts ==
    ASSUME Inv, Waited
    PROVE  /\ TaskDone /\ ~Busy /\ ~EndingChunk
           /\ compression_chunk_buf = NoMarkers /\ out_buf = NoMarkers
           /\ Sealed = Stored /\ bytes_written = 0
<1>1. TaskDone
    BY Zenon DEF Inv, Calls, Waited, TaskDone
<1>2. ~Busy /\ ~EndingChunk
    BY <1>1 DEF Busy, EndingChunk, TaskDone
<1> QED
    BY <1>1, <1>2 DEF Inv, Buffers, Index, Sealed, TaskDone

\* The file and the index wait for the task with what they hold.
LEMMA StartKeeps ==
    ASSUME Inv, TaskDone, stream = "open", stream' # "new", task' = "launched",
           UNCHANGED <<disk, chunk_indices, bytes_written>>
    PROVE  /\ File' /\ Index' /\ Header'
           /\ NumStored' = NumStored /\ Busy' /\ InHand' = compression_chunk_buf'
           /\ Sealed' = next_chunk_pc'
<1>1. NumStored' = NumStored /\ Stored' = Stored /\ Busy' /\ ~EndingChunk' /\ ~EndingChunk
    BY DEF NumStored, Stored, Busy, EndingChunk, TaskDone
<1>2. File'
    BY <1>1 DEF Inv, File
<1>3. bytes_written = 0
    BY DEF Inv, Index, TaskDone
<1>4. Describes(chunk_indices', disk'.chunks, NumStored')
    BY <1>1 DEF Inv, Index, TaskDone
<1>5. Index'
    BY <1>1, <1>3, <1>4 DEF Inv, Index
<1>6. Header'
    BY <1>1 DEF Inv, Header, TaskDone
<1> QED
    BY <1>1, <1>2, <1>5, <1>6 DEF InHand, Sealed

\* A chunk handed over leaves the buffer empty and is the next one in the file.
LEMMA StartBuffers ==
    ASSUME Inv, Waited, stream = "open", stream' # "new",
           NEW b, Cut(NumStored, b), stream' = "open" => Full(NumStored, b),
           b.to = written', StartChunk(b, written'),
           UNCHANGED <<disk, chunk_indices, bytes_written, out_buf>>
    PROVE  Buffers' /\ File' /\ Index' /\ Header' /\ Sealed' = written'
<1>1. task' = "launched" /\ compression_chunk_buf' = b /\ next_chunk_pc' = written'
    BY DEF StartChunk
<1>2. cur_chunk_buf' = NoMarkers /\ out_buf' = NoMarkers /\ TaskDone
    BY WaitedFacts DEF StartChunk
<1>3. /\ File' /\ Index' /\ Header'
      /\ NumStored' = NumStored /\ Busy' /\ InHand' = b /\ Sealed' = written'
    BY <1>1, <1>2, StartKeeps
<1>4. Cut(NumStored', InHand') /\ InHand'.to = next_chunk_pc'
    BY <1>1, <1>3
<1>5. stream' = "open" => Full(NumStored', InHand')
    BY <1>3
<1>6. written' \in Sealed'..(Sealed' + ChunkSize - 1)
    <2>1. written' \in Int
        BY DEF Cut, Intervals
    <2>2. \A w \in Int : w \in w..(w + ChunkSize - 1)
        BY ChunkSizeAssumption
    <2> QED
        BY <1>3, <2>1, <2>2, Zenon
<1>7. Buffers'
    BY <1>1, <1>2, <1>3, <1>4, <1>5, <1>6 DEF Buffers
<1> QED
    BY <1>3, <1>7

LEMMA WriteMarkerEndingChunkInv == ASSUME Inv, WriteMarkerEndingChunk PROVE Inv'
<1> DEFINE b == Put(cur_chunk_buf, written)
<1>1. /\ stream = "open" /\ stream' = "open" /\ Waited /\ written' = written + 1
      /\ StartChunk(b, written')
      /\ UNCHANGED <<disk, chunk_indices, bytes_written, out_buf>>
    BY DEF WriteMarkerEndingChunk
<1>2. /\ Sealed \in Nat /\ Sealed = ChunkStart(NumStored) /\ NumStored \in Nat
      /\ ChunkStart(NumStored + 1) = Sealed + ChunkSize
    <2>1. NumStored \in Nat
        BY StoredFacts DEF Inv
    <2> QED
        BY <1>1, <2>1, WaitedFacts, SealedFacts, Starts
<1>3. written + 1 = Sealed + ChunkSize /\ written \in Nat /\ num_marker_records = written
    <2>1. /\ written \in Nat /\ written \in Sealed..(Sealed + ChunkSize - 1)
          /\ num_marker_records = written /\ next_chunk_end = Sealed + ChunkSize
        BY <1>1 DEF Inv, TypeOK, Buffers, Calls
    <2>2. num_marker_records + 1 >= next_chunk_end
        BY DEF WriteMarkerEndingChunk
    <2>3. Sealed \in Nat
        BY <1>2
    <2> QED
        BY <2>1, <2>2, <2>3, ChunkSizeAssumption
<1>4. b = [from |-> Sealed, to |-> written + 1]
    BY <1>1, PutBehind
<1>5. b \in Intervals
    <2>1. Sealed \in Nat /\ written + 1 \in Nat /\ Sealed <= written + 1
        BY <1>2, <1>3, ChunkSizeAssumption
    <2>2. [from |-> Sealed, to |-> written + 1] \in Intervals
        BY <2>1 DEF Intervals
    <2> QED
        BY <1>4, <2>2
<1>6. Cut(NumStored, b) /\ Full(NumStored, b) /\ b.to = written'
    BY <1>1, <1>2, <1>3, <1>4, <1>5, ChunkSizeAssumption DEF Cut, Full
<1>7. Buffers' /\ File' /\ Index' /\ Header' /\ Sealed' = written'
    <2> HIDE DEF b
    <2> QED
        BY <1>1, <1>6, StartBuffers
<1>8. TypeOK'
    <2>1. written' \in Nat /\ num_marker_records' \in Nat /\ next_chunk_end' \in Nat
        BY <1>1, <1>3, ChunkSizeAssumption DEF WriteMarkerEndingChunk, Inv, TypeOK
    <2>2. alive' \in BOOLEAN /\ pending_chunk' \in BOOLEAN /\ incomplete_chunk' \in BOOLEAN
          /\ in_progress' \in BOOLEAN
        BY DEF WriteMarkerEndingChunk, StartChunk, Inv, TypeOK
    <2> QED
        BY <1>5, <2>1, <2>2 DEF WriteMarkerEndingChunk, StartChunk, Inv, TypeOK
<1>9. Calls'
    <2>1. num_marker_records' = written' /\ next_chunk_end' = Sealed' + ChunkSize
        BY <1>1, <1>2, <1>3, <1>7, ChunkSizeAssumption DEF WriteMarkerEndingChunk, Inv, Calls
    <2>2. in_progress' /\ task' # "none" /\ ~pending_chunk' /\ ~incomplete_chunk'
        BY DEF WriteMarkerEndingChunk, StartChunk
    <2> QED
        BY <1>1, <1>7, <2>1, <2>2 DEF Calls
<1> QED
    BY <1>7, <1>8, <1>9 DEF Inv

LEMMA CloseBeginsInv == ASSUME Inv, CloseBegins PROVE Inv'
<1>1. /\ stream = "open" /\ stream' = "closing" /\ written' = written
      /\ UNCHANGED <<disk, chunk_indices, bytes_written, out_buf>>
    BY DEF CloseBegins
<1>2. CASE pending_chunk /\ ~incomplete_chunk
    <2>1. Waited /\ StartChunk(cur_chunk_buf, written') /\ ~incomplete_chunk'
        BY <1>1, <1>2 DEF CloseBegins
    <2>2. /\ Sealed \in Nat /\ Sealed = ChunkStart(NumStored) /\ NumStored \in Nat
          /\ ChunkStart(NumStored + 1) = Sealed + ChunkSize
        <3>1. NumStored \in Nat
            BY StoredFacts DEF Inv
        <3> QED
            BY <1>1, <2>1, <3>1, WaitedFacts, SealedFacts, Starts
    <2>3. written # Sealed
        BY <1>1, <1>2 DEF Inv, Calls
    <2>4. cur_chunk_buf = [from |-> Sealed, to |-> written]
        BY <2>3 DEF Inv, Buffers
    <2>5. Cut(NumStored, cur_chunk_buf)
        <3>1. cur_chunk_buf \in Intervals /\ written \in Sealed..(Sealed + ChunkSize - 1)
            BY DEF Inv, TypeOK, Buffers
        <3>2. cur_chunk_buf.from = Sealed /\ cur_chunk_buf.to = written
            BY <2>4
        <3>3. written \in (Sealed + 1)..(Sealed + ChunkSize)
            BY <2>2, <2>3, <3>1, ChunkSizeAssumption
        <3> QED
            BY <2>2, <3>1, <3>2, <3>3 DEF Cut
    <2>6. Buffers' /\ File' /\ Index' /\ Header' /\ Sealed' = written'
        BY <1>1, <2>1, <2>4, <2>5, StartBuffers
    <2>7. TypeOK'
        <3>1. alive' \in BOOLEAN /\ pending_chunk' \in BOOLEAN /\ incomplete_chunk' \in BOOLEAN
              /\ in_progress' \in BOOLEAN
            BY <2>1 DEF CloseBegins, StartChunk, Inv, TypeOK
        <3>2. next_chunk_pc' \in Nat
            BY <1>1, <2>1 DEF StartChunk, Inv, TypeOK
        <3> QED
            BY <1>1, <2>1, <3>1, <3>2 DEF CloseBegins, StartChunk, Inv, TypeOK
    <2>8. Calls'
        <3>1. in_progress' /\ task' # "none" /\ ~pending_chunk'
            BY <2>1 DEF StartChunk
        <3> QED
            BY <1>1, <2>1, <2>6, <3>1 DEF Calls
    <2> QED
        BY <2>6, <2>7, <2>8 DEF Inv
<1>3. CASE ~(pending_chunk /\ ~incomplete_chunk)
    <2>1. UNCHANGED <<pending_chunk, in_progress, cur_chunk_buf, incomplete_chunk,
                      compression_chunk_buf, task, next_chunk_pc>>
        BY <1>3 DEF CloseBegins
    <2>2. UNCHANGED <<owned, next_chunk_pc>>
        BY <1>1, <2>1 DEF owned
    <2>3. TypeOK'
        BY <1>1, <2>1 DEF CloseBegins, Inv, TypeOK
    <2>4. File' /\ Index' /\ Header'
        BY <1>1, <2>1, <2>2, CallerKeeps
    <2>5. /\ NumStored' = NumStored /\ Busy' = Busy /\ Sealed' = Sealed
          /\ (Busy => InHand' = InHand)
        BY <2>1, <2>2, NothingSealed
    <2>6. Buffers'
        BY <1>1, <2>1, <2>5 DEF Inv, Buffers
    <2>7. ~incomplete_chunk => written = Sealed
        BY <1>3 DEF Inv, Calls
    <2>8. ~pending_chunk => ~incomplete_chunk
        BY DEF Inv, Calls
    <2>9. Calls'
        <3>1. /\ written' = Sealed' <=> written = Sealed
              /\ incomplete_chunk' = incomplete_chunk /\ pending_chunk' = pending_chunk
              /\ in_progress' = in_progress /\ task' = task
            BY <1>1, <2>1, <2>5
        <3>2. in_progress <=> task # "none"
            BY DEF Inv, Calls
        <3> QED
            BY <1>1, <2>7, <2>8, <3>1, <3>2, Zenon DEF Calls
    <2> QED
        BY <2>3, <2>4, <2>6, <2>9 DEF Inv
<1> QED
    BY <1>2, <1>3

-----------------------------------------------------------------------------
(* Steps of the task. *)

LEMMA TaskKeeps ==
    ASSUME Inv, UNCHANGED <<caller, next_chunk_pc>>, task # "none", task' # "none",
           Sealed' = Sealed
    PROVE  /\ Calls' /\ stream # "new" /\ stream' # "new" /\ stream' = stream
           /\ cur_chunk_buf' = IF written' = Sealed' THEN NoMarkers
                               ELSE [from |-> Sealed', to |-> written']
           /\ written' \in Sealed'..(Sealed' + ChunkSize - 1)
<1>1. /\ stream' = stream /\ written' = written /\ num_marker_records' = num_marker_records
      /\ next_chunk_end' = next_chunk_end /\ cur_chunk_buf' = cur_chunk_buf
    BY DEF caller
<1>2. /\ pending_chunk' = pending_chunk /\ incomplete_chunk' = incomplete_chunk
      /\ in_progress' = in_progress
    BY DEF caller
<1>3. stream # "new" /\ stream # "closed"
    BY DEF Inv, Calls
<1>4. Calls'
    BY <1>1, <1>2, <1>3 DEF Inv, Calls
<1> QED
    BY <1>1, <1>3, <1>4 DEF Inv, Buffers

LEMMA CompressInv == ASSUME Inv, Compress PROVE Inv'
<1>1. /\ task = "launched" /\ task' = "compressed" /\ next_chunk_pc' = next_chunk_pc
      /\ out_buf' = compression_chunk_buf /\ compression_chunk_buf' = NoMarkers
      /\ disk' = disk /\ chunk_indices' = chunk_indices /\ UNCHANGED caller
    BY DEF Compress
<1>2. /\ NumStored' = NumStored /\ Stored' = Stored /\ Busy /\ Busy' /\ Sealed' = Sealed
      /\ InHand' = InHand /\ ~EndingChunk /\ ~EndingChunk'
    BY <1>1 DEF NumStored, Stored, Busy, Sealed, InHand, EndingChunk
<1>3. /\ Calls' /\ stream # "new" /\ stream' # "new" /\ stream' = stream
      /\ cur_chunk_buf' = IF written' = Sealed' THEN NoMarkers
                          ELSE [from |-> Sealed', to |-> written']
      /\ written' \in Sealed'..(Sealed' + ChunkSize - 1)
    BY <1>1, <1>2, TaskKeeps
<1>4. Cut(NumStored, InHand) /\ InHand = compression_chunk_buf
    BY <1>1, <1>2 DEF Inv, Buffers, InHand
<1>5. bytes_written' = Count(out_buf') /\ bytes_written' \in Nat
    <2>1. bytes_written = 0 /\ bytes_written' = bytes_written + Count(compression_chunk_buf)
        BY <1>1 DEF Inv, Index, Compress
    <2>2. Count(compression_chunk_buf) \in Nat
        BY <1>4 DEF Cut, Intervals, Count
    <2> QED
        BY <1>1, <2>1, <2>2
<1>6. TypeOK'
    <2>1. compression_chunk_buf' \in Intervals /\ out_buf' \in Intervals
        BY <1>1, EmptyType DEF Inv, TypeOK
    <2> QED
        BY <1>1, <1>5, <2>1 DEF Compress, caller, Inv, TypeOK
<1>7. Buffers'
    BY <1>1, <1>2, <1>3 DEF Inv, Buffers
<1>8. File'
    BY <1>1, <1>2 DEF Inv, File
<1>9. Index'
    <2>1. Describes(chunk_indices', disk'.chunks, NumStored')
        BY <1>1, <1>2 DEF Inv, Index
    <2> QED
        BY <1>1, <1>2, <1>3, <1>5, <2>1 DEF Inv, Index
<1>10. Header'
    BY <1>1, <1>2 DEF Inv, Header
<1> QED
    BY <1>3, <1>6, <1>7, <1>8, <1>9, <1>10 DEF Inv

LEMMA WriteChunkInv == ASSUME Inv, WriteChunk PROVE Inv'
<1>1. /\ task = "compressed" /\ task' = "payload" /\ next_chunk_pc' = next_chunk_pc
      /\ out_buf' = NoMarkers /\ compression_chunk_buf' = compression_chunk_buf
      /\ bytes_written' = bytes_written /\ chunk_indices' = chunk_indices /\ UNCHANGED caller
      /\ disk' = [disk EXCEPT !.chunks = Append(@, out_buf), !.index_at = 0]
    BY DEF WriteChunk
<1>2. /\ Busy /\ ~Busy' /\ InHand = out_buf /\ ~EndingChunk /\ EndingChunk'
      /\ compression_chunk_buf = NoMarkers
    BY <1>1 DEF Busy, InHand, EndingChunk, Inv, Buffers
<1>3. NumStored \in Nat /\ Stored = ChunkStart(NumStored)
    BY <1>2, StoredFacts DEF Inv
<1>4. /\ disk.chunks \in Seq(Intervals) /\ Len(disk.chunks) = NumStored /\ out_buf \in Intervals
      /\ disk'.chunks = Append(disk.chunks, out_buf) /\ disk'.index_at = 0
      /\ disk'.index = disk.index /\ disk'.end = disk.end
    BY <1>1 DEF Inv, TypeOK, NumStored
<1>5. /\ disk'.chunks \in Seq(Intervals) /\ Len(disk'.chunks) = NumStored + 1
      /\ \A i \in 1..NumStored : disk'.chunks[i] = disk.chunks[i]
      /\ disk'.chunks[NumStored + 1] = out_buf
    BY <1>4, AppendFacts
<1>6. NumStored' = NumStored + 1 /\ Stored' = out_buf.to
    <2>1. NumStored' = NumStored + 1
        BY <1>5 DEF NumStored
    <2>2. disk'.chunks # <<>>
        BY <1>3, <1>5
    <2> QED
        BY <1>5, <2>1, <2>2 DEF Stored
<1>7. Sealed' = Sealed /\ Sealed = out_buf.to /\ next_chunk_pc = out_buf.to
    BY <1>2, <1>6 DEF Inv, Buffers, Sealed
<1>8. /\ Calls' /\ stream # "new" /\ stream' # "new" /\ stream' = stream
      /\ cur_chunk_buf' = IF written' = Sealed' THEN NoMarkers
                          ELSE [from |-> Sealed', to |-> written']
      /\ written' \in Sealed'..(Sealed' + ChunkSize - 1)
    BY <1>1, <1>7, TaskKeeps
<1>9. TypeOK'
    <2>1. disk' \in [chunks : Seq(Intervals), index_at : Nat, index : Seq(Entries), end : Nat]
        BY <1>1, <1>4, <1>5 DEF Inv, TypeOK
    <2> QED
        BY <1>1, <2>1, EmptyType DEF caller, Inv, TypeOK, WriteChunk
<1>10. Buffers'
    BY <1>1, <1>2, <1>8 DEF Buffers
<1>11. File'
    <2>1. \A c \in 0..NumStored :
             c # NumStored => c \in 0..(NumStored - 1) /\ c + 1 \in 1..NumStored
        BY <1>3
    <2>2. \A c \in 0..NumStored : Cut(c, disk'.chunks[c + 1])
        BY <1>2, <1>5, <2>1 DEF Inv, File, Buffers
    <2>3. \A c \in 0..NumStored : c # NumStored => Full(c, disk'.chunks[c + 1])
        BY <1>2, <1>5, <2>1 DEF Inv, File
    <2>4. stream' = "open" => Full(NumStored, disk'.chunks[NumStored + 1])
        BY <1>2, <1>5, <1>8 DEF Inv, Buffers
    <2>5. \A c \in 0..NumStored : c + 1 < NumStored + 1 => c # NumStored
        BY <1>3
    <2>6. NumStored' - 1 = NumStored /\ NumStored + 1 > 0
        BY <1>3, <1>6
    <2>7. next_chunk_pc' = Stored'
        BY <1>1, <1>6, <1>7
    <2>8. 0..(NumStored' - 1) = 0..NumStored
        BY <2>6, Zenon
    <2>9. \A c \in 0..(NumStored' - 1) : Cut(c, disk'.chunks[c + 1])
        BY <2>2, <2>8, Zenon
    <2>10. \A c \in 0..(NumStored' - 1) :
             c + 1 < NumStored' \/ Busy' \/ stream' = "open" => Full(c, disk'.chunks[c + 1])
        <3> SUFFICES ASSUME NEW c \in 0..NumStored,
                            c + 1 < NumStored + 1 \/ stream' = "open"
                     PROVE  Full(c, disk'.chunks[c + 1])
            BY <1>2, <1>6, <2>8, Zenon
        <3> QED
            BY <2>3, <2>4, <2>5, Zenon
    <2> QED
        BY <1>6, <2>6, <2>7, <2>9, <2>10 DEF File
<1>12. Index'
    <2>1. /\ Len(chunk_indices) = NumStored + 1
          /\ chunk_indices[NumStored + 1] = Entry(NumStored, ChunkStart(NumStored), 0)
          /\ Describes(chunk_indices, disk.chunks, NumStored)
          /\ bytes_written = Count(out_buf)
        BY <1>1, <1>2, <1>3, <1>8 DEF Inv, Index
    <2>2. \A c \in 0..(NumStored - 1) : c + 1 \in 1..NumStored
        BY <1>3
    <2>3. Describes(chunk_indices', disk'.chunks, NumStored)
        BY <1>1, <1>5, <2>1, <2>2 DEF Describes
    <2>4. NumStored' - 1 = NumStored
        BY <1>3, <1>6
    <2>5. Len(chunk_indices') = NumStored'
        BY <1>1, <1>6, <2>1
    <2>6. chunk_indices'[NumStored'] = Entry(NumStored' - 1, ChunkStart(NumStored' - 1), 0)
        BY <1>1, <1>6, <2>1, <2>4, Zenon
    <2>7. Describes(chunk_indices', disk'.chunks, NumStored' - 1)
        BY <2>3, <2>4, Zenon
    <2>8. bytes_written' = Count(disk'.chunks[NumStored'])
        BY <1>1, <1>5, <1>6, <2>1
    <2> QED
        BY <1>1, <1>2, <1>8, <2>5, <2>6, <2>7, <2>8 DEF Index
<1>13. Header'
    <2>1. disk.end = NumStored
        BY <1>1 DEF Inv, Header
    <2>2. NumStored + 1 - 1 = NumStored
        BY <1>3
    <2> QED
        BY <1>1, <1>4, <1>6, <2>1, <2>2 DEF Header
<1> QED
    BY <1>8, <1>9, <1>10, <1>11, <1>12, <1>13 DEF Inv

\* Changes of the file's index, of its header and of chunk_indices leave the
\* chunks alone.
LEMMA ChunksKeep ==
    ASSUME Inv, EndingChunk, task' \in {"index", "header", "done"},
           disk'.chunks = disk.chunks,
           UNCHANGED <<caller, next_chunk_pc, compression_chunk_buf, out_buf>>
    PROVE  /\ Buffers' /\ File' /\ Calls'
           /\ NumStored' = NumStored /\ Stored' = Stored
           /\ stream # "new" /\ stream' # "new"
           /\ NumStored \in Nat \ {0} /\ Len(chunk_indices) = NumStored
<1>1. /\ NumStored' = NumStored /\ Stored' = Stored /\ ~Busy /\ ~Busy' /\ Sealed' = Sealed
      /\ task # "none" /\ task' # "none" /\ stream' = stream
    BY DEF NumStored, Stored, Busy, Sealed, EndingChunk, caller
<1>2. /\ Calls' /\ stream # "new" /\ stream' # "new"
      /\ cur_chunk_buf' = IF written' = Sealed' THEN NoMarkers
                          ELSE [from |-> Sealed', to |-> written']
      /\ written' \in Sealed'..(Sealed' + ChunkSize - 1)
    BY <1>1, TaskKeeps
<1>3. compression_chunk_buf' = NoMarkers /\ out_buf' = NoMarkers
    BY DEF EndingChunk, Inv, Buffers
<1>4. Buffers'
    BY <1>1, <1>2, <1>3 DEF Buffers
<1>5. NumStored > 0 /\ next_chunk_pc = Stored
    BY DEF EndingChunk, Inv, File
<1>6. File'
    BY <1>1, <1>5 DEF Inv, File
<1>7. NumStored \in Nat
    BY StoredFacts DEF Inv
<1>8. Len(chunk_indices) = NumStored
    BY <1>2 DEF Inv, Index
<1> QED
    BY <1>1, <1>2, <1>4, <1>5, <1>6, <1>7, <1>8

LEMMA WriteIndexInv == ASSUME Inv, WriteIndex PROVE Inv'
<1>1. /\ task = "payload" /\ task' = "index" /\ bytes_written' = 0 /\ UNCHANGED caller
      /\ chunk_indices' = [chunk_indices EXCEPT ![Len(chunk_indices)].size = bytes_written]
      /\ disk' = [disk EXCEPT !.index_at = Len(disk.chunks), !.index = chunk_indices']
      /\ UNCHANGED <<next_chunk_pc, compression_chunk_buf, out_buf>>
    BY DEF WriteIndex
<1>2. EndingChunk /\ EndingChunk'
    BY <1>1 DEF EndingChunk
<1>3. /\ disk.chunks \in Seq(Intervals) /\ chunk_indices \in Seq(Entries)
      /\ bytes_written \in Nat
    BY DEF Inv, TypeOK
<1>4. /\ disk'.chunks = disk.chunks /\ disk'.index_at = NumStored
      /\ disk'.index = chunk_indices' /\ disk'.end = disk.end
    BY <1>1 DEF Inv, TypeOK, NumStored
<1>5. /\ Buffers' /\ File' /\ Calls'
      /\ NumStored' = NumStored /\ Stored' = Stored
      /\ stream # "new" /\ stream' # "new"
      /\ NumStored \in Nat \ {0} /\ Len(chunk_indices) = NumStored
    BY <1>1, <1>2, <1>4, ChunksKeep
<1>6. /\ chunk_indices[NumStored] = Entry(NumStored - 1, ChunkStart(NumStored - 1), 0)
      /\ Describes(chunk_indices, disk.chunks, NumStored - 1)
      /\ bytes_written = Count(disk.chunks[NumStored])
    BY <1>1 DEF Inv, Index
<1>7. /\ Len(chunk_indices') = NumStored
      /\ chunk_indices'[NumStored] = [chunk_indices[NumStored] EXCEPT !.size = bytes_written]
      /\ \A i \in 1..NumStored : i # NumStored => chunk_indices'[i] = chunk_indices[i]
    BY <1>1, <1>3, <1>5
<1>8. chunk_indices' \in Seq(Entries)
    <2>1. NumStored \in 1..NumStored
        BY <1>5
    <2>2. chunk_indices[NumStored] \in Entries
        BY <1>3, <1>5, <2>1
    <2>3. [chunk_indices[NumStored] EXCEPT !.size = bytes_written] \in Entries
        BY <1>3, <2>2 DEF Entries
    <2> QED
        BY <1>1, <1>3, <1>5, <2>3
<1>9. chunk_indices'[NumStored] =
          Entry(NumStored - 1, ChunkStart(NumStored - 1), Count(disk.chunks[NumStored]))
    BY <1>6, <1>7 DEF Entry
<1>10. Describes(chunk_indices', disk.chunks, NumStored)
    <2> SUFFICES ASSUME NEW c \in 0..(NumStored - 1)
                 PROVE  chunk_indices'[c + 1] = Entry(c, ChunkStart(c), Count(disk.chunks[c + 1]))
        BY DEF Describes
    <2>1. CASE c = NumStored - 1
        <3>1. c + 1 = NumStored
            BY <1>5, <2>1
        <3> QED
            BY <1>9, <2>1, <3>1, Zenon
    <2>2. CASE c # NumStored - 1
        <3>1. c \in 0..(NumStored - 1 - 1) /\ c + 1 \in 1..NumStored /\ c + 1 # NumStored
            BY <1>5, <2>2
        <3> QED
            BY <1>6, <1>7, <3>1, Zenon DEF Describes
    <2> QED
        BY <2>1, <2>2
<1>11. TypeOK'
    <2>1. disk' \in [chunks : Seq(Intervals), index_at : Nat, index : Seq(Entries), end : Nat]
        BY <1>1, <1>5, <1>8 DEF Inv, TypeOK, NumStored
    <2> QED
        BY <1>1, <1>8, <2>1 DEF caller, Inv, TypeOK, WriteIndex
<1>12. Index'
    BY <1>1, <1>2, <1>4, <1>5, <1>7, <1>10 DEF Index
<1>13. Header'
    <2>1. disk'.end = NumStored - 1
        BY <1>1, <1>4 DEF Inv, Header
    <2> QED
        BY <1>1, <1>4, <1>5, <1>7, <1>10, <2>1 DEF Header
<1> QED
    BY <1>5, <1>11, <1>12, <1>13 DEF Inv

LEMMA WriteHeaderInv == ASSUME Inv, WriteHeader PROVE Inv'
<1>1. /\ task = "index" /\ task' = "header" /\ UNCHANGED caller
      /\ disk' = [disk EXCEPT !.end = NumStored]
      /\ chunk_indices' = chunk_indices /\ bytes_written' = bytes_written
      /\ UNCHANGED <<next_chunk_pc, compression_chunk_buf, out_buf>>
    BY DEF WriteHeader, AfterChunk, NumStored
<1>2. EndingChunk /\ EndingChunk'
    BY <1>1 DEF EndingChunk
<1>3. /\ disk'.chunks = disk.chunks /\ disk'.index_at = disk.index_at
      /\ disk'.index = disk.index /\ disk'.end = NumStored
    BY <1>1 DEF Inv, TypeOK
<1>4. /\ Buffers' /\ File' /\ Calls'
      /\ NumStored' = NumStored /\ Stored' = Stored
      /\ stream # "new" /\ stream' # "new"
      /\ NumStored \in Nat \ {0} /\ Len(chunk_indices) = NumStored
    BY <1>1, <1>2, <1>3, ChunksKeep
<1>5. TypeOK'
    <2>1. disk' \in [chunks : Seq(Intervals), index_at : Nat, index : Seq(Entries), end : Nat]
        BY <1>1, <1>4 DEF Inv, TypeOK
    <2> QED
        BY <1>1, <2>1 DEF caller, Inv, TypeOK, WriteHeader
<1>6. bytes_written = 0 /\ Describes(chunk_indices, disk.chunks, NumStored)
    BY <1>1 DEF Inv, Index
<1>7. Index'
    BY <1>1, <1>2, <1>3, <1>4, <1>6 DEF Index
<1>8. Header'
    BY <1>1, <1>3, <1>4 DEF Inv, Header
<1> QED
    BY <1>4, <1>5, <1>7, <1>8 DEF Inv

LEMMA BeginNextChunkInv == ASSUME Inv, BeginNextChunk PROVE Inv'
<1> DEFINE e == Entry(NumStored, next_chunk_pc, 0)
<1>1. /\ task = "header" /\ task' = "done" /\ UNCHANGED caller /\ disk' = disk
      /\ chunk_indices' = Append(chunk_indices, e) /\ bytes_written' = bytes_written
      /\ UNCHANGED <<next_chunk_pc, compression_chunk_buf, out_buf>>
    BY DEF BeginNextChunk, AfterChunk, NumStored
<1>2. EndingChunk /\ ~EndingChunk'
    BY <1>1 DEF EndingChunk
<1>3. /\ Buffers' /\ File' /\ Calls'
      /\ NumStored' = NumStored /\ Stored' = Stored
      /\ stream # "new" /\ stream' # "new"
      /\ NumStored \in Nat \ {0} /\ Len(chunk_indices) = NumStored
    BY <1>1, <1>2, ChunksKeep
<1>4. e \in Entries /\ e = Entry(NumStored, Stored, 0)
    <2>1. next_chunk_pc \in Nat /\ next_chunk_pc = Stored
        BY <1>1 DEF Inv, TypeOK, File
    <2> QED
        BY <1>3, <2>1 DEF Entry, Entries
<1>5. chunk_indices \in Seq(Entries)
    BY DEF Inv, TypeOK
<1> HIDE DEF e
<1>6. /\ chunk_indices' \in Seq(Entries) /\ Len(chunk_indices') = NumStored + 1
      /\ \A i \in 1..NumStored : chunk_indices'[i] = chunk_indices[i]
      /\ chunk_indices'[NumStored + 1] = e
    BY <1>1, <1>3, <1>4, <1>5, AppendFacts
<1>7. TypeOK'
    <2>1. disk' \in [chunks : Seq(Intervals), index_at : Nat, index : Seq(Entries), end : Nat]
        BY <1>1 DEF Inv, TypeOK
    <2> QED
        BY <1>1, <1>6, <2>1 DEF caller, Inv, TypeOK, BeginNextChunk
<1>8. bytes_written = 0 /\ Describes(chunk_indices, disk.chunks, NumStored)
    BY <1>1 DEF Inv, Index
<1>9. Describes(chunk_indices', disk'.chunks, NumStored')
    <2>1. \A c \in 0..(NumStored - 1) : c + 1 \in 1..NumStored
        BY <1>3
    <2> QED
        BY <1>1, <1>3, <1>6, <1>8, <2>1, Zenon DEF Describes
<1>10. Index'
    BY <1>1, <1>2, <1>3, <1>4, <1>6, <1>8, <1>9 DEF Index
<1>11. Header'
    BY <1>1, <1>3 DEF Inv, Header
<1> QED
    BY <1>3, <1>7, <1>10, <1>11 DEF Inv

-----------------------------------------------------------------------------
(* Every behaviour. *)

LEMMA InitInv == Init => Inv
<1> SUFFICES ASSUME Init PROVE Inv
    OBVIOUS
<1>1. TypeOK
    BY InitType
<1>2. /\ task = "none" /\ stream = "new" /\ written = 0 /\ num_marker_records = 0
      /\ disk = NewFile /\ chunk_indices = <<>> /\ bytes_written = 0
      /\ cur_chunk_buf = NoMarkers /\ compression_chunk_buf = NoMarkers /\ out_buf = NoMarkers
    BY DEF Init
<1>3. ~pending_chunk /\ ~incomplete_chunk /\ ~in_progress
    BY DEF Init
<1>4. NumStored = 0 /\ Stored = 0 /\ ~Busy /\ Sealed = 0
    BY <1>2 DEF NumStored, Stored, NewFile, Busy, Sealed
<1>5. Buffers
    BY <1>2, <1>4, ChunkSizeAssumption DEF Buffers
<1>6. File
    BY <1>2, <1>4 DEF File
<1>7. Calls
    BY <1>2, <1>3, <1>4 DEF Calls
<1>8. Index
    BY <1>2, <1>4 DEF Index, Describes, EndingChunk
<1>9. Header
    BY <1>2, <1>4 DEF Header, Describes, NewFile
<1> QED
    BY <1>1, <1>5, <1>6, <1>7, <1>8, <1>9 DEF Inv

LEMMA NextInv == Inv /\ [Next]_vars => Inv'
<1> SUFFICES ASSUME Inv, [Next]_vars PROVE Inv'
    OBVIOUS
<1>1. CASE Open
    BY <1>1, OpenInv
<1>2. CASE WriteOther
    BY <1>2, WriteOtherInv
<1>3. CASE WriteMarker
    BY <1>3, WriteMarkerInv
<1>4. CASE WriteMarkerEndingChunk
    BY <1>4, WriteMarkerEndingChunkInv
<1>5. CASE CloseBegins
    BY <1>5, CloseBeginsInv
<1>6. CASE CloseEnds
    BY <1>6, CloseEndsInv
<1>7. CASE Task
    BY <1>7, CompressInv, WriteChunkInv, WriteIndexInv, WriteHeaderInv, BeginNextChunkInv
       DEF Task
<1>8. CASE Kill
    BY <1>8, StutterInv DEF Kill
<1>9. CASE UNCHANGED vars
    <2>1. alive' = alive /\ UNCHANGED <<caller, owned, task, next_chunk_pc>>
        BY <1>9 DEF vars
    <2>2. alive \in BOOLEAN
        BY DEF Inv, TypeOK
    <2>3. alive' \in BOOLEAN
        BY <2>1, <2>2, Zenon
    <2> QED
        BY <2>1, <2>3, StutterInv
<1> QED
    BY <1>1, <1>2, <1>3, <1>4, <1>5, <1>6, <1>7, <1>8, <1>9 DEF Next

LEMMA Invariance == Spec => []Inv
BY InitInv, NextInv, PTL DEF Spec

-----------------------------------------------------------------------------
(* Properties. *)

\* The variables keep their types: no counter of the writer gets below 0 and no
\* buffer ends before it begins.
THEOREM TypesHold == Spec => []TypeOK
<1>1. Inv => TypeOK
    BY DEF Inv
<1> QED
    BY <1>1, Invariance, PTL

\* A chunk that holds chunk c, all of it if a later one follows, is as long as
\* the reader takes chunk c to be.
LEMMA CutIsChunk ==
    ASSUME Inv, NEW c \in 0..(NumStored - 1)
    PROVE  disk.chunks[c + 1] = [from |-> ChunkStart(c),
                                 to |-> ChunkStart(c) + ChunkLen(Stored, c)]
<1> DEFINE b == disk.chunks[c + 1]
<1>1. /\ NumStored \in Nat /\ Stored \in Nat
      /\ NumStored > 0 => /\ Stored = disk.chunks[NumStored].to
                          /\ Cut(NumStored - 1, disk.chunks[NumStored])
    BY StoredFacts DEF Inv
<1>2. /\ c \in Nat /\ ChunkStart(c) \in Nat /\ ChunkStart(c + 1) = ChunkStart(c) + ChunkSize
      /\ NumStored > 0
    BY <1>1, Starts
<1>3. b \in Intervals /\ b.from = ChunkStart(c) /\ b.to \in (ChunkStart(c) + 1)..ChunkStart(c + 1)
    BY DEF Inv, File, Cut
<1>4. b = [from |-> b.from, to |-> b.to]
    BY <1>3 DEF Intervals
<1> HIDE DEF b
<1>5. CASE c = NumStored - 1
    <2>1. c + 1 = NumStored
        BY <1>1, <1>5
    <2>2. Stored = b.to
        BY <1>1, <1>2, <2>1 DEF b
    <2>3. ChunkLen(Stored, c) = Stored - ChunkStart(c)
        BY <1>1, <1>2, <1>3, <2>2, ChunkSizeAssumption DEF ChunkLen
    <2>4. b.to = ChunkStart(c) + ChunkLen(Stored, c)
        BY <1>1, <1>2, <2>2, <2>3
    <2> QED
        BY <1>3, <1>4, <2>4, Zenon DEF b
<1>6. CASE c # NumStored - 1
    <2>1. c + 1 < NumStored /\ c < NumStored - 1 /\ NumStored - 1 \in Nat
        BY <1>1, <1>6
    <2>2. b.to = ChunkStart(c + 1)
        BY <2>1 DEF Inv, File, Full, b
    <2>3. ChunkStart(c) + ChunkSize <= ChunkStart(NumStored - 1) /\ ChunkStart(NumStored - 1) \in Nat
        BY <1>2, <2>1, StartsMonotone, Starts
    <2>4. ChunkStart(NumStored - 1) < Stored
        BY <1>1, <1>2, <2>3 DEF Cut
    <2>5. ChunkLen(Stored, c) = ChunkSize
        BY <1>1, <1>2, <2>3, <2>4, ChunkSizeAssumption DEF ChunkLen
    <2>6. b.to = ChunkStart(c) + ChunkLen(Stored, c)
        BY <1>2, <2>2, <2>5
    <2> QED
        BY <1>3, <1>4, <2>6, Zenon DEF b
<1> QED
    BY <1>5, <1>6

\* The file is cut the way the reader's arithmetic expects: chunk c holds
\* ChunkLen markers from ChunkStart(c) on, there are as many chunks as the
\* reader computes, and only closing leaves the last one short.
THEOREM ChunksAreWhatTheReaderCountsOn == Spec => []ChunksAreCut
<1>1. Inv => ChunksAreCut
    <2> SUFFICES ASSUME Inv PROVE ChunksAreCut
        OBVIOUS
    <2>1. /\ NumStored \in Nat /\ Stored \in Nat
          /\ NumStored = 0 => Stored = 0
          /\ NumStored > 0 => /\ Stored = disk.chunks[NumStored].to
                              /\ Cut(NumStored - 1, disk.chunks[NumStored])
          /\ stream = "open" => Stored = ChunkStart(NumStored)
        BY StoredFacts DEF Inv
    <2>2. NumChunks(Stored) = NumStored
        <3>1. CASE NumStored = 0
            BY <2>1, <3>1, NumChunksOfCut
        <3>2. CASE NumStored > 0
            <4>1. NumStored \in Nat \ {0} /\ NumStored - 1 + 1 = NumStored
                BY <2>1, <3>2
            <4>2. Stored \in (ChunkStart(NumStored - 1) + 1)..ChunkStart(NumStored)
                BY <2>1, <3>2, <4>1 DEF Cut
            <4> QED
                BY <4>1, <4>2, NumChunksOfCut
        <3> QED
            BY <2>1, <3>1, <3>2
    <2>3. stream = "open" => Stored % ChunkSize = 0
        BY <2>1, StartIsMultiple
    <2> QED
        BY <2>2, <2>3, CutIsChunk DEF ChunksAreCut, NumStored
<1> QED
    BY <1>1, Invariance, PTL

\* The index a reader can find describes every chunk of the file, also while
\* the task is at work and after the writer has been killed.
THEOREM IndexIsRight == Spec => []IndexDescribesChunks
<1>1. Inv => IndexDescribesChunks
    <2> SUFFICES ASSUME Inv, Readable PROVE IndexDescribesChunks
        BY DEF IndexDescribesChunks
    <2>1. NumStored \in Nat
        BY StoredFacts DEF Inv
    <2>2. task # "payload"
        BY DEF Inv, Header, Readable
    <2>3. /\ disk.index_at = NumStored /\ Len(disk.index) = NumStored
          /\ Describes(disk.index, disk.chunks, NumStored)
        BY <2>2 DEF Inv, Header
    <2>4. disk.end = NumStored
        BY <2>3 DEF Readable
    <2> QED
        BY <2>3, <2>4 DEF IndexDescribesChunks, Describes
<1> QED
    BY <1>1, Invariance, PTL

\* Outside endChunk_ a file with a finished chunk can be read, up to its last
\* chunk.
THEOREM AlwaysReadable == Spec => []ReadableBetweenChunks
<1>1. Inv => ReadableBetweenChunks
    <2> SUFFICES ASSUME Inv, ~EndingChunk, disk.chunks # <<>>
                 PROVE  Readable /\ disk.end = NumStored
        BY DEF ReadableBetweenChunks, NumStored
    <2>1. NumStored \in Nat /\ NumStored # 0
        BY StoredFacts DEF Inv
    <2>2. disk.end = NumStored /\ disk.index_at = NumStored
        BY DEF EndingChunk, Inv, Header
    <2> QED
        BY <2>1, <2>2 DEF Readable
<1> QED
    BY <1>1, Invariance, PTL

\* The chunks, the chunk in hand and the buffer are all markers written.
THEOREM MarkersAreKept == Spec => []NoMarkerLost
<1>1. Inv => NoMarkerLost
    <2> SUFFICES ASSUME Inv PROVE NoMarkerLost
        OBVIOUS
    <2>1. Sealed \in Nat /\ Stored \in Nat /\ NumStored \in Nat /\ written \in Nat
        BY SealedFacts, StoredFacts DEF Inv, TypeOK
    <2>2. /\ Count(cur_chunk_buf) = written - Sealed
          /\ Count(cur_chunk_buf) > 0 => cur_chunk_buf.to = written
        <3>1. CASE written = Sealed
            BY <2>1, <3>1 DEF Inv, Buffers, Count, NoMarkers
        <3>2. CASE written # Sealed
            BY <2>1, <3>2 DEF Inv, Buffers, Count
        <3> QED
            BY <3>1, <3>2
    <2>3. Stored + Count(out_buf) + Count(compression_chunk_buf) = Sealed
        <3>1. Count(NoMarkers) = 0
            BY DEF Count, NoMarkers
        <3>2. CASE Busy
            <4>1. Stored = ChunkStart(NumStored) /\ InHand \in Intervals
                  /\ InHand.from = ChunkStart(NumStored) /\ InHand.to = next_chunk_pc
                  /\ Sealed = next_chunk_pc
                BY <3>2, StoredFacts DEF Inv, Buffers, Cut, Sealed
            <4>2. Count(InHand) = Sealed - Stored
                BY <4>1 DEF Count
            <4>3. CASE task = "launched"
                <5>1. InHand = compression_chunk_buf /\ Count(out_buf) = 0
                    BY <3>1, <4>3 DEF InHand, Inv, Buffers
                <5> QED
                    BY <2>1, <4>2, <5>1
            <4>4. CASE task = "compressed"
                <5>1. InHand = out_buf /\ Count(compression_chunk_buf) = 0
                    BY <3>1, <4>4 DEF InHand, Inv, Buffers
                <5> QED
                    BY <2>1, <4>2, <5>1
            <4> QED
                BY <3>2, <4>3, <4>4 DEF Busy
        <3>3. CASE ~Busy
            <4>1. Sealed = Stored /\ Count(out_buf) = 0 /\ Count(compression_chunk_buf) = 0
                BY <3>1, <3>3 DEF Sealed, Busy, Inv, Buffers
            <4> QED
                BY <2>1, <4>1
        <3> QED
            BY <3>2, <3>3
    <2>4. Stored + Count(out_buf) + Count(compression_chunk_buf) + Count(cur_chunk_buf) = written
        BY <2>1, <2>2, <2>3
    <2> QED
        BY <2>2, <2>4 DEF NoMarkerLost
<1> QED
    BY <1>1, Invariance, PTL

\* A closed file holds every marker, or all but those of an unfinished last
\* chunk, and can be read.
THEOREM ClosedFilesAreComplete == Spec => []CloseKeepsMarkers
<1>1. Inv => CloseKeepsMarkers
    <2> SUFFICES ASSUME Inv, stream = "closed" PROVE CloseKeepsMarkers
        BY DEF CloseKeepsMarkers
    <2>1. task = "none" /\ (~incomplete_chunk => written = Sealed)
        BY DEF Inv, Calls
    <2>2. ~Busy /\ ~EndingChunk /\ Sealed = Stored
        BY <2>1 DEF Busy, EndingChunk, Sealed
    <2>3. written - Stored < ChunkSize
        <3>1. Stored \in Nat /\ written \in Stored..(Stored + ChunkSize - 1)
            BY <2>2, StoredFacts DEF Inv, Buffers
        <3> QED
            BY <3>1, ChunkSizeAssumption
    <2>4. Stored > 0 => Readable
        <3>1. NumStored \in Nat /\ (Stored > 0 => NumStored # 0)
            BY StoredFacts DEF Inv
        <3>2. disk.end = NumStored /\ disk.index_at = NumStored
            BY <2>1 DEF Inv, Header
        <3> QED
            BY <3>1, <3>2 DEF Readable
    <2> QED
        BY <2>1, <2>2, <2>3, <2>4, Zenon DEF CloseKeepsMarkers
<1> QED
    BY <1>1, Invariance, PTL

\* While the task runs, nothing but the task touches the file, the index and
\* the buffers it works on: compressChunk_ waits before it swaps the buffers.
THEOREM TheTaskIsAlone == Spec => TaskOwnsFile
<1>1. Inv /\ [Next]_vars => [~TaskDone => Task \/ UNCHANGED owned]_vars
    <2> SUFFICES ASSUME Inv, Next, ~TaskDone PROVE Task \/ UNCHANGED owned
        OBVIOUS
    <2>1. ~Waited /\ stream # "new"
        BY DEF Inv, Calls, Waited, TaskDone
    <2>2. CASE Open
        BY <2>1, <2>2 DEF Open
    <2>3. CASE WriteOther
        BY <2>3 DEF WriteOther
    <2>4. CASE WriteMarker
        BY <2>4 DEF WriteMarker
    <2>5. CASE WriteMarkerEndingChunk
        BY <2>1, <2>5 DEF WriteMarkerEndingChunk
    <2>6. CASE CloseBegins
        BY <2>1, <2>6 DEF CloseBegins, owned
    <2>7. CASE CloseEnds
        BY <2>7 DEF CloseEnds
    <2>8. CASE Kill
        BY <2>8 DEF Kill
    <2> QED
        BY <2>2, <2>3, <2>4, <2>5, <2>6, <2>7, <2>8 DEF Next
<1>2. Spec => [][Next]_vars
    BY PTL DEF Spec
<1> QED
    BY <1>1, <1>2, Invariance, PTL DEF TaskOwnsFile
=============================================================================
