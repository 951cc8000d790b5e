---------------------------- MODULE TraceIndexer ----------------------------
(***************************************************************************)
(* STFIndexer: a thread reads a trace from end to end with a reader of its *)
(* own and enters every granularity'th marker record, with the offset it   *)
(* takes to be its own, into a map; findNearestEntry() waits until the     *)
(* thread is far enough and returns the entry at or before an index.       *)
(* Indices count from 0 here, offsets are the number of markers in front   *)
(* of them.                                                                *)
(***************************************************************************)
EXTENDS Integers

CONSTANT Granularity \* granularity

ASSUME IndexerAssumption == Granularity \in Nat \ {0}

VARIABLES
    index_map,    \* index_map_: a set of [index, offset]
    last_index,   \* last_index_, -1 if not valid
    cur_offset,   \* cur_offset of scan_
    scanned,      \* markers the scan has read
    scan_done,    \* scan_done_
    stop_reading, \* stop_reading_
    thread        \* reader_thread_: "running", "ended" or "joined"

index == <<index_map, last_index, scan_done>>
indexer == <<index, cur_offset, scanned, stop_reading, thread>>

\* open().
InitIndexer ==
    /\ index_map = {}
    /\ last_index = -1
    /\ cur_offset = 0
    /\ scanned = 0
    /\ scan_done = FALSE
    /\ stop_reading = FALSE
    /\ thread = "running"

\* The markers that get an entry.
Selected(i) == i % Granularity = 0

\* The reader has another marker to deliver.
HasNext(length) == scanned < length

\* One marker of a trace of length of them.  cur_offset is brought up to date
\* only behind a marker that gets an entry.
ScanMarker(length) ==
    /\ thread = "running"
    /\ ~stop_reading
    /\ HasNext(length)
    /\ scanned' = scanned + 1
    /\ IF Selected(scanned)
       THEN /\ index_map' = index_map \cup {[index |-> scanned, offset |-> cur_offset]}
            /\ last_index' = scanned
            /\ cur_offset' = scanned + 1
       ELSE UNCHANGED <<index_map, last_index, cur_offset>>
    /\ UNCHANGED <<scan_done, stop_reading, thread>>

\* The end of the trace, or stop_reading_ seen; and a variant that leaves
\* without a word.
ScanLeaves(length) ==
    /\ thread = "running"
    /\ stop_reading \/ ~HasNext(length)
    /\ thread' = "ended"
    /\ UNCHANGED <<index, cur_offset, scanned, stop_reading>>

ScanEnds(length) ==
    /\ thread = "running"
    /\ stop_reading \/ ~HasNext(length)
    /\ scan_done' = TRUE
    /\ thread' = "ended"
    /\ UNCHANGED <<index_map, last_index, cur_offset, scanned, stop_reading>>

Scan(length) == ScanMarker(length) \/ ScanEnds(length)

\* close() tells the thread to stop, and joins it.
StopScan ==
    /\ thread # "joined"
    /\ stop_reading' = TRUE
    /\ UNCHANGED <<index, cur_offset, scanned, thread>>

JoinScan ==
    /\ stop_reading
    /\ thread = "ended"
    /\ thread' = "joined"
    /\ UNCHANGED <<index, cur_offset, scanned, stop_reading>>

\* The predicate findNearestEntry() waits for.
Found(i) == last_index >= i \/ scan_done

\* findNearestEntryUnsafe_.
NearestEntry(i) ==
    CHOOSE e \in index_map :
        /\ e.index <= i
        /\ \A f \in index_map : f.index <= i => f.index <= e.index

=============================================================================
