---------------------------- MODULE SlidingWindow ----------------------------
(***************************************************************************)
(* STFBufferedReader: the ring of buffer_size_ items that an instruction   *)
(* (or transaction) reader keeps, and the iterators over it.  Moving an    *)
(* iterator to the last but one item reads half a ring of new items over   *)
(* the oldest ones; iterators are copied to look back.  With user-mode     *)
(* skipping (STFUserModeSkippingReader) the items between a change out of  *)
(* user mode and the next change into it are read and dropped, and items   *)
(* are numbered without them.                                              *)
(*                                                                         *)
(* The trace has length items; an item in the ring is its number index()   *)
(* and its true position at in the trace, 0 for a slot that was reset.     *)
(* The stream underneath is what TraceStream promises.                     *)
(***************************************************************************)
EXTENDS Integers, FiniteSets

CONSTANTS
    Size,      \* buffer_size_
    Lengths,   \* numbers of items of the traces
    Iterators, \* the caller's iterators
    MaxSeek    \* bound on the distance of one seek

\* The code indexes the ring with a mask, so that its size is a power of two; it
\* is enough here that half of it is a whole number.  The last but one item is
\* found by a subtraction from tail_ which wraps for smaller rings.
ASSUME WindowAssumption ==
    /\ Size \in Nat /\ Size >= 4 /\ Size % 2 = 0
    /\ Lengths \subseteq Nat \ {0}
    /\ MaxSeek \in Nat

VARIABLES
    length,         \* items in the trace
    only_user_mode, \* only_user_mode_
    skipped,        \* the items that STFInst::skipped() marks
    at_eof,         \* the stream has reported its end
    stream_pos,     \* items in front of the stream's position
    raw_read,       \* rawNumItemsRead_(): the stream's marker count
    num_skipped,    \* num_skipped_items_
    buf,            \* buf_
    head,           \* head_
    tail,           \* tail_
    buffered,       \* buf_ is allocated
    buffer_is_empty,\* buffer_is_empty_
    last_item_read, \* last_item_read_
    it,             \* the iterators
    failed          \* a seek has thrown

trace == <<length, only_user_mode, skipped>>
reading == <<at_eof, stream_pos, raw_read, num_skipped>>
ring == <<buf, head, tail, buffered, buffer_is_empty, last_item_read>>
window == <<reading, ring>>
vars == <<trace, window, it, failed>>

-----------------------------------------------------------------------------
(* The trace. *)

Items == 1..length
Unskipped == Items \ skipped

\* The items skipped when the trace leaves user mode with item k and enters it
\* with item u (0: never); k itself is not skipped, but turned into a nop, if
\* it is a system call.
SkippedBetween(k, u, syscall) ==
    {r \in Items : /\ k # 0
                   /\ IF syscall THEN r > k ELSE r >= k
                   /\ u < k \/ r <= u}

-----------------------------------------------------------------------------
(* Reading items into the ring. *)

Slots == 0..(Size - 1)
ResetItem == [index |-> 0, at |-> 0]

\* The items a stream at position pos will deliver.
Ahead(pos) == {r \in Unskipped : r > pos}
NthAhead(pos, n) == CHOOSE r \in Ahead(pos) : Cardinality({s \in Ahead(pos) : s <= r}) = n

\* How many it delivers when n are asked for.
Delivered(pos, n) == IF n <= Cardinality(Ahead(pos)) THEN n ELSE Cardinality(Ahead(pos))

\* The n-th item that readNext_ delivers from position pos of a stream that has
\* counted count markers; and a variant that numbers the items as if none were
\* skipped.
RawItem(pos, count, n) == [index |-> count + n, at |-> NthAhead(pos, n)]
NewItem(pos, count, n) == [index |-> count - num_skipped + n, at |-> NthAhead(pos, n)]

\* The stream after n items have been asked for, the skipped ones read and
\* counted with them.
ReadItems(pos, count, n) ==
    LET got    == Delivered(pos, n)
        passed == (IF got = n THEN NthAhead(pos, n) ELSE length) - pos
    IN  /\ stream_pos' = pos + passed
        /\ raw_read' = count + passed
        /\ num_skipped' = num_skipped + passed - got
        /\ at_eof' = (got < n)
        /\ last_item_read' = (last_item_read \/ got < n)

\* fillHalfBuffer_: the slot behind the last item read is reset when the trace
\* ends there.  A variant keeps head_ where it is.
KeepHead(n) == head
MovedHead(n) == (head + n) % Size

FillHalfBuffer ==
    LET n == Delivered(stream_pos, Size \div 2)
    IN  /\ ReadItems(stream_pos, raw_read, Size \div 2)
        /\ buf' = [p \in Slots |->
                     LET k == (p - tail) % Size
                     IN  IF k \in 1..n THEN NewItem(stream_pos, raw_read, k)
                         ELSE IF k = n + 1 /\ n < Size \div 2 THEN ResetItem
                         ELSE buf[p]]
        /\ tail' = (tail + n) % Size
        /\ head' = MovedHead(n)
        /\ UNCHANGED <<buffered, buffer_is_empty>>

\* initItemBuffer_ of a stream at position pos that has counted count markers.
InitItemBuffer(pos, count) ==
    LET n == Delivered(pos, Size)
    IN  /\ ReadItems(pos, count, Size)
        /\ buf' = [p \in Slots |->
                     IF p < n THEN NewItem(pos, count, p + 1) ELSE ResetItem]
        /\ buffered' = TRUE
        /\ buffer_is_empty' = (n = 0)
        /\ head' = 0
        /\ tail' = IF n = 0 THEN 0 ELSE n - 1

-----------------------------------------------------------------------------
(* Iterators. *)

\* A default-constructed iterator.  sound: it has been obtained from the ring
\* as it was filled and moved along since; begin() on a ring that has moved on
\* and iterators kept across a seek are not.
NoIterator == [index |-> 1, loc |-> 0, end |-> TRUE, sound |-> FALSE]

FirstIterator ==
    [index |-> buf'[0].index, loc |-> 0, end |-> buffer_is_empty', sound |-> TRUE]

\* validateItemIndex_ does not throw.
InWindow(i) ==
    /\ ~it[i].end
    /\ it[i].index >= buf[head].index
    /\ it[i].index <= buf[tail].index

\* The other iterators are left behind when the ring is filled anew.
Restart(i) ==
    it' = [j \in Iterators |-> IF j = i THEN FirstIterator ELSE [it[j] EXCEPT !.sound = FALSE]]

Init ==
    /\ length \in Lengths
    /\ only_user_mode \in BOOLEAN
    /\ \E k, u \in 0..length, syscall \in BOOLEAN :
          skipped = IF only_user_mode THEN SkippedBetween(k, u, syscall) ELSE {}
    /\ at_eof = FALSE
    /\ stream_pos = 0
    /\ raw_read = 0
    /\ num_skipped = 0
    /\ buf = [p \in Slots |-> ResetItem]
    /\ head = 0
    /\ tail = 0
    /\ buffered = FALSE
    /\ buffer_is_empty = TRUE
    /\ last_item_read = FALSE
    /\ it = [i \in Iterators |-> NoIterator]
    /\ failed = FALSE

\* begin() of a reader that has not read anything.
BeginFirst(i) ==
    /\ ~failed
    /\ ~buffered
    /\ InitItemBuffer(stream_pos, raw_read)
    /\ it' = [it EXCEPT ![i] = FirstIterator]
    /\ UNCHANGED <<trace, failed>>

\* begin() later: the index of the oldest item, but slot 0.
BeginAgain(i) ==
    /\ ~failed
    /\ buffered
    /\ it' = [it EXCEPT ![i] = [index |-> buf[head].index, loc |-> 0,
                                end |-> buffer_is_empty,
                                sound |-> head = 0 /\ buf[0].index # 0]]
    /\ UNCHANGED <<trace, window, failed>>

Copy(i, j) ==
    /\ it' = [it EXCEPT ![j] = it[i]]
    /\ UNCHANGED <<trace, window, failed>>

\* moveToNextItem_ fills the ring at its last but one item; variants do it one
\* item later, or earlier.
FillAtLast(i) == it[i].loc = tail
FillEarly(i) == it[i].loc = tail - 2
MustFill(i) == it[i].loc = tail - 1

Increment(i) ==
    /\ ~failed
    /\ InWindow(i)
    /\ IF MustFill(i) THEN FillHalfBuffer ELSE UNCHANGED window
    /\ IF it[i].loc = tail'
       THEN it' = [it EXCEPT ![i].end = TRUE]
       ELSE it' = [it EXCEPT ![i].index = @ + 1, ![i].loc = (@ + 1) % Size]
    /\ UNCHANGED <<trace, failed>>

-----------------------------------------------------------------------------
(* Seeking.  Up to the end of the ring, and with user-mode skipping, seek()   *)
(* is a sequence of increments.  seekFromBeginning(), which is meant for a    *)
(* reader that has not read anything, is begin() and seek().                  *)

\* num_buffered: the items that seek() takes to be in the ring, from the one the
\* iterator is at (the subtraction wraps, to more than any distance, unless
\* loc <= tail + 1); and a variant that leaves out the one the iterator is at.
OnlyBehind(i) == tail - it[i].loc
NumBuffered(i) == tail - it[i].loc + 1

SeekStarts(i, n) ==
    /\ ~failed
    /\ ~it[i].end
    /\ ~only_user_mode
    /\ it[i].loc <= tail + 1
    /\ n > NumBuffered(i)

\* The stream skips what is not in the ring, and the ring is filled anew.  The
\* stream may refuse a seek to the very end of the trace, must refuse one past
\* it, and ignores a seek after it has reported the end.
SeekAway(i, n) ==
    LET skip == IF at_eof THEN 0 ELSE n - NumBuffered(i)
    IN  /\ SeekStarts(i, n)
        /\ stream_pos + skip <= length
        /\ InitItemBuffer(stream_pos + skip, raw_read + skip)
        /\ Restart(i)
        /\ UNCHANGED <<trace, failed>>

SeekRefused(i, n) ==
    /\ SeekStarts(i, n)
    /\ ~at_eof
    /\ stream_pos + n - NumBuffered(i) >= length
    /\ failed' = TRUE
    /\ UNCHANGED <<trace, window, it>>

Next ==
    \E i \in Iterators :
        \/ BeginFirst(i) \/ BeginAgain(i) \/ Increment(i)
        \/ \E j \in Iterators : Copy(i, j)
        \/ \E n \in 1..MaxSeek : SeekAway(i, n) \/ SeekRefused(i, n)

Spec == Init /\ [][Next]_vars

-----------------------------------------------------------------------------
(* Properties. *)

ItemRecords == [index : Int, at : 0..length]

TypeOK ==
    /\ length \in Lengths
    /\ only_user_mode \in BOOLEAN
    /\ skipped \subseteq Items
    /\ at_eof \in BOOLEAN
    /\ stream_pos \in 0..length
    /\ raw_read \in Nat
    /\ num_skipped \in Nat
    /\ buf \in [Slots -> ItemRecords]
    /\ head \in Slots
    /\ tail \in Slots
    /\ buffered \in BOOLEAN
    /\ buffer_is_empty \in BOOLEAN
    /\ last_item_read \in BOOLEAN
    /\ it \in [Iterators -> [index : Nat, loc : Slots, end : BOOLEAN, sound : BOOLEAN]]

\* The number of an item in the ring is its place among the items that are not
\* skipped, however the window got there: by reading on, by skipping over
\* non-user code, by a seek or by a jump.  (It is the difference of two
\* counters kept by the stream and by the reader.)
NumbersCountItems ==
    \A p \in Slots :
        buf[p].index # 0 =>
            /\ buf[p].at \in Unskipped
            /\ buf[p].index = Cardinality({r \in Unskipped : r <= buf[p].at})

\* The iterators at one of the last Size - 1 items read.
Recent(i) == it[i].sound /\ ~it[i].end /\ it[i].index > buf[tail].index - (Size - 1)

\* What may happen to the oldest slot happens to that one alone: an iterator
\* that looks back less than the window sees its item, whatever other iterators
\* have read since and whether or not the trace has ended.
LookingBackIsSafe ==
    \A i \in Iterators : Recent(i) => InWindow(i) /\ buf[it[i].loc].index = it[i].index

\* However the increments of several iterators fill the ring between them, an
\* iterator goes from an item to the next one that is not skipped, which is in
\* the ring by then, and reaches its end behind the last one and nowhere else.
VisitsEveryItem ==
    [][\A i \in Iterators :
          Recent(i) /\ Increment(i) =>
              IF it'[i].end THEN it[i].index = Cardinality(Unskipped)
              ELSE buf'[it'[i].loc].index = it[i].index + 1]_vars

\* isLastInst() is true of an iterator at the last item of the trace, and of no
\* other: the reader finds out about the end in time.
LastItemIsKnown ==
    \A i \in Iterators :
        Recent(i) =>
            ((last_item_read /\ it[i].loc = tail) <=> it[i].index = Cardinality(Unskipped))

\* The step takes the iterator to the n-th item behind its own, or to its end.
LandsAhead(i, n) ==
    IF it'[i].end THEN buf[it[i].loc].at + n > length
    ELSE buf'[it'[i].loc].at = buf[it[i].loc].at + n

\* A seek that skips in the stream what is not in the ring takes the iterator
\* where n increments would have taken it.
SeekIsIncrements ==
    [][\A i \in Iterators, n \in 1..MaxSeek :
          Recent(i) /\ SeekAway(i, n) => LandsAhead(i, n)]_vars

\* "Seeks an iterator by the given number of items": from anywhere in the window,
\* its oldest item included.
SeekCounts ==
    [][\A i \in Iterators, n \in 1..MaxSeek :
          /\ it[i].sound
          /\ InWindow(i)
          /\ buf[it[i].loc].index = it[i].index
          /\ SeekAway(i, n)
          => LandsAhead(i, n)]_vars

=============================================================================
