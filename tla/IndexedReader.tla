---------------------------- MODULE IndexedReader ----------------------------
(***************************************************************************)
(* An indexed instruction reader (STFIndexedInstReader): the sliding       *)
(* window, the indexer's thread scanning the same trace, and jumpToIndex() *)
(* that takes an entry of the indexer to move the window anywhere.         *)
(***************************************************************************)
EXTENDS SlidingWindow, TraceIndexer

CONSTANT Plain \* the stream seeks by the entry's offset: it is not compressed

ASSUME IndexedAssumption == Plain \in BOOLEAN

VARIABLE request \* the jump the caller waits in

NoRequest == [by |-> CHOOSE i \in Iterators : TRUE, index |-> -1]
Waiting == request.index # -1

all == <<vars, indexer, request>>

InitAll == Init /\ InitIndexer /\ request = NoRequest

\* jumpToIndex() waits in findNearestEntry().  It does not support the skipping
\* of items, but only asserts that none has been skipped yet: callers that ask
\* for both are left out.
JumpBegins(i, x) ==
    /\ ~failed
    /\ ~only_user_mode
    /\ num_skipped = 0
    /\ request' = [by |-> i, index |-> x]
    /\ UNCHANGED <<vars, indexer>>

\* Where seekFromOffset(offset, index, x - index) takes the stream; and a variant
\* that does not go on from the entry.
EntryOnly(e, x) == IF Plain THEN e.offset ELSE e.index
Target(e, x) == IF Plain THEN e.offset + (x - e.index) ELSE x

\* The marker count once the window is filled anew from there.
CountAfter(x) == x

JumpEnds ==
    LET x   == request.index
        pos == Target(NearestEntry(x), x)
    IN  /\ Waiting
        /\ Found(x)
        /\ pos <= length
        /\ InitItemBuffer(pos, CountAfter(x))
        /\ Restart(request.by)
        /\ request' = NoRequest
        /\ UNCHANGED <<trace, failed, indexer>>

JumpRefused ==
    LET x == request.index
    IN  /\ Waiting
        /\ Found(x)
        /\ Target(NearestEntry(x), x) >= length
        /\ failed' = TRUE
        /\ request' = NoRequest
        /\ UNCHANGED <<trace, window, it, indexer>>

\* The reader's destructor stops the indexer.
Destroy == StopScan /\ UNCHANGED <<vars, request>>

Caller ==
    \/ Next /\ UNCHANGED <<indexer, request>>
    \/ \E i \in Iterators, x \in 0..(length + 1) : JumpBegins(i, x)
    \/ Destroy

Indexer == (Scan(length) \/ JoinScan) /\ UNCHANGED <<vars, request>>

NextAll ==
    \/ ~Waiting /\ ~stop_reading /\ Caller
    \/ JumpEnds \/ JumpRefused
    \/ Indexer

\* The scan is a thread of its own, and a jump goes on when it is woken up.
SpecAll ==
    /\ InitAll /\ [][NextAll]_all
    /\ WF_all(Indexer)
    /\ WF_all(JumpEnds \/ JumpRefused)

-----------------------------------------------------------------------------
(* Properties. *)

\* jumpToIndex(x) takes the caller to item x, counting from 0, whatever part of
\* the trace the indexer has scanned and wherever the window was.
JumpLands ==
    [][Waiting /\ ~Waiting' /\ ~failed' =>
          LET i == it'[request.by]
          IN  IF request.index = length THEN i.end
              ELSE ~i.end /\ buf'[i.loc].at = request.index + 1]_all

\* findNearestEntry() comes back, before or at the end of the scan.
JumpReturns == Waiting ~> ~Waiting

=============================================================================
