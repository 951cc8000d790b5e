----------------------------- MODULE TraceStream -----------------------------
(***************************************************************************)
(* What a caller of an STF input stream is promised, whatever the stream   *)
(* does underneath (plain file, synchronous or prefetching decompression): *)
(* the stream is a cursor over the marker records of one trace.  pos       *)
(* markers have been passed, a read delivers marker number pos, a seek     *)
(* moves the cursor exactly to the marker asked for, and a read at the end *)
(* of the trace reports the end.                                           *)
(*                                                                         *)
(* A call may throw.  "past_end" may only be thrown by a seek whose target *)
(* is not before the end of the trace; a fault of the file may surface in  *)
(* any call.  After a throw nothing is promised until the next open.       *)
(***************************************************************************)
EXTENDS Integers

CONSTANTS TraceLengths, \* the numbers of markers of the files that exist
          MaxSeek       \* bound on the distance of one seek

VARIABLES opened,    \* the stream has a file
          total,     \* markers in that file
          pos,       \* markers passed
          delivered, \* the marker the last successful read returned, or -1
          requested, \* the marker the last seek was asked to move to
          outcome,   \* how the last call left the stream
          broken     \* a call has thrown since the last open

vars == <<opened, total, pos, delivered, requested, outcome, broken>>

Init ==
    /\ opened = FALSE
    /\ total = 0
    /\ pos = 0
    /\ delivered = -1
    /\ requested = 0
    /\ outcome = "ok"
    /\ broken = FALSE

Open ==
    /\ ~opened
    /\ opened' = TRUE
    /\ total' \in TraceLengths
    /\ pos' = 0
    /\ delivered' = -1
    /\ requested' = 0
    /\ outcome' = "ok"
    /\ broken' = FALSE

Close ==
    /\ opened
    /\ opened' = FALSE
    /\ pos' = 0
    /\ outcome' = "ok"
    /\ UNCHANGED <<total, delivered, requested, broken>>

Working == opened /\ ~broken

Read ==
    /\ Working
    /\ pos < total
    /\ pos' = pos + 1
    /\ delivered' = pos
    /\ outcome' = "ok"
    /\ UNCHANGED <<opened, total, requested, broken>>

ReadAtEnd ==
    /\ Working
    /\ pos = total
    /\ outcome' = "eof"
    /\ UNCHANGED <<opened, total, pos, delivered, requested, broken>>

\* seek, rewind and seekFromOffset are all moves to a target marker.
MoveTo(target) ==
    /\ Working
    /\ target <= total
    /\ pos' = target
    /\ requested' = target
    /\ outcome' \in {"ok", "eof"}
    /\ outcome' = "eof" => outcome = "eof" /\ target = total
    /\ UNCHANGED <<opened, total, delivered, broken>>

\* Once the end has been reported a further seek has nothing left to read.
SeekAfterEof(target) ==
    /\ Working
    /\ outcome = "eof"
    /\ requested' = target
    /\ UNCHANGED <<opened, total, pos, delivered, outcome, broken>>

Refuse(target) ==
    /\ Working
    /\ target >= total
    /\ requested' = target
    /\ outcome' = "past_end"
    /\ broken'
    /\ UNCHANGED <<opened, total, delivered>>

Seek(target) == MoveTo(target) \/ SeekAfterEof(target) \/ Refuse(target)

Move ==
    \/ MoveTo(0)
    \/ \E n \in 0..MaxSeek : Seek(pos + n)
    \/ \E at \in 0..(total - 1), n \in 0..MaxSeek :
            MoveTo(at + n) \/ Refuse(at + n)

Fault ==
    /\ opened
    /\ outcome' \in {"bad_chunk", "no_state"}
    /\ broken'
    /\ UNCHANGED total

\* After a throw only the next open restores the promises.
Unspecified == broken /\ (broken' \/ ~opened')

Next ==
    \/ Open \/ Close \/ Read \/ ReadAtEnd \/ Move \/ Fault \/ Unspecified

Spec == Init /\ [][Next]_vars

=============================================================================
