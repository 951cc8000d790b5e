----------------------------- MODULE TraceHeader ----------------------------
(***************************************************************************)
(* STFWriter: the header of an instruction trace, collected by setters,    *)
(* written in one or several flushes, closed off by finalizeHeader(), and  *)
(* the order operator<< demands of every record.  One writer object writes *)
(* one file after the other.  What STFReader makes of the header is the    *)
(* operator Accepts.                                                       *)
(*                                                                         *)
(* A record is reduced to the values it holds and the file its setter was  *)
(* first called for.  An stf_assert that fails throws: the action ends     *)
(* with what was done before the throw, and the caller goes on.            *)
(***************************************************************************)
EXTENDS Integers, Sequences

CONSTANTS
    MaxFiles,   \* bound: files the writer writes
    MaxWrites,  \* bound: records a caller writes with operator<< into one file
    RawRecords, \* the records a caller writes with operator<<
    Values      \* what each setting can be given

VARIABLES
    phase,      \* "closed", "header" (header_started_), "body" (header_finalized_)
    file,       \* number of the file being written, or to be opened next
    configured, \* the handles and vectors
    force_32bit_events, \* force_32bit_events_: 0 (false), or the file it was
                \* last set for (true)
    written,    \* the ..._written_ flags that are up
    last,       \* last_desc_
    after,      \* wrote_event_record_group_, wrote_page_table_walk_, wrote_reg_
    trace,      \* the records in the file
    writes      \* records written into it with operator<< by the caller

writer == <<configured, written, last, after, trace>>
vars == <<phase, file, writer, force_32bit_events, writes>>

\* The encoded descriptors.
Encoded ==
    [none |-> 0, identifier |-> 1, version |-> 2, comment |-> 3, isa |-> 4, iem |-> 5,
     info |-> 6, feature |-> 7, pid |-> 8, pc |-> 9, vlen |-> 10, ext |-> 13,
     end |-> 19, target |-> 31, reg |-> 40, readyReg |-> 41, walk |-> 50,
     access |-> 60, content |-> 61, busAccess |-> 62, busContent |-> 63,
     event |-> 100, eventTarget |-> 101, microop |-> 230, opcode32 |-> 240,
     opcode16 |-> 241]

Settings == {"comment", "isa", "iem", "info", "feature", "pid", "pc", "vlen", "ext"}
HeaderOnly == {"isa", "info", "feature", "vlen", "ext", "end"}
Anywhere == {"comment", "pid", "iem", "pc"}
BodyOnly == DOMAIN Encoded \ (HeaderOnly \cup Anywhere \cup {"none", "identifier", "version"})

\* The records that open() and finalizeHeader() write are not the caller's.
ASSUME HeaderAssumption ==
    /\ MaxFiles \in Nat \ {0}
    /\ MaxWrites \in Nat
    /\ RawRecords \subseteq DOMAIN Encoded \ {"none", "identifier", "version", "end"}
    /\ "EVENT64" \in Values["feature"]

(* ---- the settings ---- *)

AllValues == UNION {Values[s] : s \in Settings}

\* A handle or a vector: the values in it, and the file they are for.
Null == [for |-> 0, holds |-> {}]
Blank == [for |-> file, holds |-> {}]
Handles == {Null} \cup [for : 1..MaxFiles, holds : SUBSET AllValues]

\* A new record; and one more value for a vector, or for the feature record.
Made(value) == [for |-> file, holds |-> {value}]
Extended(handle, value) ==
    IF handle = Null THEN Made(value) ELSE [handle EXCEPT !.holds = @ \cup {value}]
Collected == {"comment", "info", "feature"}

(* ---- the order of the records ---- *)

\* The assertions of operator<< on the record before.
AccessIsOpen(prev, rec) ==
    \/ prev = "access" /\ rec # "content"
    \/ prev = "busAccess" /\ rec # "busContent"

MayFollow(prev, flag, rec) ==
    /\ ~AccessIsOpen(prev, rec)
    /\ \/ Encoded[rec] >= Encoded[prev]
       \/ prev \in {"opcode32", "opcode16"}
       \/ prev = "content" /\ rec = "access"
       \/ prev = "busContent" /\ rec = "busAccess"
       \/ flag = "eventGroup" /\ rec = "event"
       \/ flag \in {"walk", "reg"} /\ rec = "target"
       \/ flag = "walk" /\ rec = "reg"
       \/ prev \in {"content", "busContent"} /\ rec = "reg"
       \/ rec \in {"comment", "pid", "pc"}

\* The switch of operator<<.
Belongs(rec) ==
    \/ rec \in HeaderOnly /\ phase = "header"
    \/ rec \in Anywhere /\ phase # "closed"
    \/ rec \in BodyOnly /\ phase = "body"

FlagAfter(prev, rec) ==
    CASE rec = "eventTarget" /\ prev = "event" -> "eventGroup"
      [] rec = "walk" -> "walk"
      [] rec = "reg" -> "reg"
      [] OTHER -> "none"

Record(rec, handle, raw) ==
    [rec |-> rec, for |-> handle.for, holds |-> handle.holds, raw |-> raw]

(* ---- the header ---- *)

\* What flushHeader() asserts to have been, and not to have been, written.
Needs(s) ==
    CASE s = "iem" -> {"isa"}
      [] s = "info" -> {"isa", "iem"}
      [] s = "feature" -> {"isa", "iem", "info"}
      [] s = "pc" -> {"isa", "iem", "info", "feature"}
      [] OTHER -> {}

Forbids(s) ==
    CASE s = "comment" -> {"isa", "iem", "pc", "info", "feature"}
      [] s = "isa" -> {"iem", "pc", "info", "feature"}
      [] s = "iem" -> {"pc", "info", "feature"}
      [] s = "info" -> {"pc", "feature"}
      [] s = "feature" -> {"pc"}
      [] OTHER -> {}

\* The state a flush works on; ok goes down when an assertion throws.
Work ==
    [configured |-> configured, written |-> written, last |-> last, after |-> after,
     trace |-> trace, ok |-> TRUE]

\* The flag of a setting goes up behind its records; and a variant that forgets it.
FlagForgotten(w, s) == IF s = "vlen" THEN w ELSE w \cup {s}
FlagSet(w, s) == w \cup {s}

Emit(w, s) ==
    [w EXCEPT !.written = FlagSet(@, s),
              !.trace = Append(@, Record(s, w.configured[s], FALSE)),
              !.last = s,
              !.after = FlagAfter(w.last, s)]

\* A missing feature record is made on the spot.
MadeIfMissing(w, s) ==
    IF s = "feature" /\ w.configured[s] = Null THEN [w EXCEPT !.configured[s] = Blank] ELSE w

\* An assertion of flushHeader() threw.
Stopped(w) == [w EXCEPT !.ok = FALSE]

\* One block of flushHeader().
Block(w, s) ==
    LET made == MadeIfMissing(w, s)
        due == s \notin w.written /\ (s = "feature" \/ w.configured[s] # Null)
        inOrder == Needs(s) \subseteq w.written /\ Forbids(s) \cap w.written = {}
    IN  IF ~w.ok \/ ~due THEN w
        ELSE IF ~inOrder THEN Stopped(w)
        ELSE IF MayFollow(w.last, w.after, s) THEN Emit(made, s)
        ELSE Stopped(made)

\* A step for each setting, in the order of flushHeader().
InHeaderOrder(Step(_, _), w) ==
    LET v1 == Step(Step(Step(w, "comment"), "isa"), "iem")
        v2 == Step(Step(Step(v1, "info"), "feature"), "pid")
    IN  Step(Step(Step(v2, "pc"), "vlen"), "ext")

Flushed(w) == InHeaderOrder(Block, w)

Becomes(w) ==
    /\ configured' = w.configured
    /\ written' = w.written
    /\ last' = w.last
    /\ after' = w.after
    /\ trace' = w.trace

\* The test finalizeHeader() makes before it flushes once more; and a variant
\* that forgets the vlen.
AllButVLen(w) == {"comment", "isa", "iem", "pc", "info", "feature"} \subseteq w.written
AllWritten(w) ==
    /\ {"comment", "isa", "iem", "pc", "info", "feature"} \subseteq w.written
    /\ "vlen" \in w.written \/ w.configured["vlen"] = Null

\* The settings as finalizeHeader() asks for them: RISC-V code of 64 bits has
\* events of 64 bits, unless that was disabled.
IsRV64 == "RISCV" \in configured["isa"].holds /\ "RV64" \in configured["iem"].holds
Asked ==
    IF force_32bit_events = 0 /\ IsRV64
    THEN [configured EXCEPT !["feature"] = Extended(@, "EVENT64")]
    ELSE configured

\* What close() leaves of the settings, and of their flags: the process id of a
\* trace stays, and so does its flag.  (So does force_32bit_events, see Close.)
\* A variant forgets the vlen.
VLenKept == [s \in Settings |-> IF s \in {"pid", "vlen"} THEN configured[s] ELSE Null]
Kept == [s \in Settings |-> IF s = "pid" THEN configured[s] ELSE Null]
FlagsKept == written \cap {"pid"}

(* ---- the calls ---- *)

Init ==
    /\ phase = "closed"
    /\ file = 1
    /\ configured = [s \in Settings |-> Null]
    /\ force_32bit_events = 0
    /\ written = {}
    /\ last = "none"
    /\ after = "none"
    /\ trace = <<>>
    /\ writes = 0

\* At any time: setISA(), setHeaderIEM(), setVLen() etc., which replace a record;
\* addTraceInfo(), addHeaderComment() and setTraceFeature(), which add to what
\* there is.  No setter looks at the flag of its block.
Set(s, value) ==
    /\ configured' = [configured EXCEPT
           ![s] = IF s \in Collected THEN Extended(@, value) ELSE Made(value)]
    /\ UNCHANGED <<phase, file, written, last, after, trace, force_32bit_events, writes>>

\* setISAExtendedInfo() with an empty string.
UnsetISAExtended ==
    /\ configured' = [configured EXCEPT !["ext"] = Null]
    /\ UNCHANGED <<phase, file, written, last, after, trace, force_32bit_events, writes>>

DisableTraceFeature(feature) ==
    /\ force_32bit_events' = IF feature = "EVENT64" THEN file ELSE force_32bit_events
    /\ configured' = [configured EXCEPT !["feature"].holds = @ \ {feature}]
    /\ UNCHANGED <<phase, file, written, last, after, trace, writes>>

\* open() of a writer that is not open: the two records that always come first.
Open ==
    /\ phase = "closed"
    /\ phase' = "header"
    /\ trace' = <<Record("identifier", Blank, FALSE), Record("version", Blank, FALSE)>>
    /\ last' = "version"
    /\ after' = "none"
    /\ UNCHANGED <<file, configured, written, force_32bit_events, writes>>

FlushHeader ==
    /\ phase = "header"
    /\ Becomes(Flushed(Work))
    /\ UNCHANGED <<phase, file, force_32bit_events, writes>>

\* finalizeHeader().  Its setTraceFeature() changes a feature record that was
\* flushed before, too, and then in vain.
FinalizeHeader ==
    LET asked == [Work EXCEPT !.configured = Asked]
        done == IF AllWritten(asked) THEN asked ELSE Flushed(asked)
        ends == done.ok /\ MayFollow(done.last, done.after, "end")
    IN  /\ phase = "header"
        /\ IF ends
           THEN /\ phase' = "body"
                /\ Becomes([done EXCEPT !.trace = Append(@, Record("end", Blank, FALSE)),
                                        !.last = "end",
                                        !.after = "none"])
           ELSE /\ UNCHANGED phase
                /\ Becomes(done)
        /\ UNCHANGED <<file, force_32bit_events, writes>>

\* operator<< of a record the caller made.
Write(rec) ==
    /\ writes < MaxWrites
    /\ MayFollow(last, after, rec)
    /\ Belongs(rec)
    /\ trace' = Append(trace, Record(rec, Blank, TRUE))
    /\ last' = rec
    /\ after' = FlagAfter(last, rec)
    /\ writes' = writes + 1
    /\ UNCHANGED <<phase, file, configured, written, force_32bit_events>>

Close ==
    /\ phase # "closed"
    /\ file < MaxFiles
    /\ phase' = "closed"
    /\ file' = file + 1
    /\ configured' = Kept
    /\ written' = FlagsKept
    /\ last' = "none"
    /\ trace' = <<>>
    /\ writes' = 0
    /\ UNCHANGED <<after, force_32bit_events>>

Next ==
    \/ \E s \in Settings : \E value \in Values[s] : Set(s, value)
    \/ UnsetISAExtended
    \/ \E feature \in Values["feature"] : DisableTraceFeature(feature)
    \/ Open
    \/ FlushHeader
    \/ FinalizeHeader
    \/ \E rec \in RawRecords : Write(rec)
    \/ Close

Spec == Init /\ [][Next]_vars

(* ---- properties ---- *)

\* The header, from behind the version to in front of the end, once it is there.
EndOf == CHOOSE i \in DOMAIN trace : trace[i].rec = "end"
Header == SubSeq(trace, 3, EndOf - 1)

TypeOK ==
    /\ phase \in {"closed", "header", "body"}
    /\ file \in 1..MaxFiles
    /\ configured \in [Settings -> Handles]
    /\ force_32bit_events \in 0..MaxFiles
    /\ written \subseteq Settings
    /\ last \in DOMAIN Encoded
    /\ after \in {"none", "eventGroup", "walk", "reg"}
    /\ trace \in Seq([rec : DOMAIN Encoded, for : 1..MaxFiles, holds : SUBSET AllValues,
                      raw : BOOLEAN])
    /\ writes \in 0..MaxWrites

\* What readHeader_() and validateHeader_() of STFReader ask of a file: each of
\* the records it knows at most once, comments and trace infos aside, and all it
\* cannot do without.
Accepts ==
    LET held == {Header[i].rec : i \in DOMAIN Header}
    IN  /\ trace[1].rec = "identifier"
        /\ trace[2].rec = "version"
        /\ held \subseteq Settings
        /\ \A i, j \in DOMAIN Header :
              Header[i].rec = Header[j].rec => i = j \/ Header[i].rec \in {"comment", "info"}
        /\ {"isa", "iem", "pc", "info", "feature"} \subseteq held

\* However the setters, flushes and failed flushes came, a finalized header that
\* has an initial PC is one the reader accepts: no record is missing and none is
\* there twice.  (A caller that writes header records of its own with operator<<
\* is on its own: the setters' records would come on top of them.)
FinalizedIsReadable ==
    /\ phase = "body"
    /\ "pc" \in written
    /\ \A i \in DOMAIN Header : Header[i].raw => Header[i].rec = "comment"
    => Accepts

\* The record that was made of a handle or a vector is in a trace.
IsIn(t, s, handle) == \E i \in DOMAIN t : t[i] = Record(s, handle, FALSE)

\* What a setting holds when its block is flushed is what the file gets, whether
\* the flush then throws or not; and when the header is finalized, nothing is
\* left that was set and not yet flushed, with events of 64 bits asked for in
\* time.  (Not the process id and the extended ISA, which finalizeHeader() does
\* not look at.)  A setter called when its block has been flushed is not
\* covered: no block is written twice, so its value is lost.
SettingsAreKept ==
    [][phase = "header" => \A s \in Settings \ written :
          /\ s \in written' /\ configured[s] # Null =>
                IsIn(trace', s, configured[s]) \/ IsIn(trace', s, Asked[s])
          /\ phase' = "body" /\ s \notin {"pid", "ext"} /\ Asked[s] # Null =>
                IsIn(trace', s, Asked[s])]_vars

\* No record of a file, the process id aside, was set for a file before.  It is
\* the records of which this speaks: close() leaves two things behind, the process
\* id and force_32bit_events, which decides on the feature of 64 bit events in
\* every later file (see DisabledForOneFile, which does not hold).
NothingLeaks ==
    \A i \in DOMAIN trace : trace[i].rec # "pid" => trace[i].for = file

HeaderHolds(rec, value) ==
    \E i \in DOMAIN Header : Header[i].rec = rec /\ value \in Header[i].holds

\* finalizeHeader() says that "RV64 traces should use 64 bit events"
\* (stf_writer.cpp:130).  Unless that feature was disabled, a header with an ISA of
\* RISC-V and the IEM of 64 bits has it.  (Violated: the feature record may have
\* been flushed before.)
RV64HasEvent64 ==
    phase = "body" /\ force_32bit_events = 0
        /\ HeaderHolds("isa", "RISCV") /\ HeaderHolds("iem", "RV64")
    => HeaderHolds("feature", "EVENT64")

\* disableTraceFeature() "Removes trace feature from header" (stf_writer.hpp:101): the
\* header of the file that is being written, or written next.  When it was called
\* for an earlier file, an RV64 trace has the feature again.  (Violated: close()
\* does not reset force_32bit_events_.)
DisabledForOneFile ==
    phase = "body" /\ force_32bit_events \notin {0, file}
        /\ HeaderHolds("isa", "RISCV") /\ HeaderHolds("iem", "RV64")
    => HeaderHolds("feature", "EVENT64")
=============================================================================
