---------------------------- MODULE RecordStream -----------------------------
(***************************************************************************)
(* Records written through an STFOFstream, and read back by a thread       *)
(* through an STFIFstream into objects that are recycled: a record whose   *)
(* handle is dropped goes into its thread's cache, and the next record of  *)
(* that kind is unpacked into it.                                          *)
(*                                                                         *)
(* A caller of the writer writes a header and then any records; it stops   *)
(* when a record is refused, which may have left some of its cells in the  *)
(* trace.  The reader reads what is in front of those.                     *)
(***************************************************************************)
EXTENDS Records, FiniteSets

CONSTANTS
    Menus,     \* [header, body, length]: a header, a set of records to write
               \* behind it and how many; records are [kind, fields, list]
    Leftovers, \* sequences of objects, one of each kind, that the thread may
               \* have in its cache from a trace it has read before
    CacheSize, \* MAX_SIZE_, for each kind
    MaxHeld,   \* bound on the handles the caller of the reader holds
    MaxRewinds \* bound on the calls of rewind

RecordValues == [kind : Kinds, fields : Seq(Nat), list : Seq(Seq(Nat))]

HasShape(object) ==
    /\ Len(object.fields) = Len(Layout[object.kind].names)
    /\ \A i \in 1 .. Len(object.list) : Len(object.list[i]) = Layout[object.kind].width

\* A record has the fields and the list of its class, and what shares a cell
\* fits into its part of it.
IsRecord(rec) ==
    /\ rec \in RecordValues /\ HasShape(rec)
    /\ Layout[rec.kind].width = 0 => rec.list = <<>>
    /\ rec.kind = "EVENT" => rec.fields[1] < TopBit
    /\ rec.kind = "INST_REG" => rec.fields[2] < TypeBits

\* Headers come before the first instruction, and what a stream keeps to is set
\* in them: the vector length, which may be set once, the protocol and the
\* features.
MenusAssumption ==
    \A m \in Menus :
        /\ m.header \in Seq(RecordValues) /\ m.body \subseteq RecordValues
        /\ \A i \in 1 .. Len(m.header) :
              IsRecord(m.header[i]) /\ m.header[i].kind \notin Opcodes \cup Targets
        /\ \A rec \in m.body :
              /\ IsRecord(rec) /\ rec.kind \notin {"PROTOCOL_ID", "TRACE_INFO_FEATURE"}
              /\ rec.kind = "VLEN_CONFIG" =>
                    \E i \in 1 .. Len(m.header) : m.header[i].kind = "VLEN_CONFIG"
ASSUME MenusAreRecords == MenusAssumption

LeftoversAssumption ==
    \A objects \in Leftovers :
        /\ objects \in Seq([kind : Kinds, fields : Seq(Nat), list : Seq(Seq(Nat)), memo : Seq(Nat)])
        /\ \A i \in 1 .. Len(objects) : HasShape(objects[i])
ASSUME LeftoversAreObjects == LeftoversAssumption

VARIABLES
    menu,    \* which of Menus is being written
    trace,   \* the cells of the records written whole
    log,     \* the records in it, with what the stream remembered behind each
    writer,  \* what the writer's stream remembers
    stage,   \* "writing", "refused", "reading", or "failed" when unpacking threw
    pos,     \* where the reader is
    count,   \* and how many records that is into the trace
    start,   \* trace_start_, as a position and a number of records
    reader,  \* what the reader's stream remembers
    cache,   \* the objects in the cache of the reader's thread, newest last
    held,    \* the objects the caller holds, each with its record's number
    rewinds  \* calls of rewind so far

written == <<menu, trace, log, writer>>
vars == <<written, stage, pos, count, start, reader, cache, held, rewinds>>

Value(rec) == [fields |-> rec.fields, list |-> rec.list]

-----------------------------------------------------------------------------
(* The cache. *)

OfKind(kind) == {i \in 1 .. Len(cache) : cache[i].kind = kind}
Newest(indices) == CHOOSE i \in indices : \A j \in indices : j <= i

\* STFObjectCache::pop, or a new object from the pool.
Popped(kind) ==
    IF OfKind(kind) = {} THEN NewObject(kind) ELSE cache[Newest(OfKind(kind))]
Without(seq, i) == SubSeq(seq, 1, i - 1) \o SubSeq(seq, i + 1, Len(seq))
CachePopped(kind) ==
    IF OfKind(kind) = {} THEN cache ELSE Without(cache, Newest(OfKind(kind)))

\* STFObjectCache::add; an object that finds no room is destroyed.
CacheAdded(object) ==
    IF Cardinality(OfKind(object.kind)) < CacheSize
    THEN Append(cache, object) ELSE cache

-----------------------------------------------------------------------------
Init ==
    /\ menu \in Menus
    /\ trace = <<>> /\ log = <<>> /\ writer = NewStream
    /\ stage = "writing"
    /\ pos = 1 /\ count = 0 /\ start = [pos |-> 1, count |-> 0]
    /\ reader = NewStream
    /\ cache \in Leftovers
    /\ held = <<>> /\ rewinds = 0

HeaderLeft == Len(log) < Len(menu.header)
ToWrite == IF HeaderLeft THEN {menu.header[Len(log) + 1]} ELSE menu.body

Write(rec) ==
    /\ stage = "writing"
    /\ MayPack(rec.kind, Value(rec), writer)
    /\ LET behind == Passed(rec.kind, Value(rec), writer)
       IN  /\ writer' = behind
           /\ log' = Append(log, [rec |-> rec, strm |-> behind])
           \* VLEN_CONFIG and the like change the stream before they are written
           /\ trace' = trace \o Cells(rec.kind, Value(rec), behind)
    /\ UNCHANGED <<menu, stage, pos, count, start, reader, cache, held, rewinds>>

\* pack() throws, behind the descriptor or more.
WriteRefused(rec) ==
    /\ stage = "writing"
    /\ ~MayPack(rec.kind, Value(rec), writer)
    /\ stage' = "refused"
    /\ UNCHANGED <<written, pos, count, start, reader, cache, held, rewinds>>

\* The stream is closed, and another one opened on the trace.
Open ==
    /\ stage \in {"writing", "refused"} /\ ~HeaderLeft
    /\ stage' = "reading"
    /\ UNCHANGED <<written, pos, count, start, reader, cache, held, rewinds>>

\* Factory::construct; when unpack_impl throws, the object popped is lost.
Read ==
    /\ stage = "reading"
    /\ pos <= Len(trace) /\ Len(held) < MaxHeld
    /\ LET kind == KindOf(trace[pos])
           u    == Unpack(Popped(kind), trace, pos + 1, reader)
       IN  /\ cache' = CachePopped(kind)
           /\ IF u.ok
              THEN /\ held' = Append(held, [object |-> u.object, number |-> count + 1])
                   /\ pos' = u.next /\ count' = count + 1 /\ reader' = u.strm
                   /\ start' = IF count < Len(menu.header)
                               THEN [pos |-> u.next, count |-> count + 1] ELSE start
                   /\ UNCHANGED stage
              ELSE /\ stage' = "failed"
                   /\ UNCHANGED <<held, pos, count, start, reader>>
    /\ UNCHANGED <<written, rewinds>>

\* The initial PC is that of the header, when it has one.
InitialPC ==
    LET forced == {i \in 1 .. Len(menu.header) : menu.header[i].kind = "FORCE_PC"}
    IN  IF forced = {} THEN 0 ELSE menu.header[Newest(forced)].fields[1]

\* Callers rewind between instructions, as the buffered readers do.
Rewind ==
    /\ stage = "reading" /\ rewinds < MaxRewinds
    /\ count > start.count /\ start.count = Len(menu.header)
    /\ ~reader.is_branch
    /\ pos' = start.pos /\ count' = start.count
    /\ reader' = Rewound(reader, InitialPC)
    /\ rewinds' = rewinds + 1
    /\ UNCHANGED <<written, stage, start, cache, held>>

\* A handle is dropped, in this thread or in another one, whose cache gets it.
Release(i) ==
    /\ held' = Without(held, i)
    /\ cache' = CacheAdded(held[i].object)
    /\ UNCHANGED <<written, stage, pos, count, start, reader, rewinds>>
ReleaseElsewhere(i) ==
    /\ held' = Without(held, i)
    /\ UNCHANGED <<written, stage, pos, count, start, reader, cache, rewinds>>

\* TraceInfoRecord::getVersionString, which operator<< calls to print one.
VersionOf(object) == SubSeq(object.fields, 2, 4)
GetVersionString(i) ==
    /\ held[i].object.kind = "TRACE_INFO" /\ held[i].object.memo = <<>>
    /\ held' = [held EXCEPT ![i].object.memo = VersionOf(held[i].object)]
    /\ UNCHANGED <<written, stage, pos, count, start, reader, cache, rewinds>>

Next ==
    \/ \E rec \in ToWrite :
          /\ HeaderLeft \/ Len(log) < Len(menu.header) + menu.length
          /\ Write(rec) \/ WriteRefused(rec)
    \/ Open
    \/ Read
    \/ Rewind
    \/ \E i \in 1 .. Len(held) : Release(i) \/ ReleaseElsewhere(i) \/ GetVersionString(i)

Spec == Init /\ [][Next]_vars

-----------------------------------------------------------------------------
(* Properties. *)

Strm == [vlen : Nat, protocol_id : Nat, has_32bit_events : BOOLEAN, markers : Nat,
         pc : Nat, next_pc : Nat, target_pc : Nat, is_branch : BOOLEAN]
IsObject(object) == object.kind \in Kinds /\ HasShape(object)

\* Every object has the shape of its record, wherever it is.
TypeOK ==
    /\ stage \in {"writing", "refused", "reading", "failed"}
    /\ writer \in Strm /\ reader \in Strm
    /\ pos \in 1 .. Len(trace) + 1 /\ count \in 0 .. Len(log)
    /\ \A i \in 1 .. Len(cache) : IsObject(cache[i])
    /\ \A i \in 1 .. Len(held) : IsObject(held[i].object) /\ held[i].number \in 1 .. Len(log)

\* What a caller can ask a record for besides its fields: the PC of an opcode,
\* the length of a vector register, the shift of a page.
MemoOf(entry) ==
    CASE entry.rec.kind \in Opcodes -> <<entry.strm.pc>>
      [] entry.rec.kind = "INST_REG" -> <<entry.strm.vlen>>
      [] entry.rec.kind = "PAGE_TABLE_WALK" -> <<FloorLog2(entry.rec.fields[3])>>
HasMemo(rec) ==
    \/ rec.kind \in Opcodes \cup {"PAGE_TABLE_WALK"}
    \/ rec.kind = "INST_REG" /\ rec.fields[2] = Vector

\* A record that is read, and held on to while others are read, is the record
\* that was written at its place, with the PC and vector length the writer's
\* stream had there, whatever object it was unpacked into; and what was written
\* is never refused by the reader.
ReadsAreWrites ==
    /\ stage # "failed"
    /\ \A i \in 1 .. Len(held) :
          LET object == held[i].object
              entry  == log[held[i].number]
          IN  /\ object.kind = entry.rec.kind
              /\ Value(object) = Value(entry.rec)
              /\ HasMemo(entry.rec) => object.memo = MemoOf(entry)

\* Wherever the reader is, behind a rewind too, its stream remembers what the
\* writer's did there: the next PC, the vector length, the width of events and
\* the number of markers.
StreamsMeet ==
    count > 0 /\ stage = "reading" =>
        LET strm == log[count].strm
        IN  /\ reader.next_pc = strm.next_pc /\ reader.is_branch = strm.is_branch
            /\ reader.vlen = strm.vlen /\ reader.markers = strm.markers
            /\ reader.protocol_id = strm.protocol_id
            /\ reader.has_32bit_events = strm.has_32bit_events

\* getVersionString "returns a formatted version string": that of the record
\* asked, and not that of one the object held before.
VersionStringIsCurrent ==
    \A i \in 1 .. Len(held) :
        LET object == held[i].object
        IN  object.kind = "TRACE_INFO" /\ object.memo # <<>>
                => object.memo = VersionOf(object)
==============================================================================
