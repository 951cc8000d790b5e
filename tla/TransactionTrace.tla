---------------------------- MODULE TransactionTrace ---------------------------
(***************************************************************************)
(* Traces of transactions: STFTransactionWriter, the readers               *)
(* STFTransactionRecordReader and STFTransactionReader, and the            *)
(* ClockRegistry that all traces of a process share.                       *)
(*                                                                         *)
(* A process has a writer object, a reader object and a RecordIdManager.   *)
(* It may end at any time, with the trace it was writing cut off           *)
(* anywhere; the next one starts with nothing but the traces.              *)
(*                                                                         *)
(* An stf_assert that fails throws: the action ends with what was done     *)
(* before the throw, and the caller goes on.                               *)
(***************************************************************************)
EXTENDS Protocols

CONSTANTS
    Clocks,           \* the clocks callers declare, <<id, name>>
    Setups,           \* the settings they set one after the other
    Payloads,         \* what they put into transactions, in turn: [delta, metadata, data]
    Dependencies,     \* what they let transactions depend on: [id, delta, clock]
    CopyDependencies, \* they copy transactions that have dependencies, too
    MaxTraces,        \* bound: traces that are written and processes that end
    MaxRecords,       \* bound: records that callers write, but for dependencies
    MaxDependencies,  \* bound: what a transaction depends on
    MaxClocks,        \* bound: clocks a writer has
    MaxFlushes        \* bound: headers that callers flush

VARIABLES
    registry, \* ClockRegistry: the clocks in the order they were registered
    ids,      \* next_id_ of the RecordIdManager
    writer,   \* the writer object and its trace so far
    reader,   \* the reader object
    source,   \* the trace it has open
    disk,     \* the traces written
    used      \* what the bounds count

vars == <<registry, ids, writer, reader, source, disk, used>>

Count(what) == used' = [used EXCEPT ![what] = @ + 1]

-----------------------------------------------------------------------------
(* ClockRegistry. *)

NameOf(reg, id) == {clock[2] : clock \in {c \in ToSet(reg) : c[1] = id}}

\* registerClock_: an id has one name; and a variant that keeps the first one and
\* goes on.
KeepTheFirst(reg, clock) == TRUE
MayRegister(reg, clock) == NameOf(reg, clock[1]) \subseteq {clock[2]}
RegisterClock(reg, clock) ==
    IF NameOf(reg, clock[1]) = {} THEN Append(reg, clock) ELSE reg

\* dumpClocks_: the default clock, which is the first one, then the others by
\* their ids.
IsDump(clocks, reg) ==
    /\ clocks[1] = reg[1] /\ ToSet(clocks) = ToSet(reg)
    /\ \A i, j \in 2 .. Len(clocks) : i < j => clocks[i][1] < clocks[j][1]
DumpClocks(reg) == {clocks \in [1 .. Len(reg) -> ToSet(reg)] : IsDump(clocks, reg)}

-----------------------------------------------------------------------------
(* The writer.  For the properties, its trace also tells what the callers  *)
(* meant: the clocks they declared in time, the transactions they wrote,   *)
(* and where each of these ends.                                           *)

Settings == {"COMMENT", "TRACE_INFO", "TRACE_INFO_FEATURE", "PROTOCOL_ID", "CLOCK_ID"}

NewTrace ==
    [header |-> <<>>, body |-> <<>>, closed |-> FALSE,
     clocks |-> <<>>, txns |-> <<>>, ends |-> <<>>]
NewWriter ==
    [stage |-> "closed", pending |-> [s \in Settings |-> <<>>], written |-> {},
     trace |-> NewTrace, deps |-> <<>>]

\* Clocks have a call of their own.
SetupsAssumption == \A settings \in Setups : settings \subseteq Settings \ {"CLOCK_ID"}
ASSUME SetupsAreSettings == SetupsAssumption

Header(rec, value) == [rec |-> rec, value |-> value]

\* setProtocolId, setTraceFeature, addTraceInfo and addHeaderComment, of a trace
\* that is open: before that they do the same, and later nothing.
Setting(s) == <<IF s = "PROTOCOL_ID" THEN TILELINK ELSE 0>>
SetUp(settings) ==
    /\ writer.stage = "header"
    /\ writer' = [writer EXCEPT !.pending = [s \in Settings |->
                                     IF s \in settings THEN Setting(s) ELSE @[s]]]
    /\ UNCHANGED <<registry, ids, reader, source, disk, used>>

\* In time: the block of clocks is not written yet.
WithClocks(w, clocks) ==
    [w EXCEPT !.pending["CLOCK_ID"] = @ \o clocks,
              !.trace.clocks = IF "CLOCK_ID" \in w.written THEN @ ELSE @ \o clocks]
AddClock(clock) ==
    /\ writer.stage = "header" /\ Len(writer.pending["CLOCK_ID"]) < MaxClocks
    /\ clock \notin ToSet(writer.pending["CLOCK_ID"])
    /\ MayRegister(registry, clock)
    /\ registry' = RegisterClock(registry, clock)
    /\ writer' = WithClocks(writer, <<clock>>)
    /\ UNCHANGED <<ids, reader, source, disk, used>>

WriterOpen ==
    /\ writer.stage = "closed"
    /\ used.traces + used.restarts < MaxTraces /\ Count("traces")
    /\ writer' = [writer EXCEPT !.stage = "header", !.trace.header =
                                    <<Header("IDENTIFIER", 0), Header("VERSION", 0)>>]
    /\ UNCHANGED <<registry, ids, reader, source, disk>>

\* What flushHeader asserts of the blocks written so far.
Needs(s) ==
    CASE s = "TRACE_INFO_FEATURE" -> {"TRACE_INFO"}
      [] s = "PROTOCOL_ID" -> {"TRACE_INFO", "TRACE_INFO_FEATURE"}
      [] s = "CLOCK_ID" -> {"PROTOCOL_ID"}
      [] OTHER -> {}
Forbids(s) ==
    CASE s = "COMMENT" -> {"TRACE_INFO", "TRACE_INFO_FEATURE", "PROTOCOL_ID"}
      [] s = "TRACE_INFO" -> {"TRACE_INFO_FEATURE", "PROTOCOL_ID"}
      [] s = "TRACE_INFO_FEATURE" -> {"PROTOCOL_ID"}
      [] s = "PROTOCOL_ID" -> {"CLOCK_ID"}
      [] OTHER -> {}

Emit(w, s) ==
    [w EXCEPT !.written = @ \cup {s},
              !.trace.header = @ \o [k \in 1 .. Len(w.pending[s]) |-> Header(s, w.pending[s][k])]]
Block(work, s) ==
    LET w   == work.writer
        due == s \notin w.written /\ (w.pending[s] # <<>> \/ s = "CLOCK_ID")
    IN  IF ~work.ok \/ ~due THEN work
        ELSE IF /\ Needs(s) \subseteq w.written
                /\ Forbids(s) \cap w.written = {}
                /\ w.pending[s] # <<>>
        THEN [work EXCEPT !.writer = Emit(w, s)]
        ELSE [work EXCEPT !.ok = FALSE]
Flush(w) ==
    LET comments == Block([ok |-> TRUE, writer |-> w], "COMMENT")
        infos    == Block(comments, "TRACE_INFO")
        features == Block(infos, "TRACE_INFO_FEATURE")
        protocol == Block(features, "PROTOCOL_ID")
    IN  Block(protocol, "CLOCK_ID")

FlushHeader ==
    /\ writer.stage = "header"
    /\ writer' = Flush(writer).writer
    /\ used.flushes < MaxFlushes /\ Count("flushes")
    /\ UNCHANGED <<registry, ids, reader, source, disk>>

\* finalizeHeader flushes what is left; and a variant that forgets the clocks.
AllButClocks(w) == Settings \ {"COMMENT", "CLOCK_ID"} \subseteq w.written
AllWritten(w) == Settings \subseteq w.written
FinalizeHeader ==
    LET done == IF AllWritten(writer) THEN [ok |-> TRUE, writer |-> writer] ELSE Flush(writer)
    IN  /\ writer.stage = "header"
        /\ writer' = IF ~done.ok THEN done.writer
                     ELSE [done.writer EXCEPT !.stage = "body",
                                              !.trace.header = Append(@, Header("END_HEADER", 0))]
        /\ UNCHANGED <<registry, ids, reader, source, disk, used>>

\* A trace that ends before its first clock is refused and leaves nothing with a
\* reader: it is not listed.
Ends(header) == header # <<>> /\ header[Len(header)].rec = "END_HEADER"
Stored(trace) ==
    IF Ends(trace.header) \/ \E i \in 1 .. Len(trace.header) : trace.header[i].rec = "CLOCK_ID"
    THEN Append(disk, trace) ELSE disk

\* A file of the writer that is closed leaves it the clocks of that file, and
\* that they have been written.  A caller may go on with another writer.
WriterClose(again) ==
    /\ writer.stage # "closed"
    /\ disk' = Stored([writer.trace EXCEPT !.closed = TRUE])
    /\ writer' = IF ~again THEN NewWriter
                 ELSE [NewWriter EXCEPT !.pending["CLOCK_ID"] = writer.pending["CLOCK_ID"],
                                        !.written = writer.written \cap {"CLOCK_ID"}]
    /\ UNCHANGED <<registry, ids, reader, source, used>>

-----------------------------------------------------------------------------
(* Writing transactions.  Callers use the clocks they have declared in     *)
(* time, and leave the clock to the default only if it is one of these.    *)

Declared(clocks) == {clock[1] : clock \in ToSet(clocks)}
ClockNumbers == {clock[1] : clock \in Clocks}
MayWrite == writer.stage = "body" /\ used.records < MaxRecords
\* The protocol the stream was told of in the header.
HasProtocol(header) == \E i \in 1 .. Len(header) : header[i].rec = "PROTOCOL_ID"

Transaction(id, clock, from) ==
    [id |-> id, clock |-> clock, delta |-> from.delta, metadata |-> from.metadata,
     data |-> from.data]
WithDeps(txn, deps) == [txn |-> txn, deps |-> deps]

\* What is written of a transaction of a protocol that is not the trace's stays.
Written(w, txn) ==
    IF HasProtocol(w.trace.header)
    THEN LET body == w.trace.body \o TransactionCells(txn)
         IN  [w EXCEPT !.trace.body = body,
                       !.trace.txns = Append(@, WithDeps(txn, w.deps)),
                       !.trace.ends = Append(@, Len(body)),
                       !.deps = <<>>]
    ELSE [w EXCEPT !.trace.body = @ \o TransactionHead(txn)]

\* makeTransactionWithDelta and operator<<, with a clock or with the default.
WriteTransaction(clock) ==
    /\ MayWrite
    /\ clock \in Declared(writer.trace.clocks)
    /\ ids' = ids + 1
    /\ LET payload == Payloads[(ids % Len(Payloads)) + 1]
       IN  writer' = Written(writer, Transaction(ids + 1, clock, payload))
    /\ Count("records")
    /\ UNCHANGED <<registry, reader, source, disk>>

WithDependency(w, dep) ==
    [w EXCEPT !.trace.body = @ \o DependencyCells(dep), !.deps = Append(@, dep)]
\* Written in front of the transaction that depends.
WriteDependency(dep) ==
    /\ MayWrite
    /\ dep.clock \in Declared(writer.trace.clocks)
    /\ Len(writer.deps) < MaxDependencies
    /\ writer' = WithDependency(writer, dep)
    /\ UNCHANGED <<registry, ids, reader, source, disk, used>>

WriteComment ==
    /\ MayWrite
    /\ writer' = [writer EXCEPT !.trace.body = @ \o CommentCells]
    /\ Count("records")
    /\ UNCHANGED <<registry, ids, reader, source, disk>>

-----------------------------------------------------------------------------
(* The reader.  Its steps while a trace is written make no difference to   *)
(* the writer but for the trace a caller copies: a reader is opened and    *)
(* closed between two traces, and reads behind a header.                   *)

NewReader ==
    [stage |-> "closed", at |-> 1, items |-> <<>>, deps |-> <<>>, comments |-> 0]

\* readHeader_ registers each clock as it comes, up to one it cannot.
Known == Settings \cup {"IDENTIFIER", "VERSION", "END_HEADER"}
Taken(acc, rec) ==
    IF ~acc.ok \/ rec.rec # "CLOCK_ID" THEN acc
    ELSE IF MayRegister(acc.registry, rec.value)
    THEN [acc EXCEPT !.registry = RegisterClock(@, rec.value)]
    ELSE [acc EXCEPT !.ok = FALSE]
Registered(reg, header) ==
    LET upto[k \in 0 .. Len(header)] ==
            IF k = 0 THEN [ok |-> TRUE, registry |-> reg] ELSE Taken(upto[k - 1], header[k])
    IN  upto[Len(header)]

\* What readHeader_ and validateHeader_ ask of a header besides.
At(header, rec) == {i \in 1 .. Len(header) : header[i].rec = rec}
IsValid(header) ==
    /\ Ends(header) /\ \A i \in 1 .. Len(header) : header[i].rec \in Known
    /\ At(header, "TRACE_INFO") # {}
    /\ Cardinality(At(header, "TRACE_INFO_FEATURE")) = 1

ReaderOpen(t) ==
    LET read == Registered(registry, disk[t].header)
    IN  /\ reader.stage = "closed" /\ writer.stage = "closed"
        /\ registry' = read.registry
        /\ reader' = [NewReader EXCEPT !.stage = IF read.ok /\ IsValid(disk[t].header)
                                                 THEN "open" ELSE "refused"]
        /\ source' = t
        /\ UNCHANGED <<ids, writer, disk, used>>

\* STFTransactionReader::readNext_: the records up to a transaction, which ends
\* the item and is numbered by the transactions read so far.
ReadDependency(r, cells) ==
    LET read == DependencyAt(cells, r.at + 1)
    IN  IF ~read.ok THEN [r EXCEPT !.stage = "end"]
        ELSE [r EXCEPT !.at = read.at, !.deps = Append(@, read.dep)]
ReadTransaction(r, cells, is_new) ==
    LET read == TransactionAt(cells, r.at + 1, is_new)
    IN  IF ~HasProtocol(disk[source].header) THEN [r EXCEPT !.stage = "refused"]
        ELSE IF ~read.ok THEN [r EXCEPT !.stage = "end"]
        ELSE [r EXCEPT !.at = read.at, !.deps = <<>>, !.comments = 0,
                       !.items = Append(@, [txn |-> read.txn, deps |-> r.deps,
                                              comments |-> r.comments,
                                              index |-> Len(r.items) + 1])]
ReadRecord(r, cells, is_new) ==
    IF r.at > Len(cells) THEN [r EXCEPT !.stage = "end"]
    ELSE CASE cells[r.at] = TRANSACTION -> ReadTransaction(r, cells, is_new)
           [] cells[r.at] = TRANSACTION_DEPENDENCY -> ReadDependency(r, cells)
           [] cells[r.at] = COMMENT -> [r EXCEPT !.at = @ + 1, !.comments = @ + 1]
           [] OTHER -> [r EXCEPT !.stage = "refused"]
ReadItem(reading, cells, is_new) ==
    LET Goes(r) == r.stage = "open" /\ Len(r.items) = Len(reading.items)
        Step(r, k) == IF Goes(r) THEN ReadRecord(r, cells, is_new) ELSE r
    IN  FoldLeft(Step, reading, [k \in 1 .. Len(cells) + 1 |-> k])
ReaderRead(is_new) ==
    /\ reader.stage = "open"
    /\ writer.stage # "header"
    /\ reader' = ReadItem(reader, disk[source].body, is_new)
    /\ UNCHANGED <<registry, ids, writer, source, disk, used>>

ReaderClose ==
    /\ reader.stage # "closed" /\ writer.stage = "closed"
    /\ reader' = NewReader /\ source' = 0
    /\ UNCHANGED <<registry, ids, writer, disk, used>>

-----------------------------------------------------------------------------
(* Copying a trace, and the end of a process. *)

\* copyHeader: all clocks of the process, whatever trace they came from.
Nth(places, k) == CHOOSE i \in places : Cardinality({j \in places : j <= i}) = k
Values(header, s) ==
    [k \in 1 .. Cardinality(At(header, s)) |-> header[Nth(At(header, s), k)].value]
Copied(w, header) ==
    [w EXCEPT !.pending = [s \in Settings |->
                 IF s = "CLOCK_ID" \/ At(header, s) = {} THEN @[s] ELSE Values(header, s)]]
CopyHeader ==
    /\ reader.stage = "open" /\ HasProtocol(disk[source].header)
    /\ writer.stage # "body"
    /\ Len(writer.pending["CLOCK_ID"]) + Len(registry) <= MaxClocks
    /\ \E clocks \in DumpClocks(registry) :
           writer' = WithClocks(Copied(writer, disk[source].header), clocks)
    /\ UNCHANGED <<registry, ids, reader, source, disk, used>>

\* STFTransaction::write: the records of a transaction, by their descriptors.
CopiedItem(w, item) ==
    LET behind == IF HasProtocol(w.trace.header)
                  THEN FlattenSeq([k \in 1 .. Len(item.deps) |-> DependencyCells(item.deps[k])])
                  ELSE <<>>
        before == FlattenSeq([k \in 1 .. item.comments |-> CommentCells])
        front  == [w EXCEPT !.trace.body = @ \o before, !.deps = item.deps]
    IN  [Written(front, item.txn) EXCEPT !.trace.body = @ \o behind]
ClocksOf(txn, deps) == {txn.clock} \cup {deps[k].clock : k \in 1 .. Len(deps)}
CopyTransaction ==
    LET item == reader.items[Len(reader.items)]
    IN  /\ MayWrite
        /\ reader.items # <<>>
        /\ item.deps # <<>> => CopyDependencies
        /\ writer.deps = <<>>
        /\ ClocksOf(item.txn, item.deps) \subseteq Declared(writer.trace.clocks)
        /\ writer' = CopiedItem(writer, item)
        /\ Count("records")
        /\ UNCHANGED <<registry, ids, reader, source, disk>>

\* A process ends: what it was writing is cut off somewhere, and if before its
\* last transaction, then as if it had not been written.  Between two traces it
\* ends as at the start of the next.
Kept(trace) ==
    IF Len(trace.ends) < 2 THEN 0 ELSE trace.ends[Len(trace.ends) - 1]
CutAt(trace, records, cells) ==
    [trace EXCEPT !.header = SubSeq(@, 1, records), !.body = SubSeq(@, 1, cells)]
Restart ==
    /\ writer.stage # "closed"
    /\ used.traces + used.restarts < MaxTraces /\ Count("restarts")
    /\ \E records \in 0 .. Len(writer.trace.header),
          cells \in Kept(writer.trace) .. Len(writer.trace.body) :
           /\ writer.trace.body # <<>> => records = Len(writer.trace.header)
           /\ disk' = Stored(CutAt(writer.trace, records, cells))
    /\ registry' = <<>> /\ ids' = 0 /\ writer' = NewWriter
    /\ reader' = NewReader /\ source' = 0

Init ==
    /\ registry = <<>> /\ ids = 0
    /\ writer = NewWriter /\ reader = NewReader /\ source = 0 /\ disk = <<>>
    /\ used = [traces |-> 0, records |-> 0, flushes |-> 0, restarts |-> 0]

Next ==
    \/ \E settings \in Setups : SetUp(settings)
    \/ \E clock \in Clocks : AddClock(clock)
    \/ WriterOpen \/ FlushHeader \/ FinalizeHeader
    \/ \E again \in BOOLEAN : WriterClose(again)
    \/ \E clock \in ClockNumbers : WriteTransaction(clock)
    \/ \E dep \in Dependencies : WriteDependency(dep)
    \/ WriteComment
    \/ \E t \in 1 .. Len(disk) : ReaderOpen(t)
    \/ \E is_new \in BOOLEAN : ReaderRead(is_new)
    \/ ReaderClose
    \/ CopyHeader \/ CopyTransaction
    \/ Restart

Spec == Init /\ [][Next]_vars

-----------------------------------------------------------------------------
(* Properties. *)

\* The clocks a transaction and its dependencies use, and the name its writer
\* gave to one of them.
UsedClocks(entry) == ClocksOf(entry.txn, entry.deps)
NameMeant(trace, id) == NameOf(trace.clocks, id)

\* A trace that was closed and has transactions can be read without the process
\* that wrote it: whatever flushes came between the settings, failed ones
\* included, and whatever the writer object wrote before, its header is accepted
\* by a process that knows no clock, and tells the names of all clocks that its
\* transactions and their dependencies use (flushHeader, finalizeHeader, close,
\* copyHeader, readHeader_).
TracesStandAlone ==
    \A t \in 1 .. Len(disk) :
        disk[t].closed /\ disk[t].txns # <<>> =>
            LET read == Registered(<<>>, disk[t].header)
            IN  /\ read.ok /\ IsValid(disk[t].header) /\ HasProtocol(disk[t].header)
                /\ \A k \in 1 .. Len(disk[t].txns) : \A id \in UsedClocks(disk[t].txns[k]) :
                       NameOf(read.registry, id) = NameMeant(disk[t], id)

\* The transactions of a trace are read as they were written, in order, numbered
\* from 1, each with its dependencies, its metadata and the fields of its
\* channel, up to the last one that a trace cut off still holds as a whole; and
\* the process knows their clocks by the names they were written with, whatever
\* other traces it has read or written.  Only a clock that has another name in
\* this process, or a header cut off, makes it refuse a trace of transactions
\* (readNext_, unpack_impl, registerClock_).
TransactionsReadAsWritten ==
    reader.stage # "closed" =>
        LET trace == disk[source]
            whole == Cardinality({k \in 1 .. Len(trace.ends) : trace.ends[k] <= Len(trace.body)})
        IN  /\ Len(reader.items) <= whole
            /\ reader.stage = "end" => Len(reader.items) = whole
            /\ reader.stage = "refused" /\ trace.txns # <<>> =>
                   \/ ~Ends(trace.header)
                   \/ \E i \in 1 .. Len(trace.header) :
                          /\ trace.header[i].rec = "CLOCK_ID"
                          /\ ~MayRegister(registry, trace.header[i].value)
            /\ \A k \in 1 .. Len(reader.items) :
                   LET item  == reader.items[k]
                       meant == trace.txns[k]
                   IN  /\ item.index = k
                       /\ item.txn = meant.txn /\ item.deps = meant.deps
                       /\ \A id \in UsedClocks(meant) : NameOf(registry, id) = NameMeant(trace, id)

\* Copying the transactions of a trace one by one copies what they depend on:
\* "orig_records_ contains all the STFRecords for this transaction, in the order
\* they were read from the trace", and write() writes "all records in this
\* transaction".  It writes a transaction in front of its dependencies, where a
\* reader takes them for those of the next one.
CopiesKeepDependencies ==
    reader.stage # "closed" =>
        \A k \in 1 .. Len(reader.items) :
            reader.items[k].deps = disk[source].txns[k].deps
==============================================================================
