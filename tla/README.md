# A formal model of stf_lib

stf_lib reads and writes STF traces: sequences of records that describe the
instructions (or bus transactions) a machine has executed. This directory holds
TLA+ modules that model the parts of the library that are hard to test, TLC
configurations that check them, and proofs that TLAPS checks. Paths below are
relative to `src/`.

Run `tlc -config X.cfg M` to check the configuration `X` of module `M`
(`PROJECT.json` lists which belong together, under "runs"), and `tlapm M.tla` on
the modules whose names end in `Proofs` to check the proofs.

## The system

| component | state | operations | what it must get right |
|---|---|---|---|
| compressed input streams (`stf-inc/stf_compressed_ifstream*.hpp`) | the current and the prefetched chunk, a chunk index, the marker count, a `std::async` task | open, read, end-of-file test, seek, rewind, seekFromOffset, close | position = content; the task and the caller do not meet in the same buffer; the end is reported once and in time |
| compressed output stream (`stf-inc/stf_compressed_ofstream.hpp`) | the chunk being filled, the chunk being compressed, the chunk index, a `std::async` task | open, write, markerRecordCallback, close | no record lost or duplicated; index right; the file readable whenever the process dies between chunks |
| stream registry (`stf-inc/stf_fstream.hpp`) | one static set of open streams, a flag, a mutex; a mutex per stream | open, close, destructor, atexit handler | every open stream is closed at exit; no deadlock |
| buffered readers (`stf-inc/stf_buffered_reader.hpp` and the instruction and transaction readers) | a ring of items, iterators into it | begin, `++`, copies, seek, jumpToIndex, user-mode skipping | every item visited once and in order; iterators can look back; items numbered right |
| indexer (`stf-inc/stf_indexer.hpp`) | a map from item numbers to offsets, a thread | open, findNearestEntry, close | the entry found is the nearest one; the wait ends |
| page table reader (`stf-inc/stf_pte_reader.hpp`) and page table (`stf_page_table.hpp`) | versions of mode, SATP and entries by instruction index; a thread | open, translate, close | an address is translated as of the instruction asked for, whatever the thread has read since |
| instruction trace writer (`lib/stf_writer.cpp`) | header settings, their written-flags, `force_32bit_events_`, the last descriptor | setters, disableTraceFeature, flushHeader, finalizeHeader, `<<`, close | the header is complete, in order, and of this file only |
| instruction trace reader (`lib/stf_reader.cpp`) | the header's records | open, close, copyHeader | refuses what is incomplete; forgets the file before |
| transaction traces (`lib/stf_transaction_*`, `stf-inc/stf_transaction*`) | header settings and their flags, dependencies collected so far; one `ClockRegistry` for all traces of a process | setters, addClock, flushHeader, finalizeHeader, `<<`, open, readNext_, copyHeader, write, close | a trace is read as it was written, in the process that wrote it and in any other |
| protocols (`stf-inc/protocols/`) | the channel object that is read into | pack, unpack into a used object, construct from a stream | fields in their order, masks of any length |
| instruction reader and instructions (`stf_inst_reader.hpp`, `stf_user_mode_skipping_reader.hpp`, `stf_inst.hpp`, `stf_record_map.hpp`) | the instruction being put together, pending registers, whether and why it skips | readNext_, finalizeInst_, skippedCleanup_, skippingDone_, write | user code complete and numbered, also across faults, traps and interrupts; what is copied reads the same |
| branch reader and decoder (`stf_branch_reader.hpp`, `stf_branch_decoder.hpp`) | the last branch, the operands so far | readNext_, decode, finalizeBranch_ | direction, target, operands and the opcode at the target are those of the branch |
| register state (`stf_reg_state.hpp`, `lib/stf_reg_def.cpp`) | a bank of registers and fields of registers for each machine | regStateUpdate, writeRecords, clear | a field and the register it is part of agree |
| records, pool, PC tracker | one object each | unpack, pack, recycle, track | what is packed is unpacked, in a recycled object as in a new one |

A record goes from the program through `STFWriter::operator<<` (the order of
descriptors) into an output stream (chunks, compression, file); back through an
input stream (chunks, prefetch), a factory that unpacks it into a pooled object,
and a buffered reader that puts the records of one instruction together in a
ring. The indexer and the page table reader are threads with a reader of their
own over the same file; the reader they serve waits for them on a condition
variable. Streams register with an exit handler that closes them.

What is hard: two threads on one stream's buffers (input and output); a process
killed while the file is rewritten at its end; locks taken in two orders; waits
for a thread that may have ended; counters kept in two places; the last item,
the last chunk, the exactly full chunk; a ring whose positions wrap; calls in an
order nobody thought of; state of one file that survives into the next.
`PROJECT.json` lists the hazards with their lines, and the properties that watch
them.

## The modules

- `Chunks` — how a trace of so many markers falls into chunks. Shared by reader
  and writer, so that what the writer guarantees (`ChunksAreCut`) is what the
  reader computes with.
- `TraceStream` — the abstract specification of an input stream: a cursor over
  the markers of a trace. It has no counterpart in the code; it is what the
  callers of a stream rely on.
- `ChunkedReader` — both compressed input streams. Each variable is the member
  of its name; a buffer is reduced to the chunk it holds, its apparent size and
  its read pointer. A *read* is the records up to and including the next marker
  with its `markerRecordCallback`; a call that waits for the task is enabled
  once the task has come far enough. `TaskRead` and `TaskDecompress` are the two
  halves of `readChunk_` in the `std::async` task. `Spec` implements
  `TraceStream!Spec` under the mapping at the end of the module.
- `ChunkedReaderProofs` — lemmas of chunk arithmetic, and the theorems about the
  reader.
- `ChunkedWriter` — the compressed output stream, with the steps of `endChunk_`
  (payload, index, header, next entry) one by one, and `Kill` between any two.
  `ChunkedWriterProofs` — the theorems about it.
- `StreamRegistry` — `STFFstream`'s calls as steps between lock operations, and
  the exit handler. `StreamRegistryProofs` — the theorems about it.
- `SlidingWindow` — the ring, iterators, seeks and user-mode skipping. The
  stream below is taken to be what `TraceStream` promises.
- `TraceIndexer`, `IndexedReader` — the scanning thread; and its composition with
  `SlidingWindow` under jumpToIndex(). `SlidingWindowProofs` — the theorems about the
  window, without and with jumps.
- `PageTable`, `PteReader` — versions and the walk as operators; and the reading
  thread, the machine whose trace it reads, and translate(). `PteReaderProofs` — the
  theorems about it.
- `TraceHeader`, `MCTraceHeader` — `STFWriter`'s header and record order, over
  several files of one writer. A setting is the values in its handle or vector and
  the file they are for (`Set`, `DisableTraceFeature`); a record in the file is what
  its handle held when its block was flushed. `Asked` is what finalizeHeader() adds,
  `force_32bit_events` what keeps it from doing so, `Accepts` what `STFReader` demands
  of a header. `MCTraceHeader` gives the settings values: two where a change matters.
  `TraceHeaderProofs` — the theorems about it.

- `Records` — each record class as a layout (the fields it writes, the list behind
  them), the descriptors, and the state of a stream that packing and unpacking
  depend on and change. A trace is a sequence of cells, one per number written
  with its own width, so that what is read depends on where the reader believes
  the next field to be.
- `RecordStream`, `MCRecordStream` — a writer, a reader and the reader's thread's
  cache of recycled objects: an object keeps what `unpack_impl` does not assign.
  `RecordStreamProofs` — the theorems about it.

- `RegState` — the numbering of registers, the bank of each machine with the
  fields of its registers, and what an update does to both.
- `InstTrace` — what the two readers below have in common: the trace, the
  skipping of code that is not the user's (`UpdateSkipping`, `CheckSkipping`), and
  the window of items with its refills (`Fill`). A trace is a *scene*: the
  instructions with their records, and what is true of each (`truth`), which the
  readers do not see.
- `InstReader` — an instruction from its records (`ReadNextInst`), its flags and
  targets, the register writes of skipped code that are handed on, and `Write`,
  which turns an instruction back into records.
- `BranchDecoder`, `BranchReader` — the opcode's bits, and a branch from its own
  records and those of the instruction behind it.
- `TraceViews`, `MCTraceViews` — both readers over one scene, with the properties
  that compare them with each other and with the truth; and the scenes. An action
  of a reader is a call of its caller: open, `++` with the refill it may need, the
  end.
- `Protocols` — TileLink's channels with their fields, metadata, transactions and
  their dependencies as cells, and how each is read back.
- `TransactionTrace`, `MCTransactionTrace` — the writer of transactions, the
  registry of clocks, the reader, copies made with the reader's items, and
  processes that end at any time, with the trace cut off anywhere (`Restart`).
  `TransactionTraceProofs` — the theorem about it.

`ChunkedReader`, `ChunkedWriter`, `StreamRegistry`, `SlidingWindow`, `PteReader`,
`TraceHeader` and `RecordStream` state a type invariant, which is proved. The types of `TransactionTrace`, `TraceViews` and
the indexer are said at their variables.

Some definitions come with variants (`NoWait` beside `Waited`): mistakes one
could make at that place in the code. `PROJECT.json` names for each property one
variant that breaks it, so that it is known to say something.

## What is checked

| run | bounds | what it shows |
|---|---|---|
| reader | chunks of 2; traces of 1, 2, 3, 6, 7, 8 markers (one to four chunks, last one full or short); chunk 3 may be corrupt; seeks of up to 5 | both streams implement `TraceStream`; counter and buffers agree; caller and task keep apart; reading always ends |
| writer | chunks of 2, 7 markers: three full chunks and a short one | the file and its index at every step and after every kill; nothing lost; close() returns |
| registry | 3 threads, 2 streams; the handler after the threads | registered iff open; the handler closes all; every call gets back the mutexes it waits for (the lock orders cannot cycle with the handler last; see `registry_exit`) |
| registry_exit | same, the handler among the threads | *violated*: lock order cycle |
| window | ring of 4; traces of 1, 4, 5, 7, 9 items (below, at and above one and two rings); 2 iterators; one skipped stretch anywhere; seeks of up to 6 | order, completeness, numbering, looking back, the end |
| window_seek | ring of 4, 9 items | *violated*: seek from the oldest item of a wrapped ring |
| indexed | ring of 4, granularity 3, 1, 4 and 7 items, compressed | a jump lands where asked and returns (which entry it starts from does not matter to a compressed stream; that it is the nearest is `LookupsAreRight`, proved) |
| pte | 2 address spaces, 1 lower table, 2 frames, 2 levels, 3 instructions, interval 2, 2 stores or changes | translations are those of the machine; they stand; no assertion ends the thread; the wait ends |
| header | 2 files, 1 record written with `<<` into each, of a header kind or of the body; an IEM of two values, a feature that is set and disabled, one value for each other setting | finalized headers are readable; a flush writes what is set, and nothing set in time is left out; no record but the process id is of the file before |
| records | up to 3 instructions, branches and forced PCs; up to 3 registers, scalar or of 1 to 3 words, under 4 vector lengths; 2 events under 3 feature sets; 2 records of each other kind; a cache of 1 per kind, filled by an earlier trace or not; 2 handles; 1 rewind | what is read is what was written, whatever object it is read into; writer and reader remember the same |
| insts | 3243 programs of up to 13 instructions; window of 4 (a refill of two items at every other item); machines of 32 and of 64 bits; words of 8 bits | both readers give the user's code and its branches, each once, as they were; registers survive skipped code; a copy reads the same; the two readers agree |
| transactions | 2 clocks, one of them by two names; payloads with all kinds of fields and with one field, in turn; 2 records and 1 dependency; 2 clocks to a writer; 1 flush; 2 traces written or processes ended | a trace finalized is complete without the others; it is read as it was written, in whatever process, up to where it was cut off |

The programs of `insts` are of four kinds: every branch format with every bit of
its offset and the registers that decide what it is (call, return, compared with
zero), each in front of another instruction and as the last one; changes of mode, with
every kind of trap, nested or not, with and without a way back, around branches;
every register of either machine written by the user and by skipped code, and
every field together with its register; pairs of all kinds of records in one
instruction, for copies.

The two violated runs are disagreements between the code and its own words;
"findings" in `PROJECT.json` quotes both. Six more configurations are kept
beside the runs, each of which TLC finds violated. They belong to behaviours that
a change of the code would want to check again:

- `tlc -config IndexedReaderPlain.cfg IndexedReader` — the index over an
  uncompressed file: the offset of an entry is that of the marker before, so after
  jumpToIndex() the items have other numbers than by reading
  (`stf_indexer.hpp:65`, `NumbersCountItems`).
- `tlc -config TraceHeaderEarly.cfg MCTraceHeader` — finalizeHeader() asks for 64 bit
  events in an RV64 trace, as its comment says (`stf_writer.cpp:130`); when the caller has
  flushed the header before, the feature record is in the file, its flag is up, and the
  request changes the record in memory only (`RV64HasEvent64`).
- `tlc -config TraceHeaderNext.cfg MCTraceHeader` — disableTraceFeature(), which
  "Removes trace feature from header" (`stf_writer.hpp:101`), sets
  `force_32bit_events_` (104-110), and close() (`stf_writer.cpp:148-161`) does not reset
  it: every later file of that writer is without 64 bit events too, while all else that
  was set for the first file is forgotten (`DisabledForOneFile`).
- `tlc -config RecordStreamVersion.cfg MCRecordStream` — a recycled
  `TraceInfoRecord` keeps the version string it has formatted for the record
  before (`stf_record_types.hpp:2461`, `VersionStringIsCurrent`).
- `tlc -config TransactionTraceCopy.cfg MCTransactionTrace` — `STFTransaction::write`
  goes through the records by descriptor, so a transaction precedes its
  dependencies, and a reader of the copy gives them to the next one
  (`stf_transaction.hpp:250`, `CopiesKeepDependencies`).
- `tlc -config TransactionTraceOrder.cfg MCTransactionTrace` — a new channel
  object reads its fields in the arguments of a constructor call
  (`protocols/channel_protocol.hpp:232`), which are evaluated in the order the
  compiler likes: from first to last by clang, and from last to first by g++. With
  the latter a transaction that is read into a new object has its fields mixed up;
  read into a used one it is right, for `unpack_impl` takes them in order. The run
  `transactions` and its copy take the first order, so what they show, they show
  of a build that evaluates arguments so.

Four more behaviours that may surprise are
in the models without a configuration of their own: a seek to the exact end of a trace whose
last chunk is full is refused as one past the end (`RefuseSeek`, and the abstract
`Refuse`, which allows it); signals are masked in the compression task's thread
only (`Blocked` in `ChunkedWriter`); a trace header can get stuck, every further
flush throwing (`TraceHeader`); and a setter of the trace header called when its block
has been flushed is lost without a word, for no block is written twice. The last is
what `SettingsAreKept` leaves out and says so: it is about settings made before the
flush of their block. Where the code itself is late, `TraceHeaderEarly.cfg` shows it.

Why the bounds are enough: positions enter the code through comparisons with a
chunk or ring boundary, and through quotient and remainder by it. Chunks of 2
and rings of 4 have a boundary, an inside and an outside of each kind; the traces
reach over the third boundary, so that a buffer has been swapped back and the
ring has wrapped; one more chunk repeats a state. For the streams, the ring and the
page tables the theorems below remove the bounds. Page tables need two address spaces to be mixed up, two
levels for an inner entry to change, two events for one before and one after
the instruction asked for. A second file is what state can leak into. Two values for a
setting tell what was set from what was set before; one raw record in front of, or
among, the setters' is enough to take a place or to stop a flush.
An object forgets all but the record before, so three records of a kind, the first
possibly from an earlier trace, show what is left over; three vector lengths
bring vectors of one word, two and three. Instructions depend on the one before
and, across skipped code, on the last shown and the first skipped. A window of four
is filled with four items and then with two at a time, so the programs come with
stretches of other instructions in front that put a branch, a trap and the way back
at the end of the first filling and on either side of a refill, and the reader goes
through refills on either half. A window of two is left out on purpose: the constructor takes it
(`stf_buffered_reader.hpp:621-624`), but the first refill overwrites the caller's
own item and puts `tail_` onto it (276-284, 339-376), so that iteration ends behind
one item of any longer trace. `WindowAssumption` and `BufferSizeAssumption` exclude
it, and the latter the sizes that are no power of two, which the masks get wrong. Offsets of branches
are decoded bit by bit, so one offset for each bit and for each sign does. What
one trace can do to another goes through the clocks, where the second clock of a
name or an identifier is the first that can be refused.

Assumptions about the world, in the modules' comments: `PteReader`'s trace is one
of a real machine (accesses follow their recorded walks; a SATP state record
occurs in the first group only; an event in the first group gives the initial
mode; the reader is opened once). `ChunkedReader` opens what the writer writes
(at least one marker, chunk 0 decompresses, for open() itself throws otherwise).
`ChunkedWriter` takes stdio to write in order. `IndexedReader` leaves out callers
that skip and jump at once, which the code only asserts against. `MCRecordStream`
puts the records that set up a stream into the header, as `STFWriter` does (and a
second vector length, which is refused, behind it); lists are shorter than their
8-bit counts can tell; callers rewind between instructions, as the readers do. A
vector register of one word can be refused with part of it written: the code
takes vector lengths of 64, and then throws where it writes or reads a vector of
that length. A trace that ends in such a record is read up to it only.

In `MCTraceViews` an instruction goes where its truth says and the records say
so. Left out are scenes the readers are not made for, or differ about, which a
reader of this text may meet in the code:

- the write of a field whose register comes behind it in the map (SIE and
  SSTATUS, UIE and USTATUS, MCYCLEH and MCYCLE and their like) in skipped code: it
  is applied twice, or its register handed on with zeros; a standard CSR without a
  name in the enumeration, which throws `RegNotFoundException` when it is skipped;
- a REG_STATE operand of the instruction that resumes the user's code, which the
  registers of skipped code replace;
- an event without its target, an access with two contents: `writeRecordPairs_`
  pairs by position;
- two changes of mode in one instruction, which the two readers read differently;
  one that is filtered out in front of another event;
- a user's call in the middle of a copy of the user's code: the copy's next
  instruction has the kernel's entry as its PC; `setNop_` changes the opcode but not
  the records it came with;
- FORCE_PC behind a taken branch, a taken indirect branch that is not marked taken
  or goes to 0: the branch reader asserts against them; events on a branch, which
  drop it; popret, which is decoded as a branch and then dropped;
- calls with extra records (`writeWithExtraRecords` never takes them off again),
  and extracting from or removing in a `RecordMap`.

In `TransactionTrace` callers use clocks they declared before the clock block of
their trace was written, and the default clock only where it is that trace's own:
the default is the first clock of the process, not of the trace. They make their
settings while the trace is open, which is the same as before. A trace whose
process ends before its first clock is written is not listed, for no reader
accepts it. The reader is opened and closed between two traces being written, and
reads none of which the header is incomplete. A process that ends leaves what it
had written up to any cell, and a later process reads no more than that. Raw
header records through `<<`, the expected protocol and the copy constructor of
`TransactionRecord`, which leaves the metadata out (`stf_record_types.hpp:3048`),
are not in it. A writer object that has closed a trace can write no second
one: `clock_ids_written_` stays set and the next header throws, which the model has.

Fairness: a `std::async` task and a `std::thread` that has work run on, for they
are threads that nothing in the process stops (`WF` of the task, the scan, the
page table thread); a call whose wait condition holds goes on (`WF` of close, of
jump and translate, of steps inside a call; the waits are `future::get`, mutexes
and a condition variable with its predicate). Callers have no fairness, but in
`ReadingEnds`, which assumes a caller that goes on reading. Deadlock is checked
in `reader` and `header`; the other systems may stop: the writer is killed or
closed, the program has exited, iterators are at the end, the thread is joined, the trace is read.
`insts` and `transactions` state no fairness: nothing in them waits, all steps are
their callers'.

## What is proved

`ChunkedReaderProofs` proves for every chunk size, every set of trace lengths,
every set of corrupt chunks and every seek distance, from the two assumptions
`ChunkSizeAssumption` and `ReaderAssumption`:

- `TypeCorrect` — `TypeOK`;
- `PositionIsCoherent`, `OverrunFree`, `EofTestIsRaceFree` — the safety
  invariants of the run `reader`;
- `TaskOwnsSharedState` — the action property;
- `ReaderImplementsTraceStream` — both streams implement the abstract cursor.

The safety properties are not inductive: that the counter and the buffer agree
after a chunk boundary depends on what the task has put into `decompressed_buf`
by then, and that on where the file position and the chunk iterator were when it
was launched. The inductive invariant `Inv` says, beside the types and while no
call has thrown: `out_buf` holds a chunk of the file, and counter, chunk boundary
and read pointer fit it; the iterator and the file position are just behind the
chunk prefetched; and for each state of the future, where that chunk is (not yet
read, read, decompressed, failed), or that there is no more. `Invariance`
proves it step by step, one lemma per action; each property follows from it.
Refinement goes action by action too: an in-chunk read and a read across a chunk
boundary both are the abstract `Read`, the task's steps are stutters, calls that
throw are `Refuse` or `Fault`. The arithmetic comes first: the chunk of a
marker, its remainder, the length of a chunk; `ChunkedWriterProofs` starts with the
same lemmas, for a module of proofs has the variables of one component.

`StreamRegistryProofs` proves of any number of threads and streams, from
`RegistryAssumption`:

- `RegistryTypeCorrect` — `TypeOK`;
- `OpenStreamsAreKnown` — `OpenStreamsAreRegistered`, with the exit handler
  running before, among or after the threads;
- `RegistryIsLive`, `StreamsCloseAtExit` — `RegistryHoldsLiveStreams` and
  `ExitClosesStreams`, for a handler that runs after the threads (`~ConcurrentExit`).

`Inv` says where a call can be and what it holds (`Placed`), that an open stream is
in the set or about to enter it (`Known`), that the flag is up only in the handler's
loop, and `Exclusive`: no two calls are on one stream. The last is what the others
need, and not evident, for `openWithProcess()` takes no lock: it works because
such a call is on a stream that nobody else has yet. `AtExit` adds what the handler
finds when it comes last; with threads beside it, that is false, which is why the
two theorems have the assumption.

`TraceHeaderProofs` proves of any number of files, of records that the caller
writes and of values, from `HeaderAssumption`:

- `HeaderTypeCorrect` — `TypeOK`;
- `NoSettingLeaks`, `HeaderIsReadable` — `NothingLeaks`, `FinalizedIsReadable`;
- `NoSettingIsLost` — the action property `SettingsAreKept`.

They hold of any values the settings may take. `NoSettingLeaks` speaks of records: that
no record but the process id was set for an earlier file. `force_32bit_events_` is no
record, does stay, and has a configuration of its own (`TraceHeaderNext.cfg`). `NoSettingIsLost` says that a
block which is flushed holds what was set at that time, even when a later block
throws, and that a finalized header has the last value of every setting that was not
flushed before, the feature of 64 bit events that finalizeHeader() asks for included.

A flush is nine blocks, any of which may throw and leave what the blocks before it
did. `BlockWorks` says what one keeps and how it changes flags and settings (`Grows`: no flag goes
down, no record is lost, and a flag that goes up has the record of its handle in the trace),
`NextBlock` and `FlushedWorks` chain nine of them. The inductive invariant relates the
records of the header to the flags (`HeaderOK`): of each record the writer made the
flag is up, there is one of each, each flag's record is there, and the initial PC
comes only with all that has to be in front of it. In the body, it holds of what is
in front of the header's end.

`ChunkedWriterProofs` proves for every chunk size and number of markers, from
`ChunkSizeAssumption` and `WriterAssumption`:

- `TypesHold` — `TypeOK`;
- `ChunksAreWhatTheReaderCountsOn`, `IndexIsRight`, `AlwaysReadable`,
  `MarkersAreKept`, `ClosedFilesAreComplete` — the safety invariants of the run
  `writer`;
- `TheTaskIsAlone` — the action property `TaskOwnsFile`.

The inductive invariant gives each marker written its place: in the file, in the
chunk handed to the task, or in the one being filled, which are adjacent intervals
(`Buffers`). Each starts at a multiple of the chunk size, and all but the last are
full (`File`). What the two indices say, the one in memory and the one in the file,
is compared with the chunks for each step of `endChunk_` (`Index`, `Header`), which
is where a kill finds the file; and `Calls` relates the flags of the caller to the
buffers and the task.

`SlidingWindowProofs` proves for every even ring size from 4 on (the code masks
positions, so its sizes are powers of two), every trace, every stretch of skipped
items, any number of iterators and every seek distance, from `WindowAssumption`:

- `TypesHold` — `TypeOK`;
- `NumbersAreRight`, `WindowIsSafe`, `EndIsKnown` — `NumbersCountItems`,
  `LookingBackIsSafe`, `LastItemIsKnown`;
- `NothingIsMissed`, `SeeksAreIncrements` — the action properties `VisitsEveryItem`
  and `SeekIsIncrements`.

A slot is named by its age, the distance behind `tail_` around the ring. The
invariant (`Ring`) says that a slot holds the item that is its age behind the newest,
from some number `lo` on (`Filled`); that an iterator is at the slot of its number, up
to whole turns of the ring (`Placed`); and that a ring which has not met the end has
its tail at the end of one half, which is why no iterator gets to the newest item
before the ring is filled on. Of an empty buffer it says less (`Empty`). Numbers are
counted without the skipped items, and a seek that leaves the ring continues them from
the stream's position, so the number of items skipped is part of it (`Stream`).

The same module proves of the indexed reader (`SpecAll`, from `IndexerAssumption` and
`IndexedAssumption` too), for every granularity:

- `LookupsAreRight` — whenever a waiting jump is woken up, `findNearestEntry()` finds an
  entry, and the index asked for lies between it and the next one;
- `JumpsAreRight` — the action property `JumpLands`;
- `JumpsKeepTheWindow` — `NumbersCountItems`, `LookingBackIsSafe` and `LastItemIsKnown`
  with jumps.

The last two assume `Straight`: a compressed stream, or an entry for every marker. In
the remaining case both are false, as `IndexedReaderPlain.cfg` shows for the numbers.
`Entries` says what the scan has entered at any time, `Request` that a caller who waits
keeps the scan from being stopped. With jumps `last_item_read_` may be set although
the stream has gone back; that the window does not suffer is proved from `at_eof`.

`PteReaderProofs` proves for any number of instructions, tables, address spaces,
frames, levels and changes, from `PageTableAssumption` and `PteAssumption`:

- `TypesHold` — `TypeOK`;
- `TranslationsAreTrue`, `TranslationsStand` — `AnswersAreTrue`, `AnswersStand`;
- `NoAssertionFails` — no walk of the machine fails an assertion of `update()`.

The invariant says that mode, SATP and the entries recorded last, looked up at the
index of the instruction under way and of the next one, are those of the machine
(`ModesOK`, `SatpsOK`, `PagesOK`), and that no index lies behind that. When the
instruction ends, the two walks agree by induction on the level (`WalkAgrees`), so its
address is translated as the machine did; from then on every new version has a later
index and leaves the translation alone (`PastStands`).

`RecordStreamProofs` proves for every set of menus (a header and the records that may
follow it), every set of objects an earlier trace may have left in the cache, and any
number of records, handles and rewinds, from `MenusAssumption` and
`LeftoversAssumption`:

- `TypeCorrect` — `TypeOK`;
- `ReadsAreRight`, `StreamsAgree` — `ReadsAreWrites`, `StreamsMeet`.

`MenusAssumption` says of records what their C++ types do: so many fields, a list of
elements of one width, an event or a register number that leaves the bits free that
`pack_impl` takes for itself. It also says that the settings of a stream are made in
the header, which holds no instruction, and that a vector length in the body is a
second one, which the writer refuses.

A round trip is proved first, for one record (`RoundTrip`): packed by a stream and
unpacked by one that agrees with it (`Agree`), into an object with anything in it, it
comes out with its fields and its list, behind its last cell; and then both streams
still agree (`AgreePassed`). The layouts are needed only here, and the kinds that look
at the stream, vector registers, events, opcodes and targets, are cases of it. The
invariant `IInv` says where in the trace each record starts (`Starts`) and that the
reader stands at the start of one, with a stream that agrees with what the writer's
was there (`ReaderInv`). A rewound reader keeps its settings and goes back to the end
of the header: what the header leaves in a stream (`HeaderInv`), and that nothing
behind it changes the settings (`SettingsInv`), is why it still agrees. Objects have
the shape of their kind wherever they are, and those that a caller holds have the
record read into them and what was computed from it then (`ObjectsInv`).

`TransactionTraceProofs` proves `TracesStandAlone` (`TracesStand`) for every set of
clocks, settings, payloads and dependencies, and any number of clocks, flushes,
traces and processes, from `SetupsAssumption`: callers make their settings by the
setters and declare clocks by `addClock`.

The invariant `IInv` follows a header from the setters to the file. `BlocksOK` ties
each flag of the writer to its block, also where a flush throws between two of them,
and says what a block with the protocol has in front of it; the flag of the clocks is
the exception, for a writer that is used again keeps it. `ClocksOK` says that the
process's registry knows the clocks that wait and those in the header by the names
their callers gave, that clocks declared in time still wait until their block is
written, and that in a header with a protocol they are there once it is: the protocol
refuses to come behind them, so the flag cannot be an older trace's. `StageOK` says
that transactions come behind a header that has ended, with a protocol and with its
clocks, and that they use clocks that were declared in time. `FlushKeeps` goes through
the five blocks. That a new process accepts the header is `RegisteredAll`: clocks that one
registry knows by one name each cannot contradict each other in another
(`MayRegister` holds at each of them), and what a registry knows it keeps
(`Grown`). The reader's part of the invariant is what `copyHeader` needs: it copies
one set of trace features, for the header it read was accepted.

Induction goes through sets: the prover cannot instantiate a theorem that takes a
predicate, but `Induction` takes the set of good numbers instead, and comes from the
least element of a set of natural numbers (`WFMin` of the library's
`WellFoundedInduction`). That a recursive function exists follows the same way
(`Iterates`).

Only model-checked: liveness (`ReadingEnds`, `CloseReturns`, `CallsReturn`,
`JumpReturns`, `EveryCallReturns`), which is out of the prover's reach.
`RegState`, `InstTrace` and the two readers compute with the folds of the community
modules over sequences of records, and so does what `Protocols` and the reader of
transactions make of cells; what these return is not proved. So
`TransactionsReadAsWritten` and the invariants of `TraceViews` (`UserCodeIsComplete`,
`RegistersCarriedOver`, `CopyReadsTheSame`, `BranchesAreTrue`, `ViewsAgree`) stay with
TLC; the latter also compare the readers with what is true of a scene, which is data
of the module that checks them.

## What is not modelled

Bytes: compression, the bit layouts of SATP, page table entries and
opcodes (but for branches), formatting. Plain (uncompressed) and popen'ed streams, but for their
seek. The rings of the instruction, branch and transaction readers are
`SlidingWindow`'s; their seeks into and out of skipped code are in neither. The
ways of a reader's life: an instruction trace's reader is opened once. Copies and
moves of instructions, micro-ops' and bus masters' own accessors, filters, printing.
The components with status "not_modelled" in `PROJECT.json`, with reasons.

## Plan

Done, in this order: streams (`ChunkedReader` with `TraceStream` and its proofs,
`ChunkedWriter`), registry with its proofs, buffered readers with the indexer, page
tables, the header with its proofs, records with their pool (`Records`, `RecordStream`), register state,
instructions and branches (`TraceViews`), protocols and transaction traces with their
proofs.

To do:

1. The life of an instruction trace's reader: open, refused open, close, reopen,
   copyHeader; reopening of the page table reader and the indexer.
2. Seeks of the instruction and branch readers across skipped code, and
   `last_branch_` under them.
3. Plain streams.
