------------------------- MODULE RecordStreamProofs -------------------------
(***************************************************************************)
(* What is read is what was written, for every menu of records, every      *)
(* content of the cache, and every number of records, handles and rewinds. *)
(*                                                                         *)
(* The argument has three parts.                                           *)
(*   - A record packed by a stream and unpacked by one that agrees with it *)
(*     comes out as it was, behind its last cell (RoundTrip), and leaves   *)
(*     the streams in agreement (AgreePassed).                             *)
(*   - The invariant IInv says where in the trace each record starts, that *)
(*     the reader stands at such a place and its stream agrees with what   *)
(*     the writer's was there.  For a rewind it also says what the header  *)
(*     leaves in a stream (HeaderInv) and that nothing behind the header   *)
(*     changes the vector length, the protocol or the features             *)
(*     (SettingsInv).                                                      *)
(*   - Objects, wherever they are, have the shape of their kind, and those *)
(*     that are held hold their record (ObjectsInv).                       *)
(***************************************************************************)
EXTENDS RecordStream, WellFoundedInduction, TLAPS

-----------------------------------------------------------------------------
(* Descriptors and layouts. *)

\* No two kinds share a descriptor.
LEMMA DescriptorsDiffer ==
    ASSUME NEW a \in Kinds, NEW b \in Kinds, Descriptor[a] = Descriptor[b]
    PROVE  a = b
BY DEF Kinds, Descriptor

LEMMA DescriptorIsNat ==
    ASSUME NEW kind \in Kinds PROVE Descriptor[kind] \in Nat
BY DEF Kinds, Descriptor

LEMMA KindOfDescriptor ==
    ASSUME NEW kind \in Kinds PROVE KindOf(Descriptor[kind]) = kind
BY DescriptorsDiffer, Zenon DEF KindOf

LEMMA Layouts ==
    /\ \A kind \in Kinds : Layout[kind].width \in {0, 1, 2} /\ Len(Layout[kind].names) \in Nat
    /\ \A kind \in Opcodes \cup Targets
                   \cup {"FORCE_PC", "VLEN_CONFIG", "PROTOCOL_ID", "TRACE_INFO_FEATURE"} :
          kind \in Kinds /\ Layout[kind].width = 0 /\ Len(Layout[kind].names) = 1
    /\ Layout["INST_REG"].width = 1 /\ Len(Layout["INST_REG"].names) = 3
    /\ Layout["EVENT"].width = 1 /\ Len(Layout["EVENT"].names) = 2
    /\ Len(Layout["PAGE_TABLE_WALK"].names) = 3
BY DEF Kinds, Descriptor, Layout, Opcodes, Targets, Fields, Counted,
       GenericEmptyRecord, GenericSingleDataRecord, GenericPCTargetRecord,
       GenericOpcodeRecord, STFIdentifierRecord, VersionRecord, CommentRecord, ISARecord,
       InstIEMRecord, TraceInfoRecord, TraceInfoFeatureRecord, ProcessIDExtRecord,
       ForcePCRecord, VLenConfigRecord, ProtocolIdRecord, ClockIdRecord, ISAExtendedRecord,
       EndOfHeaderRecord, InstPCTargetRecord, InstRegRecord, InstReadyRegRecord,
       PageTableWalkRecord, InstMemAccessRecord, InstMemContentRecord,
       BusMasterAccessRecord, BusMasterContentRecord, EventRecord, EventPCTargetRecord,
       InstMicroOpRecord, InstOpcode32Record, InstOpcode16Record,
       TransactionDependencyRecord

LEMMA TraceInfoLayout == Len(Layout["TRACE_INFO"].names) = 4
BY DEF Layout, TraceInfoRecord, Counted

-----------------------------------------------------------------------------
(* What a stream remembers. *)

LEMMA TrackedOpcode ==
    ASSUME NEW strm \in Strm, NEW size \in Nat
    PROVE  /\ TrackOpcode(strm, size) \in Strm
           /\ TrackOpcode(strm, size).next_pc =
                  IF strm.is_branch THEN strm.target_pc ELSE strm.next_pc + size
           /\ TrackOpcode(strm, size).pc = strm.next_pc
           /\ TrackOpcode(strm, size).is_branch = FALSE
           /\ TrackOpcode(strm, size).markers = strm.markers
           /\ TrackOpcode(strm, size).vlen = strm.vlen
           /\ TrackOpcode(strm, size).protocol_id = strm.protocol_id
           /\ TrackOpcode(strm, size).has_32bit_events = strm.has_32bit_events
<1>1. TrackOpcode(strm, size) \in Strm
    <2>1. PICK n \in Nat : n = IF strm.is_branch THEN strm.target_pc ELSE strm.next_pc + size
        BY DEF Strm
    <2>2. TrackOpcode(strm, size) =
              [strm EXCEPT !.pc = strm.next_pc, !.next_pc = n, !.is_branch = FALSE]
        BY <2>1 DEF TrackOpcode
    <2>3. [strm EXCEPT !.pc = strm.next_pc, !.next_pc = n, !.is_branch = FALSE] \in Strm
        BY DEF Strm
    <2> QED BY <2>2, <2>3
<1>2. QED BY <1>1 DEF TrackOpcode, Strm

LEMMA PassedOpcode ==
    ASSUME NEW kind \in Opcodes, NEW v, NEW strm \in Strm
    PROVE  /\ Passed(kind, v, strm) \in Strm
           /\ Passed(kind, v, strm).next_pc =
                  IF strm.is_branch THEN strm.target_pc ELSE strm.next_pc + OpcodeSize(kind)
           /\ Passed(kind, v, strm).pc = strm.next_pc
           /\ Passed(kind, v, strm).is_branch = FALSE
           /\ Passed(kind, v, strm).markers = strm.markers + 1
           /\ Passed(kind, v, strm).vlen = strm.vlen
           /\ Passed(kind, v, strm).protocol_id = strm.protocol_id
           /\ Passed(kind, v, strm).has_32bit_events = strm.has_32bit_events
<1>1. Passed(kind, v, strm) = [TrackOpcode(strm, OpcodeSize(kind)) EXCEPT !.markers = @ + 1]
    BY DEF Passed, Opcodes, Targets
<1>2. OpcodeSize(kind) \in Nat
    BY DEF OpcodeSize
<1>3. PICK tracked \in Strm : tracked = TrackOpcode(strm, OpcodeSize(kind))
    BY <1>2, TrackedOpcode
<1>4. Passed(kind, v, strm) = [tracked EXCEPT !.markers = tracked.markers + 1]
    BY <1>1, <1>3 DEF Strm
<1>5. /\ Passed(kind, v, strm) \in Strm
      /\ Passed(kind, v, strm).next_pc = tracked.next_pc
      /\ Passed(kind, v, strm).pc = tracked.pc
      /\ Passed(kind, v, strm).is_branch = tracked.is_branch
      /\ Passed(kind, v, strm).markers = tracked.markers + 1
      /\ Passed(kind, v, strm).vlen = tracked.vlen
      /\ Passed(kind, v, strm).protocol_id = tracked.protocol_id
      /\ Passed(kind, v, strm).has_32bit_events = tracked.has_32bit_events
    BY <1>4 DEF Strm
<1>6. /\ tracked.next_pc =
             IF strm.is_branch THEN strm.target_pc ELSE strm.next_pc + OpcodeSize(kind)
      /\ tracked.pc = strm.next_pc
      /\ tracked.is_branch = FALSE
      /\ tracked.markers = strm.markers
      /\ tracked.vlen = strm.vlen
      /\ tracked.protocol_id = strm.protocol_id
      /\ tracked.has_32bit_events = strm.has_32bit_events
    BY <1>2, <1>3, TrackedOpcode
<1> QED BY <1>5, <1>6

\* The kinds that change what a stream remembers, besides instructions.
Noted == Targets \cup {"FORCE_PC", "VLEN_CONFIG", "PROTOCOL_ID", "TRACE_INFO_FEATURE"}

LEMMA PassedNoted ==
    ASSUME NEW v, NEW strm
    PROVE  /\ Passed("FORCE_PC", v, strm) = [strm EXCEPT !.next_pc = v.fields[1]]
           /\ Passed("VLEN_CONFIG", v, strm) = [strm EXCEPT !.vlen = v.fields[1]]
           /\ Passed("PROTOCOL_ID", v, strm) = [strm EXCEPT !.protocol_id = v.fields[1]]
           /\ Passed("TRACE_INFO_FEATURE", v, strm) =
                [strm EXCEPT !.has_32bit_events = ~ContainEvent64(v.fields[1])]
BY DEF Passed, Opcodes, Targets

LEMMA PassedTarget ==
    ASSUME NEW kind \in Targets, NEW v, NEW strm
    PROVE  Passed(kind, v, strm) = [strm EXCEPT !.target_pc = v.fields[1], !.is_branch = TRUE]
BY DEF Passed, Opcodes, Targets

LEMMA PassedOther ==
    ASSUME NEW kind, kind \notin Opcodes \cup Noted, NEW v, NEW strm
    PROVE  Passed(kind, v, strm) = strm
BY DEF Passed, Noted

LEMMA PassedIsStrm ==
    ASSUME NEW rec, IsRecord(rec), NEW strm \in Strm
    PROVE  Passed(rec.kind, Value(rec), strm) \in Strm
<1>1. CASE rec.kind \in Opcodes
    BY <1>1, PassedOpcode
<1>2. CASE rec.kind \in Noted
    <2>1. PICK n \in Nat : n = rec.fields[1]
        BY <1>2, Layouts DEF IsRecord, HasShape, RecordValues, Noted
    <2>2. Value(rec).fields[1] = n
        BY <2>1 DEF Value
    <2>3. CASE rec.kind \in Targets
        <3>1. [strm EXCEPT !.target_pc = n, !.is_branch = TRUE] \in Strm
            BY DEF Strm
        <3>2. Passed(rec.kind, Value(rec), strm) =
                 [strm EXCEPT !.target_pc = n, !.is_branch = TRUE]
            BY <2>2, <2>3, PassedTarget, Zenon
        <3> QED BY <3>1, <3>2
    <2>4. CASE rec.kind = "FORCE_PC"
        <3>1. [strm EXCEPT !.next_pc = n] \in Strm
            BY DEF Strm
        <3>2. Passed("FORCE_PC", Value(rec), strm) = [strm EXCEPT !.next_pc = n]
            BY <2>2, PassedNoted, Zenon
        <3> QED BY <2>4, <3>1, <3>2
    <2>5. CASE rec.kind = "VLEN_CONFIG"
        <3>1. [strm EXCEPT !.vlen = n] \in Strm
            BY DEF Strm
        <3>2. Passed("VLEN_CONFIG", Value(rec), strm) = [strm EXCEPT !.vlen = n]
            BY <2>2, PassedNoted, Zenon
        <3> QED BY <2>5, <3>1, <3>2
    <2>6. CASE rec.kind = "PROTOCOL_ID"
        <3>1. [strm EXCEPT !.protocol_id = n] \in Strm
            BY DEF Strm
        <3>2. Passed("PROTOCOL_ID", Value(rec), strm) = [strm EXCEPT !.protocol_id = n]
            BY <2>2, PassedNoted, Zenon
        <3> QED BY <2>6, <3>1, <3>2
    <2>7. CASE rec.kind = "TRACE_INFO_FEATURE"
        <3>1. \A b \in BOOLEAN : [strm EXCEPT !.has_32bit_events = b] \in Strm
            BY DEF Strm
        <3>2. Passed("TRACE_INFO_FEATURE", Value(rec), strm) =
                 [strm EXCEPT !.has_32bit_events = ~ContainEvent64(n)]
            BY <2>2, PassedNoted, Zenon
        <3>3. ContainEvent64(n) \in BOOLEAN
            BY DEF ContainEvent64
        <3>4. PICK b \in BOOLEAN : b = ~ContainEvent64(n)
            BY <3>3, Zenon
        <3>5. Passed("TRACE_INFO_FEATURE", Value(rec), strm) =
                 [strm EXCEPT !.has_32bit_events = b]
            BY <3>2, <3>4, Zenon
        <3> QED BY <2>7, <3>1, <3>5
    <2> QED BY <1>2, <2>3, <2>4, <2>5, <2>6, <2>7 DEF Noted
<1>3. CASE rec.kind \notin Opcodes \cup Noted
    <2>1. Passed(rec.kind, Value(rec), strm) = strm
        BY <1>3, PassedOther, Zenon
    <2> QED BY <2>1
<1> QED BY <1>1, <1>2, <1>3

\* What a record does to a stream depends on its fields alone.
LEMMA PassedByFields ==
    ASSUME NEW kind, NEW v, NEW w, v.fields = w.fields, NEW strm
    PROVE  Passed(kind, v, strm) = Passed(kind, w, strm)
BY DEF Passed

\* The reader's stream remembers what the writer's did, but for a target that
\* no branch is waiting for, and the PC of the instruction before.
Agree(r, w) ==
    /\ r.next_pc = w.next_pc
    /\ r.is_branch = w.is_branch
    /\ w.is_branch => r.target_pc = w.target_pc
    /\ r.vlen = w.vlen
    /\ r.markers = w.markers
    /\ r.protocol_id = w.protocol_id
    /\ r.has_32bit_events = w.has_32bit_events

LEMMA AgreePassed ==
    ASSUME NEW kind, NEW v, NEW r \in Strm, NEW w \in Strm, Agree(r, w)
    PROVE  Agree(Passed(kind, v, r), Passed(kind, v, w))
<1>1. CASE kind \in Opcodes
    <2>1. /\ Passed(kind, v, r).next_pc =
                IF r.is_branch THEN r.target_pc ELSE r.next_pc + OpcodeSize(kind)
          /\ Passed(kind, v, w).next_pc =
                IF w.is_branch THEN w.target_pc ELSE w.next_pc + OpcodeSize(kind)
        BY <1>1, PassedOpcode, Zenon
    <2>2. Passed(kind, v, r).next_pc = Passed(kind, v, w).next_pc
        BY <2>1, Zenon DEF Agree
    <2>3. /\ Passed(kind, v, r).markers = r.markers + 1
          /\ Passed(kind, v, w).markers = w.markers + 1
        BY <1>1, PassedOpcode, Zenon
    <2>4. Passed(kind, v, r).markers = Passed(kind, v, w).markers
        BY <2>3, Zenon DEF Agree
    <2>5. /\ Passed(kind, v, r).is_branch = FALSE
          /\ Passed(kind, v, w).is_branch = FALSE
        BY <1>1, PassedOpcode, Zenon
    <2>6. /\ Passed(kind, v, r).vlen = r.vlen /\ Passed(kind, v, w).vlen = w.vlen
          /\ Passed(kind, v, r).protocol_id = r.protocol_id
          /\ Passed(kind, v, w).protocol_id = w.protocol_id
          /\ Passed(kind, v, r).has_32bit_events = r.has_32bit_events
          /\ Passed(kind, v, w).has_32bit_events = w.has_32bit_events
        BY <1>1, PassedOpcode, Zenon
    <2> QED BY <2>2, <2>4, <2>5, <2>6, Zenon DEF Agree
<1>2. CASE kind \in Targets
    BY <1>2 DEF Passed, Agree, Strm, Opcodes, Targets
<1>3. CASE kind = "FORCE_PC"
    BY <1>3 DEF Passed, Agree, Strm, Opcodes, Targets
<1>4. CASE kind = "VLEN_CONFIG"
    BY <1>4 DEF Passed, Agree, Strm, Opcodes, Targets
<1>5. CASE kind = "PROTOCOL_ID"
    BY <1>5 DEF Passed, Agree, Strm, Opcodes, Targets
<1>6. CASE kind = "TRACE_INFO_FEATURE"
    BY <1>6 DEF Passed, Agree, Strm, Opcodes, Targets
<1>7. CASE kind \notin Opcodes \cup Targets
                  \cup {"FORCE_PC", "VLEN_CONFIG", "PROTOCOL_ID", "TRACE_INFO_FEATURE"}
    BY <1>7 DEF Passed, Agree
<1> QED BY <1>1, <1>2, <1>3, <1>4, <1>5, <1>6, <1>7

-----------------------------------------------------------------------------
(* What a record writes is what it reads. *)

\* The cells from "at" on are these.
CellsAre(cells, at, those) ==
    at + Len(those) - 1 <= Len(cells) /\ \A j \in 1 .. Len(those) : cells[at + j - 1] = those[j]

LEMMA ConcatReads ==
    ASSUME NEW cells \in Seq(Nat), NEW at \in Nat \ {0}, NEW s \in Seq(Nat), NEW t \in Seq(Nat),
           CellsAre(cells, at, s \o t)
    PROVE  CellsAre(cells, at, s) /\ CellsAre(cells, at + Len(s), t)
<1>1. Len(s \o t) = Len(s) + Len(t) /\ Len(s) \in Nat /\ Len(t) \in Nat
    OBVIOUS
<1>2. \A j \in 1 .. Len(s) : (s \o t)[j] = s[j]
    OBVIOUS
<1>3. \A j \in 1 .. Len(t) : (s \o t)[Len(s) + j] = t[j]
    OBVIOUS
<1>4. ASSUME NEW j \in 1 .. Len(s) PROVE cells[at + j - 1] = s[j]
    <2>1. j \in 1 .. Len(s \o t)
        BY <1>1
    <2> QED BY <1>2, <2>1 DEF CellsAre
<1>5. ASSUME NEW j \in 1 .. Len(t) PROVE cells[at + Len(s) + j - 1] = t[j]
    <2>1. Len(s) + j \in 1 .. Len(s \o t)
        BY <1>1
    <2>2. cells[at + (Len(s) + j) - 1] = (s \o t)[Len(s) + j]
        BY <2>1 DEF CellsAre
    <2>3. at + (Len(s) + j) - 1 = at + Len(s) + j - 1
        BY <1>1
    <2> QED BY <2>2, <2>3, <1>3
<1>6. at + Len(s) - 1 <= Len(cells) /\ at + Len(s) + Len(t) - 1 <= Len(cells)
    BY <1>1 DEF CellsAre
<1>7. CellsAre(cells, at, s)
    BY <1>4, <1>6 DEF CellsAre
<1>8. CellsAre(cells, at + Len(s), t)
    BY <1>5, <1>6 DEF CellsAre
<1> QED BY <1>7, <1>8

\* Cells that are those of a sequence, cut out.
LEMMA CutOut ==
    ASSUME NEW cells \in Seq(Nat), NEW at \in Nat \ {0}, NEW s \in Seq(Nat), CellsAre(cells, at, s)
    PROVE  SubSeq(cells, at, at + Len(s) - 1) = s
<1> DEFINE c == SubSeq(cells, at, at + Len(s) - 1)
<1>1. at + Len(s) - 1 <= Len(cells) /\ Len(s) \in Nat
    BY DEF CellsAre
<1>2. c \in Seq(Nat) /\ Len(c) = Len(s)
    BY <1>1
<1>3. ASSUME NEW j \in 1 .. Len(s) PROVE c[j] = s[j]
    <2>1. c[j] = cells[at + j - 1]
        BY <1>1
    <2> QED BY <2>1 DEF CellsAre
<1> HIDE DEF c
<1>4. c = [j \in 1 .. Len(s) |-> c[j]]
    BY <1>2
<1>5. s = [j \in 1 .. Len(s) |-> s[j]]
    OBVIOUS
<1>6. [j \in 1 .. Len(s) |-> c[j]] = [j \in 1 .. Len(s) |-> s[j]]
    BY <1>3, Zenon
<1> QED BY <1>4, <1>5, <1>6 DEF c

LEMMA FunctionsAreSequences ==
    ASSUME NEW n \in Nat, NEW f \in [1 .. n -> Nat]
    PROVE  f \in Seq(Nat) /\ Len(f) = n
OBVIOUS

\* Lists of elements one and two cells wide.
LEMMA ElementCellsOfOne ==
    ASSUME NEW list \in Seq(Seq(Nat)), \A i \in 1 .. Len(list) : Len(list[i]) = 1
    PROVE  /\ ElementCells(list, 1) \in Seq(Nat)
           /\ Len(ElementCells(list, 1)) = Len(list)
           /\ \A i \in 1 .. Len(list) : ElementCells(list, 1)[i] = list[i][1]
<1>1. ElementCells(list, 1) = [i \in 1 .. Len(list) |-> list[i][1]]
    <2>1. \A i \in 1 .. Len(list) : ((i - 1) \div 1) + 1 = i /\ ((i - 1) % 1) + 1 = 1
        OBVIOUS
    <2>2. Len(list) * 1 = Len(list)
        OBVIOUS
    <2> QED BY <2>1, <2>2 DEF ElementCells
<1>2. \A i \in 1 .. Len(list) : list[i][1] \in Nat
    OBVIOUS
<1>3. [i \in 1 .. Len(list) |-> list[i][1]] \in [1 .. Len(list) -> Nat]
    BY <1>2
<1>4. Len(list) \in Nat /\ ElementCells(list, 1) \in [1 .. Len(list) -> Nat]
    <2>1. Len(list) \in Nat
        OBVIOUS
    <2> QED BY <1>1, <1>3, <2>1, Zenon
<1>5. ElementCells(list, 1) \in Seq(Nat) /\ Len(ElementCells(list, 1)) = Len(list)
    BY <1>4, FunctionsAreSequences, Zenon
<1> QED BY <1>1, <1>5

LEMMA ElementCellsOfTwo ==
    ASSUME NEW list \in Seq(Seq(Nat)), \A i \in 1 .. Len(list) : Len(list[i]) = 2
    PROVE  /\ ElementCells(list, 2) \in Seq(Nat)
           /\ Len(ElementCells(list, 2)) = Len(list) * 2
           /\ \A i \in 1 .. Len(list) : /\ ElementCells(list, 2)[2 * i - 1] = list[i][1]
                                        /\ ElementCells(list, 2)[2 * i] = list[i][2]
<1> DEFINE c == ElementCells(list, 2)
<1>1. c = [i \in 1 .. Len(list) * 2 |-> list[((i - 1) \div 2) + 1][((i - 1) % 2) + 1]]
    BY DEF ElementCells
<1>2. ASSUME NEW i \in 1 .. Len(list) * 2
      PROVE  list[((i - 1) \div 2) + 1][((i - 1) % 2) + 1] \in Nat
    <2>1. ((i - 1) \div 2) + 1 \in 1 .. Len(list)
        OBVIOUS
    <2>2. ((i - 1) % 2) + 1 \in 1 .. 2
        OBVIOUS
    <2> QED BY <2>1, <2>2
<1>3. c \in Seq(Nat) /\ Len(c) = Len(list) * 2
    <2>1. c \in [1 .. Len(list) * 2 -> Nat]
        BY <1>1, <1>2
    <2>2. Len(list) * 2 \in Nat
        OBVIOUS
    <2> QED BY <2>1, <2>2, FunctionsAreSequences
<1>4. ASSUME NEW i \in 1 .. Len(list)
      PROVE  c[2 * i - 1] = list[i][1] /\ c[2 * i] = list[i][2]
    <2>1. ((2 * i - 2) \div 2) + 1 = i /\ ((2 * i - 2) % 2) + 1 = 1
        OBVIOUS
    <2>2. ((2 * i - 1) \div 2) + 1 = i /\ ((2 * i - 1) % 2) + 1 = 2
        OBVIOUS
    <2>3. 2 * i - 1 \in 1 .. Len(list) * 2 /\ 2 * i \in 1 .. Len(list) * 2
        OBVIOUS
    <2> HIDE DEF c
    <2>4. c[2 * i - 1] = list[((2 * i - 2) \div 2) + 1][((2 * i - 2) % 2) + 1]
        <3>1. (2 * i - 1) - 1 = 2 * i - 2
            OBVIOUS
        <3> QED BY <1>1, <2>3, <3>1
    <2>5. c[2 * i] = list[((2 * i - 1) \div 2) + 1][((2 * i - 1) % 2) + 1]
        BY <1>1, <2>3
    <2> QED BY <2>1, <2>2, <2>4, <2>5
<1> HIDE DEF c
<1> QED BY <1>3, <1>4 DEF c

LEMMA ElementsOfOne ==
    ASSUME NEW list \in Seq(Seq(Nat)), \A i \in 1 .. Len(list) : Len(list[i]) = 1,
           NEW cells \in Seq(Nat), NEW at \in Nat \ {0},
           CellsAre(cells, at, ElementCells(list, 1))
    PROVE  ElementsAt(cells, at, Len(list), 1) = list
<1>1. ASSUME NEW i \in 1 .. Len(list)
      PROVE  SubSeq(cells, at + (i - 1) * 1, at + i * 1 - 1) = list[i]
    <2>1. cells[at + i - 1] = list[i][1] /\ at + i - 1 <= Len(cells)
        <3>1. Len(ElementCells(list, 1)) = Len(list) /\ ElementCells(list, 1)[i] = list[i][1]
            BY ElementCellsOfOne
        <3> QED BY <3>1 DEF CellsAre
    <2>2. Len(list[i]) = 1 /\ list[i] \in Seq(Nat)
        OBVIOUS
    <2>3. CellsAre(cells, at + i - 1, list[i])
        BY <2>1, <2>2 DEF CellsAre
    <2>4. SubSeq(cells, at + i - 1, at + i - 1 + Len(list[i]) - 1) = list[i]
        BY <2>2, <2>3, CutOut
    <2>5. at + (i - 1) * 1 = at + i - 1 /\ at + i * 1 - 1 = at + i - 1 + Len(list[i]) - 1
        BY <2>2
    <2> QED BY <2>4, <2>5
<1>2. [i \in 1 .. Len(list) |-> SubSeq(cells, at + (i - 1) * 1, at + i * 1 - 1)]
         = [i \in 1 .. Len(list) |-> list[i]]
    BY <1>1, Zenon
<1>3. list = [i \in 1 .. Len(list) |-> list[i]]
    OBVIOUS
<1> QED BY <1>2, <1>3, Zenon DEF ElementsAt

LEMMA ElementsOfTwo ==
    ASSUME NEW list \in Seq(Seq(Nat)), \A i \in 1 .. Len(list) : Len(list[i]) = 2,
           NEW cells \in Seq(Nat), NEW at \in Nat \ {0},
           CellsAre(cells, at, ElementCells(list, 2))
    PROVE  ElementsAt(cells, at, Len(list), 2) = list
<1>1. ASSUME NEW i \in 1 .. Len(list)
      PROVE  SubSeq(cells, at + (i - 1) * 2, at + i * 2 - 1) = list[i]
    <2>1. /\ 2 * i - 1 \in 1 .. Len(list) * 2 /\ 2 * i \in 1 .. Len(list) * 2
          /\ at + (2 * i - 1) - 1 = at + 2 * i - 2
        OBVIOUS
    <2>2. /\ Len(ElementCells(list, 2)) = Len(list) * 2
          /\ ElementCells(list, 2)[2 * i - 1] = list[i][1]
          /\ ElementCells(list, 2)[2 * i] = list[i][2]
        BY ElementCellsOfTwo
    <2>3. cells[at + (2 * i - 1) - 1] = list[i][1] /\ cells[at + 2 * i - 1] = list[i][2]
        BY <2>1, <2>2 DEF CellsAre
    <2>4. at + 2 * i - 1 <= Len(cells)
        BY <2>2 DEF CellsAre
    <2>5. Len(list[i]) = 2 /\ list[i] \in Seq(Nat)
        OBVIOUS
    <2>6. CellsAre(cells, at + 2 * i - 2, list[i])
        <3>1. ASSUME NEW j \in 1 .. 2 PROVE cells[at + 2 * i - 2 + j - 1] = list[i][j]
            <4>1. CASE j = 1
                BY <2>1, <2>3, <4>1
            <4>2. CASE j = 2
                <5>1. at + 2 * i - 2 + 2 - 1 = at + 2 * i - 1
                    OBVIOUS
                <5> QED BY <2>3, <4>2, <5>1
            <4> QED BY <4>1, <4>2
        <3> QED BY <2>4, <2>5, <3>1 DEF CellsAre
    <2>7. SubSeq(cells, at + 2 * i - 2, at + 2 * i - 2 + Len(list[i]) - 1) = list[i]
        <3>1. at + 2 * i - 2 \in Nat \ {0}
            OBVIOUS
        <3> QED BY <2>5, <2>6, <3>1, CutOut, Zenon
    <2>8. at + (i - 1) * 2 = at + 2 * i - 2 /\ at + i * 2 - 1 = at + 2 * i - 2 + Len(list[i]) - 1
        BY <2>5
    <2> QED BY <2>7, <2>8
<1>2. [i \in 1 .. Len(list) |-> SubSeq(cells, at + (i - 1) * 2, at + i * 2 - 1)]
         = [i \in 1 .. Len(list) |-> list[i]]
    BY <1>1, Zenon
<1>3. list = [i \in 1 .. Len(list) |-> list[i]]
    OBVIOUS
<1> QED BY <1>2, <1>3, Zenon DEF ElementsAt


LEMMA ShortSequences ==
    ASSUME NEW s \in Seq(Nat)
    PROVE  /\ Len(s) = 2 => s = <<s[1], s[2]>> /\ s[1] \in Nat /\ s[2] \in Nat
           /\ Len(s) = 3 => /\ s = <<s[1], s[2], s[3]>>
                            /\ s[1] \in Nat /\ s[2] \in Nat /\ s[3] \in Nat
OBVIOUS

LEMMA EventCell ==
    ASSUME NEW low \in Nat, low < 64, NEW high \in Nat
    PROVE  /\ low + 64 * high \in Nat
           /\ (low + 64 * high) % 64 = low /\ (low + 64 * high) \div 64 = high
OBVIOUS

LEMMA RegisterCell ==
    ASSUME NEW low \in Nat, low < 16, NEW high \in Nat
    PROVE  /\ high * 16 + low \in Nat
           /\ (high * 16 + low) % 16 = low /\ (high * 16 + low) \div 16 = high
OBVIOUS

IsValue(kind, v) ==
    /\ v.fields \in Seq(Nat) /\ v.list \in Seq(Seq(Nat))
    /\ Len(v.fields) = Len(Layout[kind].names)
    /\ \A i \in 1 .. Len(v.list) : Len(v.list[i]) = Layout[kind].width
    /\ Layout[kind].width = 0 => v.list = <<>>
    /\ kind = "EVENT" => v.fields[1] < TopBit
    /\ kind = "INST_REG" => v.fields[2] < TypeBits

LEMMA ValueOfRecord ==
    ASSUME NEW rec, IsRecord(rec)
    PROVE  IsValue(rec.kind, Value(rec)) /\ rec.kind \in Kinds
BY DEF IsRecord, IsValue, Value, HasShape, RecordValues

LEMMA CellsAreNumbers ==
    ASSUME NEW kind \in Kinds, NEW v, IsValue(kind, v), NEW w
    PROVE  /\ FieldCells(kind, v, w) \in Seq(Nat) /\ ListCells(kind, v) \in Seq(Nat)
           /\ <<Descriptor[kind]>> \o FieldCells(kind, v, w) \in Seq(Nat)
           /\ Len(<<Descriptor[kind]>> \o FieldCells(kind, v, w)) = 1 + Len(FieldCells(kind, v, w))
           /\ Cells(kind, v, w) \in Seq(Nat)
           /\ Len(Cells(kind, v, w)) = 1 + Len(FieldCells(kind, v, w)) + Len(ListCells(kind, v))
           /\ Cells(kind, v, w)[1] = Descriptor[kind]
<1>1. FieldCells(kind, v, w) \in Seq(Nat)
    <2>1. CASE kind = "EVENT" /\ w.has_32bit_events
        <3>1. FieldCells(kind, v, w) = <<v.fields[1] + TopBit * v.fields[2]>>
            BY <2>1 DEF FieldCells
        <3>2. v.fields \in Seq(Nat) /\ Len(v.fields) = 2
            <4>1. kind = "EVENT"
                BY <2>1
            <4> QED BY <4>1, Layouts DEF IsValue
        <3>3. v.fields[1] + TopBit * v.fields[2] \in Nat
            BY <3>2 DEF TopBit
        <3> QED BY <3>1, <3>3
    <2>2. CASE kind = "INST_REG"
        <3>1. FieldCells(kind, v, w) = <<v.fields[1], v.fields[3] * TypeBits + v.fields[2]>>
            BY <2>2 DEF FieldCells
        <3>2. v.fields \in Seq(Nat) /\ Len(v.fields) = 3
            BY <2>2, Layouts DEF IsValue
        <3>3. v.fields[3] * TypeBits + v.fields[2] \in Nat /\ v.fields[1] \in Nat
            BY <3>2 DEF TypeBits
        <3> QED BY <3>1, <3>3
    <2>3. CASE kind # "INST_REG" /\ ~(kind = "EVENT" /\ w.has_32bit_events)
        BY <2>3 DEF FieldCells, IsValue
    <2> QED BY <2>1, <2>2, <2>3
<1>2. ListCells(kind, v) \in Seq(Nat)
    <2> DEFINE width == Layout[kind].width
    <2>1. CASE width = 0
        BY <2>1, Layouts DEF ListCells
    <2>2. width # 0 => width = 1 \/ width = 2
        BY Layouts
    <2>3. ASSUME width # 0 PROVE ElementCells(v.list, width) \in Seq(Nat)
        <3>1. v.list \in Seq(Seq(Nat)) /\ \A i \in 1 .. Len(v.list) : Len(v.list[i]) = width
            BY DEF IsValue
        <3>2. CASE width = 1
            BY <3>1, <3>2, ElementCellsOfOne
        <3>3. CASE width = 2
            BY <3>1, <3>3, ElementCellsOfTwo
        <3> QED BY <2>2, <2>3, <3>2, <3>3
    <2>4. CASE kind = "INST_REG"
        <3>1. width = 1
            BY <2>4, Layouts
        <3>2. ListCells(kind, v) = ElementCells(v.list, width)
            BY <2>4, <3>1 DEF ListCells
        <3> QED BY <2>3, <3>1, <3>2
    <2>5. CASE width # 0 /\ kind # "INST_REG"
        <3>1. ListCells(kind, v) = <<Len(v.list)>> \o ElementCells(v.list, width)
            BY <2>5 DEF ListCells
        <3>2. <<Len(v.list)>> \in Seq(Nat)
            BY DEF IsValue
        <3> QED BY <2>3, <2>5, <3>1, <3>2
    <2> QED BY <2>1, <2>4, <2>5
<1>3. Descriptor[kind] \in Nat
    BY DescriptorIsNat
<1> DEFINE f == FieldCells(kind, v, w)
           l == ListCells(kind, v)
           d == Descriptor[kind]
<1>4. Cells(kind, v, w) = (<<d>> \o f) \o l
    BY DEF Cells
<1>5. f \in Seq(Nat) /\ l \in Seq(Nat) /\ d \in Nat
    BY <1>1, <1>2, <1>3
<1> HIDE DEF f, l, d
<1>6. <<d>> \o f \in Seq(Nat) /\ Len(<<d>> \o f) = 1 + Len(f) /\ (<<d>> \o f)[1] = d
    BY <1>5
<1>7. /\ (<<d>> \o f) \o l \in Seq(Nat)
      /\ Len((<<d>> \o f) \o l) = 1 + Len(f) + Len(l)
      /\ ((<<d>> \o f) \o l)[1] = d
    BY <1>5, <1>6
<1> QED BY <1>4, <1>5, <1>6, <1>7, Zenon DEF f, l, d

\* The fields: an event's top bits share a cell when events are narrow, the type
\* and the operand of a register always do.
LEMMA FieldsRead ==
    ASSUME NEW kind \in Kinds, NEW v, IsValue(kind, v), NEW w, NEW r,
           kind = "EVENT" => (r.has_32bit_events <=> w.has_32bit_events),
           NEW cells \in Seq(Nat), NEW at \in Nat \ {0},
           CellsAre(cells, at, FieldCells(kind, v, w))
    PROVE  /\ FieldCount(kind, r) = Len(FieldCells(kind, v, w))
           /\ FieldsAt(kind, cells, at, r) = v.fields
<1>1. CASE kind = "EVENT" /\ w.has_32bit_events
    <2>1. FieldCells(kind, v, w) = <<v.fields[1] + TopBit * v.fields[2]>>
        BY <1>1 DEF FieldCells
    <2>2. FieldsAt(kind, cells, at, r) = <<cells[at] % TopBit, cells[at] \div TopBit>>
        BY <1>1 DEF FieldsAt
    <2>3. FieldCount(kind, r) = 1
        BY <1>1 DEF FieldCount
    <2>4. /\ v.fields[1] \in Nat /\ v.fields[1] < 64 /\ v.fields[2] \in Nat
          /\ v.fields = <<v.fields[1], v.fields[2]>>
        <3>1. kind = "EVENT"
            BY <1>1
        <3>2. v.fields \in Seq(Nat) /\ Len(v.fields) = 2 /\ v.fields[1] < 64
            BY <3>1, Layouts DEF IsValue, TopBit
        <3> QED BY <3>2, ShortSequences
    <2>5. cells[at] = v.fields[1] + 64 * v.fields[2]
        BY <2>1 DEF CellsAre, TopBit
    <2>6. cells[at] % 64 = v.fields[1] /\ cells[at] \div 64 = v.fields[2]
        <3>1. /\ (v.fields[1] + 64 * v.fields[2]) % 64 = v.fields[1]
              /\ (v.fields[1] + 64 * v.fields[2]) \div 64 = v.fields[2]
            <4>1. PICK low \in Nat, high \in Nat :
                     low < 64 /\ low = v.fields[1] /\ high = v.fields[2]
                BY <2>4, Zenon
            <4>2. (low + 64 * high) % 64 = low /\ (low + 64 * high) \div 64 = high
                BY <4>1, EventCell
            <4> QED BY <4>1, <4>2, Zenon
        <3> QED BY <2>5, <3>1, Zenon
    <2>7. v.fields[1] + 64 * v.fields[2] \in Nat
        BY <2>4, EventCell
    <2> QED BY <2>1, <2>2, <2>3, <2>4, <2>6, <2>7 DEF TopBit
<1>2. CASE kind = "INST_REG"
    <2>1. FieldCells(kind, v, w) = <<v.fields[1], v.fields[3] * TypeBits + v.fields[2]>>
        BY <1>2 DEF FieldCells
    <2>2. FieldsAt(kind, cells, at, r) =
             <<cells[at], cells[at + 1] % TypeBits, cells[at + 1] \div TypeBits>>
        BY <1>2 DEF FieldsAt
    <2>3. FieldCount(kind, r) = 2
        BY <1>2 DEF FieldCount
    <2>4. /\ v.fields[1] \in Nat /\ v.fields[2] \in Nat /\ v.fields[2] < 16
          /\ v.fields[3] \in Nat
          /\ v.fields = <<v.fields[1], v.fields[2], v.fields[3]>>
        <3>1. v.fields \in Seq(Nat) /\ Len(v.fields) = 3 /\ v.fields[2] < 16
            BY <1>2, Layouts DEF IsValue, TypeBits
        <3> QED BY <3>1, ShortSequences
    <2>5. cells[at] = v.fields[1] /\ cells[at + 1] = v.fields[3] * 16 + v.fields[2]
        BY <2>1 DEF CellsAre, TypeBits
    <2>6. cells[at + 1] % 16 = v.fields[2] /\ cells[at + 1] \div 16 = v.fields[3]
        <3>1. /\ (v.fields[3] * 16 + v.fields[2]) % 16 = v.fields[2]
              /\ (v.fields[3] * 16 + v.fields[2]) \div 16 = v.fields[3]
            BY <2>4, RegisterCell
        <3> QED BY <2>5, <3>1, Zenon
    <2>7. v.fields[3] * 16 + v.fields[2] \in Nat
        BY <2>4, RegisterCell
    <2> QED BY <2>1, <2>2, <2>3, <2>4, <2>5, <2>6, <2>7 DEF TypeBits
<1>3. CASE kind # "INST_REG" /\ ~(kind = "EVENT" /\ w.has_32bit_events)
    <2>1. FieldCells(kind, v, w) = v.fields
        BY <1>3 DEF FieldCells
    <2>2. FieldCount(kind, r) = Len(v.fields)
        BY <1>3, Layouts DEF FieldCount, IsValue
    <2>3. FieldsAt(kind, cells, at, r) = SubSeq(cells, at, at + FieldCount(kind, r) - 1)
        BY <1>3 DEF FieldsAt
    <2>4. CellsAre(cells, at, v.fields) /\ v.fields \in Seq(Nat)
        BY <2>1 DEF IsValue
    <2>5. SubSeq(cells, at, at + Len(v.fields) - 1) = v.fields
        BY <2>4, CutOut, Zenon
    <2> QED BY <2>1, <2>2, <2>3, <2>4, <2>5
<1> QED BY <1>1, <1>2, <1>3

\* The list: a vector register's has the length the stream was set to, the
\* others are counted.
LEMMA ListRead ==
    ASSUME NEW kind \in Kinds, NEW v, IsValue(kind, v),
           NEW w, MayPack(kind, v, w), NEW r, r.vlen = w.vlen,
           NEW cells \in Seq(Nat), NEW at \in Nat \ {0},
           NEW object, object.kind = kind,
           CellsAre(cells, at, ListCells(kind, v))
    PROVE  /\ ListCellCount(kind, v.fields, cells, at, r) = Len(ListCells(kind, v))
           /\ ListAt(object, v.fields, cells, at, r) = v.list
<1>1. CASE Layout[kind].width = 0
    BY <1>1, Layouts DEF ListCells, ListCellCount, ListAt, IsValue
<1>2. CASE kind = "INST_REG"
    <2>1. Layout[kind].width = 1 /\ \A i \in 1 .. Len(v.list) : Len(v.list[i]) = 1
        BY <1>2, Layouts DEF IsValue
    <2>2. ListCells(kind, v) = ElementCells(v.list, 1)
        BY <1>2, <2>1 DEF ListCells
    <2>3. /\ ElementCells(v.list, 1) \in Seq(Nat)
          /\ Len(ElementCells(v.list, 1)) = Len(v.list)
        BY <2>1, ElementCellsOfOne DEF IsValue
    <2>4. ElementsAt(cells, at, Len(v.list), 1) = v.list
        <3>1. CellsAre(cells, at, ElementCells(v.list, 1))
            BY <2>2, <2>3
        <3> QED BY <2>1, <3>1, ElementsOfOne DEF IsValue
    <2>5. (IF v.fields[2] = Vector THEN CalcVectorLen(r.vlen) ELSE 1) = Len(v.list)
        BY <1>2 DEF MayPack, VectorIsPackable
    <2>6. /\ ListCellCount(kind, v.fields, cells, at, r) = Len(v.list)
          /\ ListAt(object, v.fields, cells, at, r) = ElementsAt(cells, at, Len(v.list), 1)
        BY <1>2, <2>1, <2>5 DEF ListCellCount, ListAt
    <2> QED BY <2>2, <2>3, <2>4, <2>6
<1>3. CASE Layout[kind].width # 0 /\ kind # "INST_REG"
    <2> DEFINE width == Layout[kind].width
               elements == ElementCells(v.list, width)
    <2>1. \A i \in 1 .. Len(v.list) : Len(v.list[i]) = width
        BY DEF IsValue
    <2>2. width = 1 \/ width = 2
        BY <1>3, Layouts
    <2>3. v.list \in Seq(Seq(Nat)) /\ Len(v.list) \in Nat
        BY DEF IsValue
    <2>4. elements \in Seq(Nat) /\ Len(elements) = Len(v.list) * width
        <3>1. CASE width = 1
            <4>1. Len(v.list) * 1 = Len(v.list)
                BY <2>3
            <4> QED BY <2>1, <2>3, <3>1, <4>1, ElementCellsOfOne
        <3>2. CASE width = 2
            BY <2>1, <2>3, <3>2, ElementCellsOfTwo
        <3> QED BY <2>2, <3>1, <3>2
    <2>5. ListCells(kind, v) = <<Len(v.list)>> \o elements
        BY <1>3 DEF ListCells
    <2>6. ListCells(kind, v) \in Seq(Nat) /\ Len(ListCells(kind, v)) = 1 + Len(v.list) * width
        <3> HIDE DEF elements
        <3>1. <<Len(v.list)>> \o elements \in Seq(Nat)
            BY <2>3, <2>4
        <3>2. Len(<<Len(v.list)>> \o elements) = 1 + Len(elements)
            BY <2>3, <2>4
        <3> QED BY <2>4, <2>5, <3>1, <3>2
    <2>7. CellsAre(cells, at, <<Len(v.list)>>) /\ CellsAre(cells, at + 1, elements)
        <3>1. <<Len(v.list)>> \in Seq(Nat) /\ Len(<<Len(v.list)>>) = 1
            BY <2>3
        <3>2. CellsAre(cells, at, <<Len(v.list)>> \o elements)
            BY <2>5, <2>6
        <3> HIDE DEF elements
        <3> QED BY <2>4, <3>1, <3>2, ConcatReads
    <2>8. cells[at] = Len(v.list)
        BY <2>7 DEF CellsAre
    <2>9. ElementsAt(cells, at + 1, Len(v.list), width) = v.list
        <3>0. at + 1 \in Nat \ {0}
            OBVIOUS
        <3>1. CASE width = 1
            BY <2>1, <2>3, <2>7, <3>0, <3>1, ElementsOfOne
        <3>2. CASE width = 2
            BY <2>1, <2>3, <2>7, <3>0, <3>2, ElementsOfTwo
        <3> QED BY <2>2, <3>1, <3>2
    <2>10. /\ ListCellCount(kind, v.fields, cells, at, r) = 1 + cells[at] * width
           /\ ListAt(object, v.fields, cells, at, r) = ElementsAt(cells, at + 1, cells[at], width)
        BY <1>3 DEF ListCellCount, ListAt
    <2> QED BY <2>6, <2>8, <2>9, <2>10
<1> QED BY <1>1, <1>2, <1>3

\* An object unpacked where a record was packed becomes that record.
Objects == [kind : Kinds, fields : Seq(Nat), list : Seq(Seq(Nat)),
            memo : Seq(Nat \cup {FloorLog2(n) : n \in Nat})]

\* The writer's stream took the record, the reader's agrees with it, and there
\* is an object of the record's kind.
Meet(rec, w, r, object) ==
    /\ IsRecord(rec) /\ w \in Strm /\ MayPack(rec.kind, Value(rec), w)
    /\ r \in Strm /\ Agree(r, w)
    /\ object \in Objects /\ object.kind = rec.kind

Becomes(u, rec, w, r, object, at) ==
    /\ u.ok
    /\ u.object = [object EXCEPT !.fields = rec.fields, !.list = rec.list,
                                 !.memo = Memo(object, rec.fields, r)]
    /\ u.next = at + Len(Cells(rec.kind, Value(rec), Passed(rec.kind, Value(rec), w)))
    /\ u.strm = Passed(rec.kind, Value(rec), r)

LEMMA RoundTrip ==
    ASSUME NEW rec, NEW w, NEW r, NEW object, Meet(rec, w, r, object),
           NEW cells \in Seq(Nat), NEW at \in Nat \ {0},
           CellsAre(cells, at, Cells(rec.kind, Value(rec), Passed(rec.kind, Value(rec), w))),
           NEW u, u = Unpack(object, cells, at + 1, r)
    PROVE  Becomes(u, rec, w, r, object, at)
<1> DEFINE kind == rec.kind
           v == Value(rec)
           b == Passed(kind, v, w)
           f == FieldCells(kind, v, b)
           l == ListCells(kind, v)
           d == <<Descriptor[kind]>>
<1>0. /\ IsRecord(rec) /\ w \in Strm /\ MayPack(rec.kind, v, w)
      /\ r \in Strm /\ Agree(r, w) /\ object \in Objects /\ object.kind = kind
    BY DEF Meet
<1>1. IsValue(kind, v) /\ kind \in Kinds /\ v.fields = rec.fields /\ v.list = rec.list
    BY <1>0, ValueOfRecord DEF Value
<1>2. /\ f \in Seq(Nat) /\ l \in Seq(Nat) /\ d \o f \in Seq(Nat) /\ Len(d \o f) = 1 + Len(f)
      /\ Cells(kind, v, b) = (d \o f) \o l /\ Len(Cells(kind, v, b)) = 1 + Len(f) + Len(l)
    BY <1>1, CellsAreNumbers DEF Cells
<1>3. d \in Seq(Nat) /\ Len(d) = 1
    BY <1>1, DescriptorIsNat
<1>4. kind = "EVENT" => (r.has_32bit_events <=> b.has_32bit_events)
    <2>1. ASSUME kind = "EVENT" PROVE b = w
        BY <2>1, PassedOther DEF Opcodes, Noted, Targets
    <2> QED BY <1>0, <2>1, Zenon DEF Agree
<1>5. r.vlen = w.vlen
    BY <1>0 DEF Agree
<1>6. MayPack(kind, v, w)
    BY <1>0
<1>7. CellsAre(cells, at, (d \o f) \o l)
    BY <1>2
<1> HIDE DEF kind, v, b, f, l, d
<1>8. CellsAre(cells, at, d \o f) /\ CellsAre(cells, at + Len(d \o f), l)
    BY <1>2, <1>7, ConcatReads, Zenon
<1>9. CellsAre(cells, at + 1, f)
    BY <1>2, <1>3, <1>8, ConcatReads
<1>10. at + 1 \in Nat \ {0} /\ at + 1 + Len(f) \in Nat \ {0}
    BY <1>2
<1>11. FieldCount(kind, r) = Len(f) /\ FieldsAt(kind, cells, at + 1, r) = v.fields
    BY <1>1, <1>4, <1>9, <1>10, FieldsRead, Zenon DEF f
<1>12. CellsAre(cells, at + 1 + Len(f), l)
    BY <1>2, <1>8
<1>13. /\ ListCellCount(kind, v.fields, cells, at + 1 + Len(f), r) = Len(l)
       /\ ListAt(object, v.fields, cells, at + 1 + Len(f), r) = v.list
    <2>1. object.kind = kind
        BY <1>0
    <2>2. CellsAre(cells, at + 1 + Len(f), ListCells(kind, v))
        BY <1>12 DEF l
    <2>3. PICK here \in Nat \ {0} : here = at + 1 + Len(f)
        BY <1>10
    <2>4. CellsAre(cells, here, ListCells(kind, v))
        BY <2>2, <2>3
    <2>5. /\ ListCellCount(kind, v.fields, cells, here, r) = Len(ListCells(kind, v))
          /\ ListAt(object, v.fields, cells, here, r) = v.list
        BY <1>1, <1>5, <1>6, <2>1, <2>4, ListRead
    <2> QED BY <2>3, <2>5 DEF l
<1>14. MayUnpack(kind, v.fields, r)
    <2>1. kind = "VLEN_CONFIG" => MaySetVLen(r, v.fields[1])
        BY <1>5, <1>6 DEF MayPack, MaySetVLen
    <2>2. kind = "INST_REG" /\ v.fields[2] = Vector => r.vlen # 0 /\ CalcVectorLen(r.vlen) > 1
        BY <1>5, <1>6 DEF MayPack, VectorIsPackable
    <2> QED BY <2>1, <2>2 DEF MayUnpack
<1>15. object.kind = kind /\ object \in Objects
    BY <1>0
<1>16. /\ u.ok = MayUnpack(kind, v.fields, r)
       /\ u.object = [object EXCEPT !.fields = v.fields, !.list = v.list,
                                    !.memo = Memo(object, v.fields, r)]
       /\ u.next = at + 1 + Len(f) + Len(l)
       /\ u.strm = Passed(kind, [fields |-> v.fields], r)
    BY <1>11, <1>13, <1>15 DEF Unpack
<1>17. Passed(kind, [fields |-> v.fields], r) = Passed(kind, v, r)
    <2>1. [fields |-> v.fields].fields = v.fields
        OBVIOUS
    <2> QED BY <2>1, PassedByFields, Zenon
<1>18. u.next = at + Len(Cells(kind, v, b))
    BY <1>2, <1>16
<1> QED
    BY <1>1, <1>14, <1>16, <1>17, <1>18 DEF Becomes, kind, v, b

-----------------------------------------------------------------------------
(* The inductive invariant. *)

\* What the stream remembered behind the first k records.
StrmAt(k) == IF k = 0 THEN NewStream ELSE log[k].strm

\* The records in the trace are those of the menu, each packed by the stream
\* as the one before left it.
EntryOK(k) ==
    /\ IsRecord(log[k].rec)
    /\ MayPack(log[k].rec.kind, Value(log[k].rec), StrmAt(k - 1))
    /\ log[k].strm = Passed(log[k].rec.kind, Value(log[k].rec), StrmAt(k - 1))
    /\ k <= Len(menu.header) => log[k].rec = menu.header[k]
    /\ k > Len(menu.header) => log[k].rec \in menu.body
LogInv ==
    /\ menu \in Menus
    /\ trace \in Seq(Nat)
    /\ log \in Seq([rec : RecordValues, strm : Strm])
    /\ writer = StrmAt(Len(log))
    /\ \A k \in 1 .. Len(log) : EntryOK(k)

\* In the header there are no markers and no branches, and the next PC is that
\* of the last FORCE_PC.
Forced(k) == {i \in 1 .. k : menu.header[i].kind = "FORCE_PC"}
ForcedPC(k) == IF Forced(k) = {} THEN 0 ELSE menu.header[Newest(Forced(k))].fields[1]
HeaderStrm(k) ==
    /\ StrmAt(k).markers = 0
    /\ StrmAt(k).is_branch = FALSE
    /\ StrmAt(k).next_pc = ForcedPC(k)
HeaderInv == \A k \in 0 .. Len(log) : k <= Len(menu.header) => HeaderStrm(k)

\* A vector length that was set stays set, and behind the header nothing a
\* stream keeps to changes.
SameSettings(s, t) ==
    s.vlen = t.vlen /\ s.protocol_id = t.protocol_id /\ s.has_32bit_events = t.has_32bit_events
VLenSet(k) == \E i \in 1 .. k : log[i].rec.kind = "VLEN_CONFIG"
Settled(k) ==
    /\ VLenSet(k) => StrmAt(k).vlen # 0
    /\ k >= Len(menu.header) => SameSettings(StrmAt(k), StrmAt(Len(menu.header)))
SettingsInv == \A k \in 0 .. Len(log) : Settled(k)

\* Where the records start in the trace; the reader is at the start of one.
CellsOf(k) == Cells(log[k].rec.kind, Value(log[k].rec), log[k].strm)
Starts(b) ==
    /\ b \in Seq(Nat \ {0}) /\ Len(b) = Len(log) + 1
    /\ b[1] = 1 /\ b[Len(log) + 1] = Len(trace) + 1
    /\ \A k \in 1 .. Len(log) :
          b[k + 1] = b[k] + Len(CellsOf(k)) /\ CellsAre(trace, b[k], CellsOf(k))
    /\ \A k \in 1 .. Len(log) + 1 : b[k] <= Len(trace) + 1
    /\ pos = b[count + 1] /\ start.pos = b[start.count + 1]

ReaderInv ==
    /\ stage \in {"writing", "refused", "reading"}
    /\ count \in 0 .. Len(log)
    /\ start \in [pos : Nat, count : Nat]
    /\ start.count <= Len(menu.header) /\ start.count <= Len(log)
    /\ reader \in Strm /\ Agree(reader, StrmAt(count))
    /\ stage = "reading" => ~HeaderLeft
    /\ stage # "reading" => count = 0 /\ start = [pos |-> 1, count |-> 0] /\ held = <<>>

\* An object holds the record of an entry.
Holds(object, entry) ==
    /\ object.kind = entry.rec.kind
    /\ Value(object) = Value(entry.rec)
    /\ HasMemo(entry.rec) => object.memo = MemoOf(entry)
HoldsOwn(h, entries) ==
    HasShape(h.object) /\ h.number \in 1 .. Len(entries) /\ Holds(h.object, entries[h.number])
ObjectsInv ==
    /\ cache \in Seq(Objects)
    /\ \A i \in 1 .. Len(cache) : HasShape(cache[i])
    /\ held \in Seq([object : Objects, number : Nat])
    /\ \A i \in 1 .. Len(held) : HoldsOwn(held[i], log)

IInv == LogInv /\ HeaderInv /\ SettingsInv /\ (\E b : Starts(b)) /\ ReaderInv /\ ObjectsInv

-----------------------------------------------------------------------------
(* Objects and the cache. *)

\* A set of natural numbers has a least element.
LEMMA SmallerInRelation ==
    ASSUME NEW R, NEW T \in SUBSET Nat, T # {},
           \A x, y \in Nat : y < x => <<y, x>> \in R, IsWellFoundedOn(R, Nat)
    PROVE  \E x \in T : \A y \in T : x <= y
<1>1. PICK x \in T : \A y \in T : ~(<<y, x>> \in R)
    BY WFMin
<1>2. \A y \in T : ~(y < x)
    BY <1>1, Zenon
<1>3. \A y \in T : x <= y
    BY <1>2, SMT
<1> QED
    BY <1>3

LEMMA LeastElement ==
    ASSUME NEW T \in SUBSET Nat, T # {}
    PROVE  \E x \in T : \A y \in T : x <= y
<1>1. \E R : IsWellFoundedOn(R, Nat) /\ \A x, y \in Nat : y < x => <<y, x>> \in R
    <2>1. \A x, y \in Nat : y < x => <<y, x>> \in OpToRel(<, Nat)
        BY DEF OpToRel
    <2> QED
        BY NatLessThanWellFounded, <2>1, Zenon
<1> QED
    BY <1>1, SmallerInRelation

\* A bounded one has a greatest element, too.
LEMMA GreatestElement ==
    ASSUME NEW n \in Nat, NEW T \in SUBSET (0..n), T # {}
    PROVE  \E x \in T : \A y \in T : y <= x
<1> DEFINE D == {d \in Nat : n - d \in T}
<1>1. D \in SUBSET Nat /\ D # {}
    <2>1. PICK x \in T : TRUE
        OBVIOUS
    <2>2. n - x \in Nat /\ n - (n - x) = x
        BY <2>1
    <2> QED
        BY <2>1, <2>2
<1>2. PICK d \in D : \A e \in D : d <= e
    <2> HIDE DEF D
    <2> QED
        BY <1>1, LeastElement
<1>3. ASSUME NEW y \in T PROVE y <= n - d
    <2>1. y \in 0..n /\ n - y \in Nat /\ n - (n - y) = y
        OBVIOUS
    <2>2. n - y \in D
        BY <2>1
    <2>3. d <= n - y /\ d \in Nat
        BY <1>2, <2>2
    <2> QED
        BY <2>1, <2>3
<1>4. n - d \in T
    BY <1>2
<1> QED
    BY <1>3, <1>4

LEMMA NewestIsOne ==
    ASSUME NEW n \in Nat, NEW indices \in SUBSET (1 .. n), indices # {}
    PROVE  Newest(indices) \in indices
<1>1. indices \in SUBSET (0 .. n)
    OBVIOUS
<1>2. \E i \in indices : \A j \in indices : j <= i
    BY <1>1, GreatestElement
<1> QED BY <1>2, Zenon DEF Newest

LEMMA NewObjects ==
    ASSUME NEW kind \in Kinds
    PROVE  NewObject(kind) \in Objects /\ NewObject(kind).kind = kind
<1>1. Len(Layout[kind].names) \in Nat
    BY Layouts
<1>2. Zeros(Len(Layout[kind].names)) \in Seq(Nat)
    BY <1>1 DEF Zeros
<1>3. << <<0>> >> \in Seq(Seq(Nat)) /\ <<>> \in Seq(Seq(Nat))
    OBVIOUS
<1>4. (IF kind = "INST_REG" THEN << <<0>> >> ELSE <<>>) \in Seq(Seq(Nat))
    BY <1>3, Zenon
<1>5. <<>> \in Seq(Nat \cup {FloorLog2(n) : n \in Nat})
    OBVIOUS
<1> QED BY <1>2, <1>4, <1>5 DEF NewObject, Objects

LEMMA PoppedObjects ==
    ASSUME cache \in Seq(Objects), NEW kind \in Kinds
    PROVE  Popped(kind) \in Objects /\ Popped(kind).kind = kind
<1>1. CASE OfKind(kind) = {}
    BY <1>1, NewObjects DEF Popped
<1>2. CASE OfKind(kind) # {}
    <2>1. OfKind(kind) \in SUBSET (1 .. Len(cache)) /\ Len(cache) \in Nat
        BY DEF OfKind
    <2>2. Newest(OfKind(kind)) \in OfKind(kind)
        BY <1>2, <2>1, NewestIsOne
    <2>3. PICK i \in 1 .. Len(cache) : i = Newest(OfKind(kind)) /\ cache[i].kind = kind
        BY <2>2 DEF OfKind
    <2>4. Popped(kind) = cache[i]
        BY <1>2, <2>3 DEF Popped
    <2> QED BY <2>3, <2>4
<1> QED BY <1>1, <1>2

\* Taking one element out of a sequence.
LEMMA WithoutFacts ==
    ASSUME NEW S, NEW seq \in Seq(S), NEW i \in 1 .. Len(seq)
    PROVE  /\ Without(seq, i) \in Seq(S)
           /\ \A j \in 1 .. Len(Without(seq, i)) :
                 \E k \in 1 .. Len(seq) : Without(seq, i)[j] = seq[k]
<1> DEFINE a == SubSeq(seq, 1, i - 1)
           c == SubSeq(seq, i + 1, Len(seq))
<1>1. a \in Seq(S) /\ Len(a) = i - 1 /\ \A j \in 1 .. i - 1 : a[j] = seq[j]
    OBVIOUS
<1>2. c \in Seq(S) /\ Len(c) = Len(seq) - i /\ \A j \in 1 .. Len(seq) - i : c[j] = seq[j + i]
    OBVIOUS
<1>3. Without(seq, i) = a \o c
    BY DEF Without
<1> HIDE DEF a, c
<1>4. a \o c \in Seq(S) /\ Len(a \o c) = Len(seq) - 1
    <2>1. a \o c \in Seq(S)
        BY <1>1, <1>2
    <2>2. Len(a \o c) = Len(a) + Len(c)
        <3>1. a \in Seq(S) /\ c \in Seq(S)
            BY <1>1, <1>2
        <3> QED BY <3>1
    <2>3. Len(seq) \in Nat
        OBVIOUS
    <2> QED BY <1>1, <1>2, <2>1, <2>2, <2>3
<1>5. ASSUME NEW j \in 1 .. Len(seq) - 1
      PROVE  \E k \in 1 .. Len(seq) : (a \o c)[j] = seq[k]
    <2>1. CASE j <= i - 1
        <3>1. (a \o c)[j] = a[j]
            BY <1>1, <1>2, <2>1
        <3>2. j \in 1 .. i - 1 /\ j \in 1 .. Len(seq)
            BY <2>1
        <3> QED BY <1>1, <3>1, <3>2
    <2>2. CASE j > i - 1
        <3>1. (a \o c)[j] = c[j - (i - 1)]
            BY <1>1, <1>2, <2>2
        <3>2. PICK m \in 1 .. Len(seq) - i : m = j - (i - 1)
            BY <2>2
        <3>3. m + i \in 1 .. Len(seq)
            OBVIOUS
        <3>4. (a \o c)[j] = seq[m + i]
            BY <1>2, <3>1, <3>2
        <3> QED BY <3>3, <3>4
    <2>3. j <= i - 1 \/ j > i - 1
        OBVIOUS
    <2> QED BY <2>1, <2>2, <2>3, Zenon
<1> QED BY <1>3, <1>4, <1>5

LEMMA AppendFacts ==
    ASSUME NEW S, NEW seq \in Seq(S), NEW x \in S
    PROVE  /\ Append(seq, x) \in Seq(S) /\ Len(Append(seq, x)) = Len(seq) + 1
           /\ Len(seq) \in Nat
           /\ Append(seq, x)[Len(seq) + 1] = x
           /\ \A i \in 1 .. Len(seq) : Append(seq, x)[i] = seq[i]
OBVIOUS

-----------------------------------------------------------------------------
(* Initial states, and steps that write nothing. *)

LEMMA HeaderFacts ==
    ASSUME menu \in Menus
    PROVE  /\ menu.header \in Seq(RecordValues) /\ Len(menu.header) \in Nat
           /\ \A i \in 1 .. Len(menu.header) :
                 IsRecord(menu.header[i]) /\ menu.header[i].kind \notin Opcodes \cup Targets
           /\ \A rec \in menu.body :
                 IsRecord(rec) /\ rec.kind \notin {"PROTOCOL_ID", "TRACE_INFO_FEATURE"}
           /\ \A rec \in menu.body : rec.kind = "VLEN_CONFIG" =>
                 \E i \in 1 .. Len(menu.header) : menu.header[i].kind = "VLEN_CONFIG"
BY MenusAreRecords DEF MenusAssumption

LEMMA LeftoversFit ==
    ASSUME NEW objects \in Leftovers
    PROVE  objects \in Seq(Objects) /\ \A i \in 1 .. Len(objects) : HasShape(objects[i])
<1> DEFINE Old == [kind : Kinds, fields : Seq(Nat), list : Seq(Seq(Nat)), memo : Seq(Nat)]
<1>1. objects \in Seq(Old) /\ \A i \in 1 .. Len(objects) : HasShape(objects[i])
    BY LeftoversAreObjects DEF LeftoversAssumption
<1>2. Seq(Nat) \subseteq Seq(Nat \cup {FloorLog2(n) : n \in Nat})
    OBVIOUS
<1>3. Old \subseteq Objects
    BY <1>2 DEF Objects
<1> HIDE DEF Old
<1>4. objects \in Seq(Objects)
    BY <1>1, <1>3
<1> QED BY <1>1, <1>4

LEMMA NewStreamIsStrm ==
    /\ NewStream \in Strm
    /\ NewStream.markers = 0 /\ NewStream.is_branch = FALSE /\ NewStream.next_pc = 0
BY DEF NewStream, Strm

LEMMA InitInv == Init => IInv
<1> SUFFICES ASSUME Init PROVE IInv
    OBVIOUS
<1>1. /\ menu \in Menus /\ trace = <<>> /\ log = <<>> /\ writer = NewStream
      /\ stage = "writing" /\ pos = 1 /\ count = 0 /\ start = [pos |-> 1, count |-> 0]
      /\ reader = NewStream /\ cache \in Leftovers /\ held = <<>>
    BY DEF Init
<1>2. LogInv
    BY <1>1 DEF LogInv, StrmAt
<1>3. Len(log) = 0
    BY <1>1
<1>4. HeaderInv
    <2>1. Forced(0) = {}
        BY DEF Forced
    <2>2. ForcedPC(0) = 0
        BY <2>1 DEF ForcedPC
    <2>3. HeaderStrm(0)
        BY <2>2, NewStreamIsStrm DEF HeaderStrm, StrmAt
    <2> QED BY <1>3, <2>3 DEF HeaderInv
<1>5. SettingsInv
    <2>1. ~VLenSet(0)
        BY DEF VLenSet
    <2>2. 0 >= Len(menu.header) => Len(menu.header) = 0
        BY <1>1, HeaderFacts
    <2>3. SameSettings(StrmAt(0), StrmAt(0))
        BY DEF SameSettings
    <2> QED BY <1>3, <2>1, <2>2, <2>3 DEF SettingsInv, Settled
<1>6. \E b : Starts(b)
    <2>1. <<1>> \in Seq(Nat \ {0}) /\ Len(<<1>>) = 1 /\ <<1>>[1] = 1 /\ Len(trace) = 0
        BY <1>1
    <2>2. start.pos = 1 /\ start.count = 0
        BY <1>1
    <2>3. Starts(<<1>>)
        BY <1>1, <1>3, <2>1, <2>2 DEF Starts
    <2> QED BY <2>3
<1>7. ReaderInv
    <2>1. Agree(reader, StrmAt(count))
        BY <1>1 DEF Agree, StrmAt
    <2>2. Len(menu.header) \in Nat
        BY <1>1, HeaderFacts
    <2>3. start \in [pos : Nat, count : Nat] /\ start.count = 0
        BY <1>1
    <2>4. 0 <= Len(menu.header)
        BY <2>2
    <2>5. reader \in Strm
        BY <1>1, NewStreamIsStrm
    <2>6. count \in 0 .. Len(log) /\ start.count <= Len(menu.header) /\ start.count <= Len(log)
        BY <1>1, <1>3, <2>3, <2>4
    <2> QED BY <1>1, <2>1, <2>3, <2>5, <2>6 DEF ReaderInv
<1>8. ObjectsInv
    <2>1. held \in Seq([object : Objects, number : Nat]) /\ Len(held) = 0
        BY <1>1
    <2> QED BY <1>1, <2>1, LeftoversFit DEF ObjectsInv
<1> QED BY <1>2, <1>4, <1>5, <1>6, <1>7, <1>8 DEF IInv

LEMMA WrittenKept ==
    ASSUME LogInv, HeaderInv, SettingsInv, UNCHANGED written
    PROVE  LogInv' /\ HeaderInv' /\ SettingsInv'
<1> USE DEF written
<1>1. LogInv'
    BY DEF LogInv, EntryOK, StrmAt
<1>2. HeaderInv'
    BY DEF HeaderInv, HeaderStrm, StrmAt, ForcedPC, Forced
<1>3. SettingsInv'
    BY DEF SettingsInv, Settled, VLenSet, StrmAt
<1> QED BY <1>1, <1>2, <1>3

LEMMA StartsKept ==
    ASSUME NEW b, Starts(b), UNCHANGED written,
           pos' = b[count' + 1], start'.pos = b[start'.count + 1]
    PROVE  (\E c : Starts(c))'
<1>1. Starts(b)'
    BY DEF Starts, CellsOf, written
<1> QED BY <1>1

LEMMA ObjectsKept ==
    ASSUME ObjectsInv, UNCHANGED <<written, cache, held>>
    PROVE  ObjectsInv'
BY DEF ObjectsInv, HoldsOwn, written

LEMMA NothingMoves ==
    ASSUME IInv, UNCHANGED <<written, pos, count, start, reader, cache, held>>,
           stage' \in {"writing", "refused", "reading"},
           stage' = "reading" => ~HeaderLeft, stage' # "reading" => stage # "reading"
    PROVE  IInv'
<1>1. LogInv' /\ HeaderInv' /\ SettingsInv'
    BY WrittenKept DEF IInv
<1>2. (\E b : Starts(b))'
    <2>1. PICK b : Starts(b)
        BY DEF IInv
    <2>2. pos' = b[count' + 1] /\ start'.pos = b[start'.count + 1]
        BY <2>1 DEF Starts
    <2> QED BY <2>1, <2>2, StartsKept
<1>3. ReaderInv'
    BY DEF IInv, ReaderInv, StrmAt, HeaderLeft, written
<1>4. ObjectsInv'
    BY ObjectsKept DEF IInv
<1> QED BY <1>1, <1>2, <1>3, <1>4 DEF IInv

-----------------------------------------------------------------------------
(* Handles that are dropped or asked, and rewinds. *)

HeldObjects == [object : Objects, number : Nat]

LEMMA ObjectsMove ==
    ASSUME IInv, UNCHANGED <<written, stage, pos, count, start, reader>>, held # <<>>,
           ObjectsInv'
    PROVE  IInv'
<1>1. LogInv' /\ HeaderInv' /\ SettingsInv'
    BY WrittenKept DEF IInv
<1>2. (\E b : Starts(b))'
    <2>1. PICK b : Starts(b)
        BY DEF IInv
    <2>2. pos' = b[count' + 1] /\ start'.pos = b[start'.count + 1]
        BY <2>1 DEF Starts
    <2> QED BY <2>1, <2>2, StartsKept
<1>3. ReaderInv'
    <2>1. stage = "reading"
        BY DEF IInv, ReaderInv
    <2> QED BY <2>1 DEF IInv, ReaderInv, StrmAt, HeaderLeft, written
<1> QED BY <1>1, <1>2, <1>3 DEF IInv

LEMMA HeldWithout ==
    ASSUME ObjectsInv, UNCHANGED written, NEW i \in 1 .. Len(held), held' = Without(held, i)
    PROVE  /\ held' \in Seq(HeldObjects)
           /\ \A j \in 1 .. Len(held') : HoldsOwn(held'[j], log)
<1>1. held \in Seq(HeldObjects)
    BY DEF ObjectsInv, HeldObjects
<1>2. /\ held' \in Seq(HeldObjects)
      /\ \A j \in 1 .. Len(held') : \E k \in 1 .. Len(held) : held'[j] = held[k]
    BY <1>1, WithoutFacts
<1>3. ASSUME NEW j \in 1 .. Len(held') PROVE HoldsOwn(held'[j], log)
    <2>1. PICK k \in 1 .. Len(held) : held'[j] = held[k]
        BY <1>2
    <2>2. PICK h : h = held[k] /\ HoldsOwn(h, log)
        BY DEF ObjectsInv
    <2> QED BY <2>1, <2>2
<1> QED BY <1>2, <1>3

LEMMA HeldFacts ==
    ASSUME ObjectsInv, NEW i \in 1 .. Len(held)
    PROVE  /\ held[i] \in HeldObjects /\ held[i].object \in Objects
           /\ HasShape(held[i].object) /\ HoldsOwn(held[i], log) /\ held # <<>>
<1>1. held \in Seq(HeldObjects)
    BY DEF ObjectsInv, HeldObjects
<1>2. held[i] \in HeldObjects /\ held # <<>>
    BY <1>1
<1>3. HoldsOwn(held[i], log)
    BY DEF ObjectsInv
<1> QED BY <1>2, <1>3 DEF HoldsOwn, HeldObjects

LEMMA CacheAddedFacts ==
    ASSUME ObjectsInv, NEW object \in Objects, HasShape(object)
    PROVE  /\ CacheAdded(object) \in Seq(Objects)
           /\ \A i \in 1 .. Len(CacheAdded(object)) : HasShape(CacheAdded(object)[i])
<1>1. cache \in Seq(Objects) /\ \A i \in 1 .. Len(cache) : HasShape(cache[i])
    BY DEF ObjectsInv
<1>2. CacheAdded(object) = cache \/ CacheAdded(object) = Append(cache, object)
    BY Zenon DEF CacheAdded
<1>3. /\ Append(cache, object) \in Seq(Objects)
      /\ \A i \in 1 .. Len(Append(cache, object)) : HasShape(Append(cache, object)[i])
    <2>1. /\ Append(cache, object) \in Seq(Objects)
          /\ Len(Append(cache, object)) = Len(cache) + 1 /\ Len(cache) \in Nat
          /\ Append(cache, object)[Len(cache) + 1] = object
          /\ \A i \in 1 .. Len(cache) : Append(cache, object)[i] = cache[i]
        BY <1>1, AppendFacts
    <2>2. ASSUME NEW i \in 1 .. Len(cache) + 1 PROVE HasShape(Append(cache, object)[i])
        <3>1. CASE i \in 1 .. Len(cache)
            BY <1>1, <2>1, <3>1
        <3>2. CASE i = Len(cache) + 1
            BY <2>1, <3>2
        <3> QED BY <2>1, <3>1, <3>2
    <2> QED BY <2>1, <2>2
<1> QED BY <1>1, <1>2, <1>3

LEMMA ReleaseKeeps ==
    ASSUME IInv, NEW i \in 1 .. Len(held), Release(i) PROVE IInv'
<1>1. /\ held' = Without(held, i) /\ cache' = CacheAdded(held[i].object)
      /\ UNCHANGED <<written, stage, pos, count, start, reader>>
    BY DEF Release
<1>2. ObjectsInv
    BY DEF IInv
<1>3. held[i].object \in Objects /\ HasShape(held[i].object) /\ held # <<>>
    BY <1>2, HeldFacts
<1>4. cache' \in Seq(Objects) /\ \A j \in 1 .. Len(cache') : HasShape(cache'[j])
    BY <1>1, <1>2, <1>3, CacheAddedFacts
<1>5. held' \in Seq(HeldObjects) /\ \A j \in 1 .. Len(held') : HoldsOwn(held'[j], log)
    BY <1>1, <1>2, HeldWithout
<1>6. ObjectsInv'
    BY <1>1, <1>4, <1>5 DEF ObjectsInv, HeldObjects, written
<1> QED BY <1>1, <1>3, <1>6, ObjectsMove

LEMMA ReleaseElsewhereKeeps ==
    ASSUME IInv, NEW i \in 1 .. Len(held), ReleaseElsewhere(i) PROVE IInv'
<1>1. /\ held' = Without(held, i)
      /\ UNCHANGED <<written, stage, pos, count, start, reader, cache>>
    BY DEF ReleaseElsewhere
<1>2. ObjectsInv
    BY DEF IInv
<1>3. held # <<>>
    BY <1>2, HeldFacts
<1>4. cache' \in Seq(Objects) /\ \A j \in 1 .. Len(cache') : HasShape(cache'[j])
    BY <1>1, <1>2 DEF ObjectsInv
<1>5. held' \in Seq(HeldObjects) /\ \A j \in 1 .. Len(held') : HoldsOwn(held'[j], log)
    BY <1>1, <1>2, HeldWithout
<1>6. ObjectsInv'
    BY <1>1, <1>4, <1>5 DEF ObjectsInv, HeldObjects, written
<1> QED BY <1>1, <1>3, <1>6, ObjectsMove

\* The version string of a trace info is its own memo, and no other record has
\* a memo to lose to it.
LEMMA GetVersionStringKeeps ==
    ASSUME IInv, NEW i \in 1 .. Len(held), GetVersionString(i) PROVE IInv'
<1> DEFINE o == held[i].object
           n == [o EXCEPT !.memo = VersionOf(o)]
<1>1. /\ o.kind = "TRACE_INFO"
      /\ held' = [held EXCEPT ![i].object.memo = VersionOf(o)]
      /\ UNCHANGED <<written, stage, pos, count, start, reader, cache>>
    BY DEF GetVersionString
<1>2. ObjectsInv
    BY DEF IInv
<1>3. /\ held \in Seq(HeldObjects) /\ held[i] \in HeldObjects /\ o \in Objects /\ HasShape(o)
      /\ HoldsOwn(held[i], log) /\ held # <<>>
    BY <1>2, HeldFacts DEF ObjectsInv, HeldObjects
<1>4. VersionOf(o) \in Seq(Nat \cup {FloorLog2(k) : k \in Nat})
    <2>1. o.fields \in Seq(Nat)
        BY <1>3 DEF Objects
    <2>2. Len(o.fields) = 4
        BY <1>1, <1>3, TraceInfoLayout DEF HasShape
    <2> HIDE DEF o
    <2>3. SubSeq(o.fields, 2, 4) \in Seq(Nat)
        BY <2>1, <2>2
    <2>4. Seq(Nat) \subseteq Seq(Nat \cup {FloorLog2(k) : k \in Nat})
        OBVIOUS
    <2> QED BY <2>3, <2>4 DEF VersionOf
<1>5. /\ n \in Objects /\ n.kind = o.kind /\ n.fields = o.fields /\ n.list = o.list
    <2> HIDE DEF o
    <2> QED BY <1>3, <1>4 DEF Objects
<1>6. PICK h \in HeldObjects : /\ h.object = n /\ h.number = held[i].number
                               /\ held' = [held EXCEPT ![i] = h]
    <2>1. [object |-> n, number |-> held[i].number] \in HeldObjects
        BY <1>3, <1>5 DEF HeldObjects
    <2>2. held' = [held EXCEPT ![i] = [held[i] EXCEPT !.object = n]]
        BY <1>1
    <2>3. [held[i] EXCEPT !.object = n] = [object |-> n, number |-> held[i].number]
        BY <1>3 DEF HeldObjects
    <2> HIDE DEF n
    <2> QED BY <2>1, <2>2, <2>3
<1>7. HoldsOwn(h, log)
    <2>1. h.number \in 1 .. Len(log) /\ Holds(o, log[h.number])
        BY <1>3, <1>6 DEF HoldsOwn
    <2>2. HasShape(n)
        BY <1>3, <1>5 DEF HasShape
    <2>3. log[h.number].rec.kind = "TRACE_INFO"
        BY <1>1, <2>1 DEF Holds
    <2>4. ~HasMemo(log[h.number].rec)
        BY <2>3 DEF HasMemo, Opcodes
    <2>5. Value(n) = Value(o)
        BY <1>5 DEF Value
    <2> HIDE DEF n, o
    <2> QED BY <1>5, <1>6, <2>1, <2>2, <2>4, <2>5 DEF HoldsOwn, Holds
<1>8. held' \in Seq(HeldObjects) /\ Len(held') = Len(held)
    BY <1>3, <1>6
<1>9. ASSUME NEW j \in 1 .. Len(held') PROVE HoldsOwn(held'[j], log)
    <2>1. CASE j = i
        <3>1. held'[j] = h
            BY <1>3, <1>6, <2>1
        <3> QED BY <1>7, <3>1
    <2>2. CASE j # i
        <3>1. held'[j] = held[j] /\ j \in 1 .. Len(held)
            BY <1>3, <1>6, <1>8, <2>2
        <3>2. PICK g : g = held[j] /\ HoldsOwn(g, log)
            BY <1>2, <3>1 DEF ObjectsInv
        <3> QED BY <3>1, <3>2
    <2> QED BY <2>1, <2>2
<1>10. ObjectsInv'
    BY <1>1, <1>2, <1>8, <1>9 DEF ObjectsInv, HeldObjects, written
<1> QED BY <1>1, <1>3, <1>10, ObjectsMove

LEMMA ElementOfSequence ==
    ASSUME NEW S, NEW seq \in Seq(S), NEW i \in 1 .. Len(seq) PROVE seq[i] \in S
OBVIOUS

LEMMA LengthOfLog == LogInv => Len(log) \in Nat /\ Len(menu.header) \in Nat
BY HeaderFacts DEF LogInv

LEMMA StrmAtIsStrm ==
    ASSUME LogInv, NEW k \in 0 .. Len(log) PROVE StrmAt(k) \in Strm
<1>1. CASE k = 0
    BY <1>1, NewStreamIsStrm DEF StrmAt
<1>2. CASE k # 0
    <2>1. log[k] \in [rec : RecordValues, strm : Strm]
        <3>1. log \in Seq([rec : RecordValues, strm : Strm])
            BY DEF LogInv
        <3>2. k \in 1 .. Len(log)
            BY <1>2, LengthOfLog
        <3> QED BY <3>1, <3>2, ElementOfSequence
    <2> QED BY <1>2, <2>1 DEF StrmAt
<1> QED BY <1>1, <1>2

LEMMA RewindKeeps ==
    ASSUME IInv, Rewind PROVE IInv'
<1> DEFINE H == Len(menu.header)
<1>1. /\ stage = "reading" /\ count > start.count /\ start.count = H
      /\ pos' = start.pos /\ count' = start.count /\ reader' = Rewound(reader, InitialPC)
      /\ UNCHANGED <<written, stage, start, cache, held>>
    BY DEF Rewind
<1>2. reader.is_branch = FALSE
    <2>1. ~reader.is_branch /\ reader \in Strm
        BY DEF Rewind, IInv, ReaderInv
    <2> QED BY <2>1 DEF Strm
<1>3. LogInv' /\ HeaderInv' /\ SettingsInv'
    BY <1>1, WrittenKept DEF IInv
<1>4. (\E b : Starts(b))'
    <2>1. PICK b : Starts(b)
        BY DEF IInv
    <2>2. start.pos = b[start.count + 1]
        BY <2>1 DEF Starts
    <2>3. pos' = b[count' + 1] /\ start'.pos = b[start'.count + 1]
        BY <1>1, <2>2
    <2> QED BY <1>1, <2>1, <2>3, StartsKept
<1>5. ObjectsInv'
    BY <1>1, ObjectsKept DEF IInv
<1>6. /\ H \in Nat /\ H \in 0 .. Len(log) /\ count \in 0 .. Len(log) /\ count >= H
    <2>1. H \in Nat /\ Len(log) \in Nat
        BY LengthOfLog DEF IInv
    <2>2. start.count <= Len(log) /\ count \in 0 .. Len(log)
        BY DEF IInv, ReaderInv
    <2> QED BY <1>1, <2>1, <2>2
<1>7. HeaderStrm(H) /\ SameSettings(StrmAt(count), StrmAt(H))
    <2>1. HeaderStrm(H)
        BY <1>6 DEF IInv, HeaderInv
    <2>2. SameSettings(StrmAt(count), StrmAt(H))
        <3>1. Settled(count)
            BY <1>6 DEF IInv, SettingsInv
        <3> QED BY <1>6, <3>1 DEF Settled
    <2> QED BY <2>1, <2>2
<1>8. InitialPC = ForcedPC(H) /\ ForcedPC(H) \in Nat
    <2>1. InitialPC = ForcedPC(H)
        BY DEF InitialPC, ForcedPC, Forced
    <2>2. StrmAt(H) \in Strm
        BY <1>6, StrmAtIsStrm DEF IInv
    <2> QED BY <1>7, <2>1, <2>2 DEF HeaderStrm, Strm
<1>9. PICK pc \in Nat : pc = ForcedPC(H)
    BY <1>8
<1>10. reader' = Rewound(reader, pc) /\ reader \in Strm /\ Agree(reader, StrmAt(count))
    BY <1>1, <1>8, <1>9 DEF IInv, ReaderInv
<1>11. /\ Rewound(reader, pc) \in Strm
       /\ Rewound(reader, pc).next_pc = pc /\ Rewound(reader, pc).markers = 0
       /\ Rewound(reader, pc).is_branch = reader.is_branch
       /\ Rewound(reader, pc).vlen = reader.vlen
       /\ Rewound(reader, pc).protocol_id = reader.protocol_id
       /\ Rewound(reader, pc).has_32bit_events = reader.has_32bit_events
    BY <1>10 DEF Rewound, Strm
<1>12. Agree(reader', StrmAt(H))
    <2> HIDE DEF H
    <2> QED BY <1>2, <1>7, <1>9, <1>10, <1>11, Zenon DEF Agree, HeaderStrm, SameSettings
<1>13. reader' \in Strm
    BY <1>10, <1>11
<1>14. StrmAt(H)' = StrmAt(H) /\ Len(log)' = Len(log) /\ menu' = menu
    BY <1>1 DEF StrmAt, written
<1>15. ReaderInv'
    <2>1. Agree(reader, StrmAt(count))'
        <3>1. StrmAt(count)' = StrmAt(H)
            BY <1>1 DEF StrmAt, written
        <3> QED BY <1>12, <3>1 DEF Agree
    <2>2. count' \in 0 .. Len(log)'
        BY <1>1, <1>6, <1>14
    <2>3. (~HeaderLeft)'
        BY <1>1 DEF IInv, ReaderInv, HeaderLeft, written
    <2>4. /\ start' \in [pos : Nat, count : Nat] /\ stage' = "reading"
          /\ start'.count <= Len(menu.header)' /\ start'.count <= Len(log)'
        BY <1>1, <1>14 DEF IInv, ReaderInv
    <2> QED BY <1>13, <2>1, <2>2, <2>3, <2>4 DEF ReaderInv
<1> QED BY <1>3, <1>4, <1>5, <1>15 DEF IInv

-----------------------------------------------------------------------------
(* Reading a record. *)

LEMMA MemoFacts ==
    ASSUME NEW rec, NEW w, NEW r, NEW object, Meet(rec, w, r, object),
           NEW entry, entry.rec = rec, entry.strm = Passed(rec.kind, Value(rec), w)
    PROVE  /\ Memo(object, rec.fields, r) \in Seq(Nat \cup {FloorLog2(n) : n \in Nat})
           /\ HasMemo(rec) => Memo(object, rec.fields, r) = MemoOf(entry)
<1> DEFINE Numbers == Nat \cup {FloorLog2(n) : n \in Nat}
<1>0. /\ IsRecord(rec) /\ w \in Strm /\ r \in Strm /\ Agree(r, w)
      /\ object \in Objects /\ object.kind = rec.kind
    BY DEF Meet
<1>1. CASE rec.kind \in Opcodes
    <2>1. Memo(object, rec.fields, r) = <<Passed(rec.kind, [fields |-> rec.fields], r).pc>>
        BY <1>0, <1>1 DEF Memo, Opcodes
    <2>2. Passed(rec.kind, [fields |-> rec.fields], r).pc = r.next_pc
        BY <1>0, <1>1, PassedOpcode
    <2>3. entry.strm.pc = w.next_pc
        <3>1. Passed(rec.kind, Value(rec), w).pc = w.next_pc
            BY <1>0, <1>1, PassedOpcode, Zenon
        <3> QED BY <3>1, Zenon
    <2>4. MemoOf(entry) = <<entry.strm.pc>>
        BY <1>1 DEF MemoOf, Opcodes
    <2>5. r.next_pc = w.next_pc /\ r.next_pc \in Numbers
        BY <1>0 DEF Agree, Strm
    <2> HIDE DEF Numbers
    <2>6. <<r.next_pc>> \in Seq(Numbers)
        BY <2>5
    <2> QED BY <2>1, <2>2, <2>3, <2>4, <2>5, <2>6 DEF Numbers
<1>2. CASE rec.kind = "INST_REG" /\ rec.fields[2] = Vector
    <2>1. Memo(object, rec.fields, r) = <<r.vlen>>
        BY <1>0, <1>2 DEF Memo, Opcodes
    <2>2. entry.strm = w
        BY <1>2, PassedOther DEF Opcodes, Noted, Targets
    <2>3. MemoOf(entry) = <<w.vlen>>
        BY <1>2, <2>2 DEF MemoOf, Opcodes
    <2>4. r.vlen = w.vlen /\ r.vlen \in Numbers
        BY <1>0 DEF Agree, Strm
    <2> HIDE DEF Numbers
    <2>5. <<r.vlen>> \in Seq(Numbers)
        BY <2>4
    <2> QED BY <2>1, <2>3, <2>4, <2>5 DEF Numbers
<1>3. CASE rec.kind = "PAGE_TABLE_WALK"
    <2>1. Memo(object, rec.fields, r) = <<FloorLog2(rec.fields[3])>>
        BY <1>0, <1>3 DEF Memo, Opcodes
    <2>2. MemoOf(entry) = <<FloorLog2(rec.fields[3])>>
        BY <1>3 DEF MemoOf, Opcodes
    <2>3. rec.fields[3] \in Nat
        BY <1>0, <1>3, Layouts DEF IsRecord, HasShape, RecordValues
    <2>4. FloorLog2(rec.fields[3]) \in Numbers
        BY <2>3
    <2> HIDE DEF Numbers
    <2>5. <<FloorLog2(rec.fields[3])>> \in Seq(Numbers)
        BY <2>4
    <2> QED BY <2>1, <2>2, <2>5 DEF Numbers
<1>4. CASE ~HasMemo(rec)
    <2>1. Memo(object, rec.fields, r) = object.memo
        BY <1>0, <1>4 DEF Memo, HasMemo
    <2> QED BY <1>0, <1>4, <2>1 DEF Objects
<1> QED BY <1>1, <1>2, <1>3, <1>4 DEF HasMemo

LEMMA CachePoppedFacts ==
    ASSUME ObjectsInv, NEW kind \in Kinds
    PROVE  /\ CachePopped(kind) \in Seq(Objects)
           /\ \A i \in 1 .. Len(CachePopped(kind)) : HasShape(CachePopped(kind)[i])
<1>1. cache \in Seq(Objects) /\ \A i \in 1 .. Len(cache) : HasShape(cache[i])
    BY DEF ObjectsInv
<1>2. CASE OfKind(kind) = {}
    BY <1>1, <1>2 DEF CachePopped
<1>3. CASE OfKind(kind) # {}
    <2>1. OfKind(kind) \in SUBSET (1 .. Len(cache)) /\ Len(cache) \in Nat
        BY <1>1 DEF OfKind
    <2>2. PICK i \in 1 .. Len(cache) : i = Newest(OfKind(kind))
        BY <1>3, <2>1, NewestIsOne
    <2>3. CachePopped(kind) = Without(cache, i)
        BY <1>3, <2>2 DEF CachePopped
    <2> QED BY <1>1, <2>3, WithoutFacts
<1> QED BY <1>2, <1>3

LEMMA ReadKeeps ==
    ASSUME IInv, Read PROVE IInv'
<1> DEFINE k == count + 1
           kind == KindOf(trace[pos])
           u == Unpack(Popped(kind), trace, pos + 1, reader)
<1>1. /\ stage = "reading" /\ pos <= Len(trace) /\ cache' = CachePopped(kind)
      /\ UNCHANGED <<written, rewinds>>
      /\ u.ok => /\ held' = Append(held, [object |-> u.object, number |-> k])
                 /\ pos' = u.next /\ count' = k /\ reader' = u.strm
                 /\ start' = IF count < Len(menu.header)
                             THEN [pos |-> u.next, count |-> k] ELSE start
                 /\ stage' = stage
    BY DEF Read
<1>2. PICK b : Starts(b)
    BY DEF IInv
<1>3. /\ LogInv /\ ReaderInv /\ ObjectsInv /\ Len(log) \in Nat /\ Len(menu.header) \in Nat
      /\ trace \in Seq(Nat) /\ log \in Seq([rec : RecordValues, strm : Strm])
      /\ count \in 0 .. Len(log) /\ reader \in Strm /\ Agree(reader, StrmAt(count))
    BY LengthOfLog DEF IInv, LogInv, ReaderInv
<1>4. count # Len(log)
    BY <1>1, <1>2, <1>3 DEF Starts
<1>5. k \in 1 .. Len(log) /\ k - 1 = count
    BY <1>3, <1>4
<1> DEFINE rec == log[k].rec
           w == StrmAt(count)
<1>6. /\ IsRecord(rec) /\ MayPack(rec.kind, Value(rec), w)
      /\ log[k].strm = Passed(rec.kind, Value(rec), w)
    BY <1>3, <1>5 DEF LogInv, EntryOK
<1>7. /\ w \in Strm /\ rec.kind \in Kinds /\ rec.fields \in Seq(Nat) /\ rec.list \in Seq(Seq(Nat))
    BY <1>3, <1>6, StrmAtIsStrm DEF IsRecord, RecordValues
<1>8. /\ pos = b[k] /\ pos \in Nat \ {0} /\ CellsAre(trace, pos, CellsOf(k))
      /\ b[k + 1] = pos + Len(CellsOf(k))
    <2>1. k \in 1 .. Len(b) /\ b \in Seq(Nat \ {0})
        BY <1>2, <1>3, <1>5 DEF Starts
    <2>2. pos = b[k]
        BY <1>2 DEF Starts
    <2> HIDE DEF k
    <2>3. b[k] \in Nat \ {0}
        BY <2>1
    <2>4. b[k + 1] = b[k] + Len(CellsOf(k)) /\ CellsAre(trace, b[k], CellsOf(k))
        BY <1>2, <1>5 DEF Starts
    <2> QED BY <2>2, <2>3, <2>4
<1>9. CellsOf(k) = Cells(rec.kind, Value(rec), Passed(rec.kind, Value(rec), w))
    BY <1>6 DEF CellsOf
<1>10. kind = rec.kind
    <2>1. /\ CellsOf(k) \in Seq(Nat) /\ Len(CellsOf(k)) >= 1 /\ CellsOf(k)[1] = Descriptor[rec.kind]
        <3>1. IsValue(rec.kind, Value(rec)) /\ rec.kind \in Kinds
            BY <1>6, ValueOfRecord
        <3> HIDE DEF rec, w, k
        <3> QED BY <1>9, <3>1, CellsAreNumbers
    <2>2. trace[pos + 1 - 1] = CellsOf(k)[1]
        <3> HIDE DEF k
        <3> QED BY <1>8, <2>1 DEF CellsAre
    <2>3. trace[pos] = Descriptor[rec.kind]
        BY <1>8, <2>1, <2>2
    <2> QED BY <1>7, <2>3, KindOfDescriptor
<1> DEFINE object == Popped(kind)
<1>11. object \in Objects /\ object.kind = rec.kind
    BY <1>3, <1>7, <1>10, PoppedObjects DEF ObjectsInv
<1>11a. Meet(rec, w, reader, object)
    <2>1. Agree(reader, w) /\ reader \in Strm
        BY <1>3
    <2> HIDE DEF rec, w, object, kind
    <2> QED BY <1>6, <1>7, <1>11, <2>1 DEF Meet
<1>12. /\ u.ok
       /\ u.object = [object EXCEPT !.fields = rec.fields, !.list = rec.list,
                                    !.memo = Memo(object, rec.fields, reader)]
       /\ u.next = pos + Len(CellsOf(k))
       /\ u.strm = Passed(rec.kind, Value(rec), reader)
    <2>1. CellsAre(trace, pos, Cells(rec.kind, Value(rec), Passed(rec.kind, Value(rec), w)))
        BY <1>8, <1>9
    <2> HIDE DEF rec, w, k, object, kind
    <2>2. PICK v : v = Unpack(object, trace, pos + 1, reader)
        OBVIOUS
    <2>4. PICK cells, at : cells = trace /\ at = pos /\ cells \in Seq(Nat) /\ at \in Nat \ {0}
        BY <1>3, <1>8
    <2>5. /\ CellsAre(cells, at, Cells(rec.kind, Value(rec), Passed(rec.kind, Value(rec), w)))
          /\ v = Unpack(object, cells, at + 1, reader)
        BY <2>1, <2>2, <2>4, Zenon
    <2>6. Becomes(v, rec, w, reader, object, at)
        BY <1>11a, <2>4, <2>5, RoundTrip
    <2>3. /\ v.ok
          /\ v.object = [object EXCEPT !.fields = rec.fields, !.list = rec.list,
                                       !.memo = Memo(object, rec.fields, reader)]
          /\ v.next = pos + Len(Cells(rec.kind, Value(rec), Passed(rec.kind, Value(rec), w)))
          /\ v.strm = Passed(rec.kind, Value(rec), reader)
        BY <2>4, <2>6, Zenon DEF Becomes
    <2> QED BY <1>9, <2>2, <2>3 DEF object
<1> HIDE DEF u
<1>13. LogInv' /\ HeaderInv' /\ SettingsInv'
    BY <1>1, WrittenKept DEF IInv
<1>14. start'.pos = b[start'.count + 1] /\ pos' = b[count' + 1]
    <2>1. start.pos = b[start.count + 1]
        BY <1>2 DEF Starts
    <2>2. u.next = b[k + 1]
        BY <1>8, <1>12
    <2>3. start' = [pos |-> u.next, count |-> k] \/ start' = start
        BY <1>1, <1>12
    <2> QED BY <1>1, <1>12, <2>1, <2>2, <2>3
<1>15. (\E c : Starts(c))'
    BY <1>1, <1>2, <1>14, StartsKept
<1>16. reader' \in Strm /\ Agree(reader', log[k].strm)
    <2>1. reader' = Passed(rec.kind, Value(rec), reader)
        BY <1>1, <1>12
    <2> HIDE DEF rec, w
    <2> QED BY <1>3, <1>6, <1>7, <2>1, PassedIsStrm, AgreePassed DEF w
<1>17. ReaderInv'
    <2>1. /\ stage' = "reading" /\ count' = k /\ ~HeaderLeft /\ menu' = menu /\ log' = log
        BY <1>1, <1>3, <1>12 DEF ReaderInv, written
    <2>2. Agree(reader, StrmAt(count))'
        <3>1. StrmAt(count)' = log[k].strm
            BY <1>5, <2>1 DEF StrmAt
        <3> QED BY <1>16, <3>1 DEF Agree
    <2>3. (~HeaderLeft)'
        BY <2>1 DEF HeaderLeft
    <2>4. start' \in [pos : Nat, count : Nat] /\ start'.count <= Len(menu.header)
             /\ start'.count <= Len(log)
        <3>1. CASE count < Len(menu.header)
            <4>1. start' = [pos |-> u.next, count |-> k]
                BY <1>1, <1>12, <3>1
            <4>2. k <= Len(menu.header) /\ k <= Len(log) /\ k \in Nat
                BY <1>3, <1>5, <3>1
            <4>3. u.next \in Nat
                <5>1. k + 1 \in 1 .. Len(b) /\ b \in Seq(Nat \ {0})
                    BY <1>2, <1>3, <1>5 DEF Starts
                <5>2. u.next = b[k + 1]
                    BY <1>8, <1>12
                <5> HIDE DEF k
                <5> QED BY <5>1, <5>2
            <4> HIDE DEF k
            <4> QED BY <4>1, <4>2, <4>3
        <3>2. CASE ~(count < Len(menu.header))
            BY <1>1, <1>3, <1>12, <3>2 DEF ReaderInv
        <3> QED BY <3>1, <3>2
    <2>5. count' \in 0 .. Len(log)
        BY <1>3, <1>5, <2>1
    <2> QED BY <1>16, <2>1, <2>2, <2>3, <2>4, <2>5 DEF ReaderInv
<1>18. ObjectsInv'
    <2> DEFINE o == u.object
               h == [object |-> o, number |-> k]
    <2>1. /\ Memo(object, rec.fields, reader) \in Seq(Nat \cup {FloorLog2(n) : n \in Nat})
          /\ HasMemo(rec) => Memo(object, rec.fields, reader) = MemoOf(log[k])
        <3>2. PICK entry : entry = log[k]
            OBVIOUS
        <3>3. entry.rec = rec /\ entry.strm = Passed(rec.kind, Value(rec), w)
            BY <1>6, <3>2
        <3> HIDE DEF rec, w, k, object, kind
        <3>4. /\ Memo(object, rec.fields, reader) \in Seq(Nat \cup {FloorLog2(n) : n \in Nat})
              /\ HasMemo(rec) => Memo(object, rec.fields, reader) = MemoOf(entry)
            BY <1>11a, <3>3, MemoFacts
        <3> QED BY <3>2, <3>4, Zenon
    <2>2. /\ o \in Objects /\ o.kind = rec.kind /\ o.fields = rec.fields /\ o.list = rec.list
          /\ o.memo = Memo(object, rec.fields, reader)
        <3> HIDE DEF rec, w, k, object, kind
        <3> QED BY <1>7, <1>11, <1>12, <2>1 DEF Objects
    <2>3. HasShape(o)
        <3> HIDE DEF o, rec
        <3> QED BY <1>6, <2>2 DEF IsRecord, HasShape
    <2>4. Holds(o, log[k])
        <3>1. Value(o) = Value(rec)
            BY <2>2 DEF Value
        <3> HIDE DEF o
        <3> QED BY <2>1, <2>2, <3>1 DEF Holds
    <2>5. h \in HeldObjects /\ HoldsOwn(h, log)
        <3> HIDE DEF o, k
        <3>1. k \in Nat
            BY <1>5, <1>3
        <3> QED BY <1>5, <2>2, <2>3, <2>4, <3>1 DEF HeldObjects, HoldsOwn
    <2>6. held \in Seq(HeldObjects) /\ \A i \in 1 .. Len(held) : HoldsOwn(held[i], log)
        BY <1>3 DEF ObjectsInv, HeldObjects
    <2>7. held' = Append(held, h) /\ log' = log
        BY <1>1, <1>12 DEF written
    <2> HIDE DEF h
    <2>8. /\ held' \in Seq(HeldObjects) /\ Len(held') = Len(held) + 1 /\ Len(held) \in Nat
          /\ held'[Len(held) + 1] = h /\ \A i \in 1 .. Len(held) : held'[i] = held[i]
        BY <2>5, <2>6, <2>7, AppendFacts
    <2>9. ASSUME NEW i \in 1 .. Len(held') PROVE HoldsOwn(held'[i], log)
        <3>1. CASE i \in 1 .. Len(held)
            BY <2>6, <2>8, <3>1
        <3>2. CASE i = Len(held) + 1
            BY <2>5, <2>8, <3>2
        <3> QED BY <2>8, <3>1, <3>2
    <2>10. cache' \in Seq(Objects) /\ \A i \in 1 .. Len(cache') : HasShape(cache'[i])
        BY <1>1, <1>3, <1>7, <1>10, CachePoppedFacts
    <2> QED BY <2>7, <2>8, <2>9, <2>10 DEF ObjectsInv, HeldObjects
<1> QED BY <1>13, <1>15, <1>17, <1>18 DEF IInv

-----------------------------------------------------------------------------
(* Writing a record. *)

LEMMA PassedSettings ==
    ASSUME NEW kind, NEW v, NEW strm \in Strm,
           kind \notin {"VLEN_CONFIG", "PROTOCOL_ID", "TRACE_INFO_FEATURE"}
    PROVE  SameSettings(Passed(kind, v, strm), strm)
<1>1. CASE kind \in Opcodes
    BY <1>1, PassedOpcode, Zenon DEF SameSettings
<1>2. CASE kind \in Targets
    <2>1. PICK target : target = v.fields[1]
        OBVIOUS
    <2>2. Passed(kind, v, strm) = [strm EXCEPT !.target_pc = target, !.is_branch = TRUE]
        BY <1>2, <2>1, PassedTarget
    <2> QED BY <2>2 DEF SameSettings, Strm
<1>3. CASE kind = "FORCE_PC"
    BY <1>3, PassedNoted DEF SameSettings, Strm
<1>4. CASE kind \notin Opcodes \cup Noted
    BY <1>4, PassedOther DEF SameSettings
<1> QED BY <1>1, <1>2, <1>3, <1>4 DEF Noted

LEMMA PassedInHeader ==
    ASSUME NEW kind, NEW v, NEW strm \in Strm, kind \notin Opcodes \cup Targets
    PROVE  /\ Passed(kind, v, strm).markers = strm.markers
           /\ Passed(kind, v, strm).is_branch = strm.is_branch
           /\ kind # "FORCE_PC" => Passed(kind, v, strm).next_pc = strm.next_pc
           /\ kind = "FORCE_PC" => Passed(kind, v, strm).next_pc = v.fields[1]
<1>1. CASE kind = "FORCE_PC"
    BY <1>1, PassedNoted DEF Strm
<1>2. CASE kind = "VLEN_CONFIG"
    BY <1>2, PassedNoted DEF Strm
<1>3. CASE kind = "PROTOCOL_ID"
    BY <1>3, PassedNoted DEF Strm
<1>4. CASE kind = "TRACE_INFO_FEATURE"
    BY <1>4, PassedNoted DEF Strm
<1>5. CASE kind \notin Opcodes \cup Noted
    <2>1. Passed(kind, v, strm) = strm /\ kind # "FORCE_PC"
        BY <1>5, PassedOther DEF Noted
    <2> QED BY <2>1
<1> QED BY <1>1, <1>2, <1>3, <1>4, <1>5 DEF Noted

LEMMA ToWriteIsRecord ==
    ASSUME LogInv, NEW rec \in ToWrite
    PROVE  /\ IsRecord(rec) /\ rec \in RecordValues
           /\ Len(log) + 1 <= Len(menu.header) =>
                 rec = menu.header[Len(log) + 1] /\ rec.kind \notin Opcodes \cup Targets
           /\ Len(log) + 1 > Len(menu.header) => rec \in menu.body
<1>1. Len(log) \in Nat /\ Len(menu.header) \in Nat /\ menu \in Menus
    BY LengthOfLog DEF LogInv
<1>2. CASE HeaderLeft
    <2>1. rec = menu.header[Len(log) + 1] /\ Len(log) < Len(menu.header)
        BY <1>2 DEF ToWrite, HeaderLeft
    <2>2. Len(log) + 1 \in 1 .. Len(menu.header)
        BY <1>1, <2>1
    <2>3. IsRecord(rec) /\ rec.kind \notin Opcodes \cup Targets
        BY <1>1, <2>1, <2>2, HeaderFacts
    <2> QED BY <1>1, <2>1, <2>2, <2>3 DEF IsRecord
<1>3. CASE ~HeaderLeft
    <2>1. rec \in menu.body /\ ~(Len(log) < Len(menu.header))
        BY <1>3 DEF ToWrite, HeaderLeft
    <2>2. IsRecord(rec)
        BY <1>1, <2>1, HeaderFacts
    <2> QED BY <1>1, <2>1, <2>2 DEF IsRecord
<1> QED BY <1>2, <1>3

LEMMA LogGrows ==
    ASSUME LogInv, NEW rec \in ToWrite, Write(rec), NEW n, n = Len(log), NEW H, H = Len(menu.header)
    PROVE  /\ n \in Nat /\ H \in Nat /\ writer \in Strm /\ writer = StrmAt(n)
           /\ writer' = Passed(rec.kind, Value(rec), writer) /\ writer' \in Strm
           /\ log' \in Seq([rec : RecordValues, strm : Strm]) /\ Len(log') = n + 1
           /\ log'[n + 1].rec = rec /\ log'[n + 1].strm = writer'
           /\ \A k \in 1 .. n : log'[k] = log[k]
           /\ StrmAt(n + 1)' = writer'
           /\ \A k \in 0 .. n : StrmAt(k)' = StrmAt(k)
<1> DEFINE e == [rec |-> rec, strm |-> writer']
<1>1. writer' = Passed(rec.kind, Value(rec), writer) /\ log' = Append(log, e)
    BY DEF Write
<1>2. /\ n \in Nat /\ H \in Nat /\ log \in Seq([rec : RecordValues, strm : Strm])
      /\ writer = StrmAt(n) /\ n \in 0 .. Len(log)
    BY LengthOfLog DEF LogInv
<1>3. IsRecord(rec) /\ rec \in RecordValues
    BY ToWriteIsRecord
<1>4. writer \in Strm /\ writer' \in Strm
    <2>1. StrmAt(n) \in Strm
        BY <1>2, StrmAtIsStrm
    <2> QED BY <1>1, <1>2, <1>3, <2>1, PassedIsStrm
<1>5. /\ log' \in Seq([rec : RecordValues, strm : Strm]) /\ Len(log') = n + 1
      /\ log'[n + 1] = e /\ \A k \in 1 .. n : log'[k] = log[k]
    <2>1. e \in [rec : RecordValues, strm : Strm]
        BY <1>3, <1>4
    <2> HIDE DEF e
    <2> QED BY <1>1, <1>2, <2>1, AppendFacts
<1>6. log'[n + 1].rec = rec /\ log'[n + 1].strm = writer'
    BY <1>5
<1>7. StrmAt(n + 1)' = writer'
    BY <1>2, <1>6 DEF StrmAt
<1>8. \A k \in 0 .. n : StrmAt(k)' = StrmAt(k)
    BY <1>2, <1>5 DEF StrmAt
<1> HIDE DEF e
<1> QED BY <1>1, <1>2, <1>4, <1>5, <1>6, <1>7, <1>8

LEMMA WriteKeepsLog ==
    ASSUME LogInv, NEW rec \in ToWrite, Write(rec) PROVE LogInv'
<1>1. PICK n, H : n = Len(log) /\ H = Len(menu.header)
    OBVIOUS
<1>2. /\ n \in Nat /\ H \in Nat /\ writer = StrmAt(n)
      /\ writer' = Passed(rec.kind, Value(rec), writer)
      /\ log' \in Seq([rec : RecordValues, strm : Strm]) /\ Len(log') = n + 1
      /\ log'[n + 1].rec = rec /\ log'[n + 1].strm = writer'
      /\ \A k \in 1 .. n : log'[k] = log[k]
      /\ StrmAt(n + 1)' = writer'
      /\ \A k \in 0 .. n : StrmAt(k)' = StrmAt(k)
    BY <1>1, LogGrows
<1>3. /\ IsRecord(rec)
      /\ n + 1 <= H => rec = menu.header[n + 1]
      /\ n + 1 > H => rec \in menu.body
    BY <1>1, ToWriteIsRecord
<1>4. /\ MayPack(rec.kind, Value(rec), writer) /\ menu' = menu
      /\ trace' = trace \o Cells(rec.kind, Value(rec), writer')
    BY <1>2 DEF Write
<1>5. ASSUME NEW k \in 1 .. n PROVE EntryOK(k)'
    <2>1. EntryOK(k)
        BY <1>1 DEF LogInv
    <2>2. StrmAt(k - 1)' = StrmAt(k - 1) /\ log'[k] = log[k] /\ menu' = menu
        BY <1>2, <1>4
    <2> QED BY <2>1, <2>2 DEF EntryOK
<1>6. EntryOK(n + 1)'
    <2>1. StrmAt((n + 1) - 1)' = writer
        <3>1. (n + 1) - 1 = n /\ n \in 0 .. n
            BY <1>2
        <3>2. StrmAt(n)' = writer
            BY <1>2, <3>1
        <3> QED BY <3>1, <3>2
    <2>2. /\ n + 1 <= Len(menu'.header) => rec = menu'.header[n + 1]
          /\ n + 1 > Len(menu'.header) => rec \in menu'.body
        BY <1>1, <1>3, <1>4
    <2> QED BY <1>2, <1>3, <1>4, <2>1, <2>2 DEF EntryOK
<1>7. trace' \in Seq(Nat)
    <2>1. IsValue(rec.kind, Value(rec)) /\ rec.kind \in Kinds
        BY <1>3, ValueOfRecord
    <2>2. PICK w : w = writer'
        OBVIOUS
    <2>3. Cells(rec.kind, Value(rec), w) \in Seq(Nat)
        BY <2>1, CellsAreNumbers
    <2> QED BY <1>4, <2>2, <2>3 DEF LogInv
<1>8. writer' = StrmAt(Len(log))'
    <2>1. StrmAt(Len(log))' = StrmAt(n + 1)'
        BY <1>2 DEF StrmAt
    <2> QED BY <1>2, <2>1
<1>9. ASSUME NEW k \in 1 .. Len(log') PROVE EntryOK(k)'
    <2>1. k \in 1 .. n \/ k = n + 1
        BY <1>2
    <2>2. CASE k = n + 1
        BY <1>6, <2>2
    <2> QED BY <1>5, <2>1, <2>2
<1> QED BY <1>2, <1>4, <1>7, <1>8, <1>9 DEF LogInv

LEMMA WriteKeepsHeader ==
    ASSUME LogInv, HeaderInv, NEW rec \in ToWrite, Write(rec) PROVE HeaderInv'
<1>1. PICK n, H : n = Len(log) /\ H = Len(menu.header)
    OBVIOUS
<1>2. /\ n \in Nat /\ H \in Nat /\ writer \in Strm /\ writer = StrmAt(n)
      /\ writer' = Passed(rec.kind, Value(rec), writer) /\ Len(log') = n + 1
      /\ StrmAt(n + 1)' = writer'
      /\ \A k \in 0 .. n : StrmAt(k)' = StrmAt(k)
    BY <1>1, LogGrows
<1>3. menu' = menu
    BY DEF Write
<1>4. ASSUME NEW k \in 0 .. n, k <= H PROVE HeaderStrm(k)'
    <2>1. HeaderStrm(k)
        BY <1>1, <1>4 DEF HeaderInv
    <2>2. StrmAt(k)' = StrmAt(k) /\ ForcedPC(k)' = ForcedPC(k)
        BY <1>2, <1>3 DEF ForcedPC, Forced
    <2> QED BY <2>1, <2>2 DEF HeaderStrm
<1>5. ASSUME n + 1 <= H PROVE HeaderStrm(n + 1)'
    <2>1. rec = menu.header[n + 1] /\ rec.kind \notin Opcodes \cup Targets
        BY <1>1, <1>5, ToWriteIsRecord
    <2>2. /\ writer.markers = 0 /\ writer.is_branch = FALSE /\ writer.next_pc = ForcedPC(n)
        <3>1. n \in 0 .. Len(log) /\ n <= H
            BY <1>1, <1>2, <1>5
        <3>2. HeaderStrm(n)
            BY <1>1, <3>1 DEF HeaderInv
        <3> QED BY <1>2, <3>2 DEF HeaderStrm
    <2>3. /\ writer'.markers = writer.markers /\ writer'.is_branch = writer.is_branch
          /\ rec.kind # "FORCE_PC" => writer'.next_pc = writer.next_pc
          /\ rec.kind = "FORCE_PC" => writer'.next_pc = rec.fields[1]
        <3>1. Value(rec).fields = rec.fields
            BY DEF Value
        <3>2. PICK v : v = Value(rec)
            OBVIOUS
        <3>3. writer' = Passed(rec.kind, v, writer) /\ v.fields = rec.fields
            BY <1>2, <3>1, <3>2
        <3> QED BY <1>2, <2>1, <3>3, PassedInHeader
    <2>4. writer'.next_pc = ForcedPC(n + 1)
        <3>1. Forced(n + 1) = IF rec.kind = "FORCE_PC" THEN Forced(n) \cup {n + 1} ELSE Forced(n)
            BY <1>2, <2>1 DEF Forced
        <3>2. CASE rec.kind = "FORCE_PC"
            <4>1. Forced(n + 1) \subseteq 1 .. n + 1 /\ n + 1 \in Forced(n + 1)
                BY <1>2, <3>1, <3>2 DEF Forced
            <4>2. \E i \in Forced(n + 1) : \A j \in Forced(n + 1) : j <= i
                BY <1>2, <4>1
            <4>3. /\ Newest(Forced(n + 1)) \in Forced(n + 1)
                  /\ \A j \in Forced(n + 1) : j <= Newest(Forced(n + 1))
                BY <4>2, Zenon DEF Newest
            <4>4. Newest(Forced(n + 1)) = n + 1
                BY <1>2, <4>1, <4>3
            <4>5. ForcedPC(n + 1) = rec.fields[1]
                BY <2>1, <4>1, <4>4 DEF ForcedPC
            <4> QED BY <2>3, <3>2, <4>5
        <3>3. CASE rec.kind # "FORCE_PC"
            <4>1. ForcedPC(n + 1) = ForcedPC(n)
                BY <3>1, <3>3 DEF ForcedPC
            <4> QED BY <2>2, <2>3, <3>3, <4>1
        <3> QED BY <3>2, <3>3
    <2>5. ForcedPC(n + 1)' = ForcedPC(n + 1)
        BY <1>3 DEF ForcedPC, Forced
    <2> QED BY <1>2, <2>2, <2>3, <2>4, <2>5 DEF HeaderStrm
<1>6. ASSUME NEW k \in 0 .. n + 1, k <= H PROVE HeaderStrm(k)'
    <2>1. k \in 0 .. n \/ k = n + 1
        BY <1>2
    <2>2. CASE k = n + 1
        BY <1>5, <1>6, <2>2
    <2> QED BY <1>4, <1>6, <2>1, <2>2
<1> QED BY <1>1, <1>2, <1>3, <1>6 DEF HeaderInv

LEMMA WriteKeepsSettings ==
    ASSUME LogInv, SettingsInv, NEW rec \in ToWrite, Write(rec) PROVE SettingsInv'
<1>1. PICK n, H : n = Len(log) /\ H = Len(menu.header)
    OBVIOUS
<1>2. /\ n \in Nat /\ H \in Nat /\ writer \in Strm /\ writer = StrmAt(n)
      /\ writer' = Passed(rec.kind, Value(rec), writer) /\ Len(log') = n + 1
      /\ log'[n + 1].rec = rec
      /\ \A k \in 1 .. n : log'[k] = log[k]
      /\ StrmAt(n + 1)' = writer'
      /\ \A k \in 0 .. n : StrmAt(k)' = StrmAt(k)
    BY <1>1, LogGrows
<1>3. menu' = menu /\ MayPack(rec.kind, Value(rec), writer) /\ menu \in Menus
    BY DEF Write, LogInv
<1>4. \A k \in 0 .. n : Settled(k)
    BY <1>1 DEF SettingsInv
<1>5. \A k \in 0 .. n : VLenSet(k)' <=> VLenSet(k)
    BY <1>2 DEF VLenSet
<1>6. rec.kind = "VLEN_CONFIG" => MaySetVLen(writer, Value(rec).fields[1])
    BY <1>3 DEF MayPack
<1>7. rec.kind = "VLEN_CONFIG" => writer'.vlen # 0
    <2>1. ASSUME rec.kind = "VLEN_CONFIG" PROVE writer'.vlen # 0
        <3>1. Value(rec).fields[1] \in Nat
            <4>1. IsRecord(rec)
                BY ToWriteIsRecord
            <4> QED BY <2>1, <4>1, Layouts DEF Value, IsRecord, HasShape, RecordValues
        <3>2. PICK x \in Nat : x = Value(rec).fields[1]
            BY <3>1
        <3>3. x >= 64
            BY <1>6, <2>1, <3>2 DEF MaySetVLen, MinVLen
        <3>4. Passed("VLEN_CONFIG", Value(rec), writer) = [writer EXCEPT !.vlen = x]
            BY <3>2, PassedNoted, Zenon
        <3>5. [writer EXCEPT !.vlen = x].vlen = x
            BY <1>2 DEF Strm
        <3>6. writer'.vlen = x
            BY <1>2, <2>1, <3>4, <3>5
        <3> QED BY <3>3, <3>6
    <2> QED BY <2>1
<1>8. VLenSet(n + 1)' => writer'.vlen # 0
    <2>1. CASE rec.kind = "VLEN_CONFIG"
        BY <1>7, <2>1
    <2>2. CASE rec.kind # "VLEN_CONFIG"
        <3>1. VLenSet(n + 1)' => VLenSet(n)
            <4>1. \A i \in 1 .. n + 1 : log'[i].rec.kind = "VLEN_CONFIG" =>
                     i \in 1 .. n /\ log[i].rec.kind = "VLEN_CONFIG"
                BY <1>2, <2>2
            <4> QED BY <4>1 DEF VLenSet
        <3>2. writer'.vlen = writer.vlen
            <4>1. CASE rec.kind = "PROTOCOL_ID"
                BY <1>2, <4>1, PassedNoted DEF Strm
            <4>2. CASE rec.kind = "TRACE_INFO_FEATURE"
                BY <1>2, <4>2, PassedNoted DEF Strm
            <4>3. CASE rec.kind \notin {"VLEN_CONFIG", "PROTOCOL_ID", "TRACE_INFO_FEATURE"}
                <5>1. SameSettings(Passed(rec.kind, Value(rec), writer), writer)
                    BY <1>2, <4>3, PassedSettings
                <5> QED BY <1>2, <5>1 DEF SameSettings
            <4> QED BY <2>2, <4>1, <4>2, <4>3
        <3>3. n \in 0 .. n
            BY <1>2
        <3>4. VLenSet(n) => writer.vlen # 0
            <4>1. Settled(n)
                BY <1>4, <3>3
            <4> QED BY <1>2, <4>1 DEF Settled
        <3> QED BY <3>1, <3>2, <3>4
    <2> QED BY <2>1, <2>2
<1>9. ASSUME n + 1 > H PROVE SameSettings(writer', StrmAt(H))
    <2>1. /\ rec \in menu.body /\ rec.kind \notin {"PROTOCOL_ID", "TRACE_INFO_FEATURE"}
          /\ rec.kind = "VLEN_CONFIG" =>
                \E i \in 1 .. H : menu.header[i].kind = "VLEN_CONFIG"
        BY <1>1, <1>3, <1>9, ToWriteIsRecord, HeaderFacts
    <2>2. rec.kind # "VLEN_CONFIG"
        <3> SUFFICES ASSUME rec.kind = "VLEN_CONFIG" PROVE FALSE
            OBVIOUS
        <3>1. PICK i \in 1 .. H : menu.header[i].kind = "VLEN_CONFIG"
            BY <2>1
        <3>2. i \in 1 .. n
            BY <1>2, <1>9
        <3>3. log[i].rec = menu.header[i]
            <4>1. EntryOK(i)
                BY <1>1, <3>2 DEF LogInv
            <4>2. i <= Len(menu.header)
                BY <1>1, <1>2
            <4> QED BY <4>1, <4>2 DEF EntryOK
        <3>4. VLenSet(n) /\ n \in 0 .. n
            BY <1>2, <3>1, <3>2, <3>3 DEF VLenSet
        <3>5. writer.vlen # 0
            <4>1. Settled(n)
                BY <1>4, <3>4
            <4> QED BY <1>2, <3>4, <4>1 DEF Settled
        <3> QED BY <1>6, <3>5 DEF MaySetVLen
    <2>3. SameSettings(Passed(rec.kind, Value(rec), writer), writer)
        BY <1>2, <2>1, <2>2, PassedSettings
    <2>4. SameSettings(writer, StrmAt(H))
        <3>1. n \in 0 .. n /\ n >= H
            BY <1>2, <1>9
        <3>2. SameSettings(StrmAt(n), StrmAt(H))
            <4>1. Settled(n)
                BY <1>4, <3>1
            <4> QED BY <1>1, <3>1, <4>1 DEF Settled
        <3> QED BY <1>2, <3>2
    <2>5. SameSettings(writer', writer)
        BY <1>2, <2>3
    <2> QED BY <2>4, <2>5, Zenon DEF SameSettings
<1>10. ASSUME NEW k \in 0 .. n PROVE Settled(k)'
    <2>1. Settled(k)
        BY <1>4
    <2>2. /\ StrmAt(k)' = StrmAt(k) /\ (VLenSet(k)' <=> VLenSet(k))
          /\ Len(menu'.header) = H /\ Len(menu.header) = H
        BY <1>1, <1>2, <1>3, <1>5
    <2>3. ASSUME k >= H PROVE SameSettings(StrmAt(k)', StrmAt(Len(menu.header))')
        <3>1. H \in 0 .. n
            BY <1>2, <2>3
        <3>2. StrmAt(H)' = StrmAt(H)
            BY <1>2, <3>1
        <3>3. StrmAt(Len(menu.header))' = StrmAt(H)'
            BY <2>2 DEF StrmAt
        <3>4. SameSettings(StrmAt(k), StrmAt(H))
            BY <2>1, <2>2, <2>3 DEF Settled
        <3> QED BY <2>2, <3>2, <3>3, <3>4
    <2>4. VLenSet(k)' => StrmAt(k)'.vlen # 0
        BY <2>1, <2>2 DEF Settled
    <2> QED BY <2>2, <2>3, <2>4 DEF Settled, SameSettings
<1>11. Settled(n + 1)'
    <2>1. StrmAt(Len(menu.header))' = StrmAt(H)' /\ Len(menu'.header) = H
        BY <1>1, <1>3 DEF StrmAt
    <2>2. VLenSet(n + 1)' => StrmAt(n + 1)'.vlen # 0
        BY <1>2, <1>8
    <2>3. ASSUME n + 1 >= H PROVE SameSettings(StrmAt(n + 1)', StrmAt(H)')
        <3>1. CASE H = n + 1
            BY <3>1 DEF SameSettings
        <3>2. CASE H # n + 1
            <4>1. n + 1 > H /\ H \in 0 .. n
                BY <1>2, <2>3, <3>2
            <4>2. SameSettings(writer', StrmAt(H)) /\ StrmAt(H)' = StrmAt(H)
                BY <1>2, <1>9, <4>1
            <4> QED BY <1>2, <4>2
        <3> QED BY <3>1, <3>2
    <2> QED BY <2>1, <2>2, <2>3 DEF Settled, SameSettings
<1>12. ASSUME NEW k \in 0 .. Len(log') PROVE Settled(k)'
    <2>1. k \in 0 .. n \/ k = n + 1
        BY <1>2
    <2>2. CASE k = n + 1
        BY <1>11, <2>2
    <2> QED BY <1>10, <2>1, <2>2
<1> QED BY <1>12 DEF SettingsInv

LEMMA WriteKeepsStarts ==
    ASSUME LogInv, ReaderInv, NEW b, Starts(b), NEW rec \in ToWrite, Write(rec)
    PROVE  (\E d : Starts(d))'
<1>1. PICK n, H : n = Len(log) /\ H = Len(menu.header)
    OBVIOUS
<1>2. PICK c : c = Cells(rec.kind, Value(rec), writer')
    OBVIOUS
<1>3. /\ n \in Nat /\ Len(log') = n + 1
      /\ log'[n + 1].rec = rec /\ log'[n + 1].strm = writer'
      /\ \A k \in 1 .. n : log'[k] = log[k]
    BY <1>1, LogGrows
<1>4. c \in Seq(Nat) /\ Len(c) \in Nat
    <2>1. IsValue(rec.kind, Value(rec)) /\ rec.kind \in Kinds
        BY ToWriteIsRecord, ValueOfRecord
    <2>2. PICK w : w = writer'
        OBVIOUS
    <2>3. Cells(rec.kind, Value(rec), w) \in Seq(Nat)
        BY <2>1, CellsAreNumbers
    <2> QED BY <1>2, <2>2, <2>3
<1>5. trace' = trace \o c /\ trace \in Seq(Nat)
    BY <1>2 DEF Write, LogInv
<1>6. /\ Len(trace') = Len(trace) + Len(c) /\ Len(trace) \in Nat
      /\ \A j \in 1 .. Len(trace) : trace'[j] = trace[j]
      /\ \A j \in 1 .. Len(c) : trace'[Len(trace) + j] = c[j]
    BY <1>4, <1>5
<1>7. PICK d : d = Append(b, Len(trace') + 1)
    OBVIOUS
<1>8. b \in Seq(Nat \ {0}) /\ Len(b) = n + 1 /\ b[1] = 1 /\ b[n + 1] = Len(trace) + 1
    BY <1>1 DEF Starts
<1>9. /\ d \in Seq(Nat \ {0}) /\ Len(d) = n + 2 /\ d[n + 2] = Len(trace') + 1
      /\ \A k \in 1 .. n + 1 : d[k] = b[k]
    <2>1. Len(trace') + 1 \in Nat \ {0}
        BY <1>4, <1>6
    <2>2. (n + 1) + 1 = n + 2
        BY <1>3
    <2> QED BY <1>7, <1>8, <2>1, <2>2, AppendFacts
<1>10. ASSUME NEW k \in 1 .. n
       PROVE  d[k + 1] = d[k] + Len(CellsOf(k)') /\ CellsAre(trace', d[k], CellsOf(k)')
    <2>1. CellsOf(k)' = CellsOf(k)
        BY <1>3 DEF CellsOf
    <2>2. b[k + 1] = b[k] + Len(CellsOf(k)) /\ CellsAre(trace, b[k], CellsOf(k))
        BY <1>1 DEF Starts
    <2>3. d[k] = b[k] /\ d[k + 1] = b[k + 1] /\ b[k] \in Nat \ {0}
        <3>1. k \in 1 .. n + 1 /\ k + 1 \in 1 .. n + 1
            BY <1>3
        <3>2. b[k] \in Nat \ {0}
            BY <1>8, <3>1
        <3> QED BY <1>9, <3>1, <3>2
    <2>4. CellsOf(k) \in Seq(Nat)
        <3>1. IsRecord(log[k].rec)
            BY <1>1 DEF LogInv, EntryOK
        <3>2. IsValue(log[k].rec.kind, Value(log[k].rec)) /\ log[k].rec.kind \in Kinds
            BY <3>1, ValueOfRecord
        <3> QED BY <3>2, CellsAreNumbers DEF CellsOf
    <2>5. CellsAre(trace', b[k], CellsOf(k))
        <3>1. PICK at \in Nat \ {0}, those \in Seq(Nat) : at = b[k] /\ those = CellsOf(k)
            BY <2>3, <2>4
        <3>2. CellsAre(trace, at, those)
            BY <2>2, <3>1
        <3>3. CellsAre(trace', at, those)
            <4>1. at + Len(those) - 1 <= Len(trace)
                BY <3>2 DEF CellsAre
            <4>2. ASSUME NEW j \in 1 .. Len(those) PROVE trace'[at + j - 1] = those[j]
                <5>1. at + j - 1 \in 1 .. Len(trace)
                    BY <1>6, <4>1
                <5>2. trace[at + j - 1] = those[j]
                    BY <3>2 DEF CellsAre
                <5> QED BY <1>6, <5>1, <5>2
            <4> QED BY <1>4, <1>6, <4>1, <4>2 DEF CellsAre
        <3> QED BY <3>1, <3>3
    <2> QED BY <2>1, <2>2, <2>3, <2>5
<1>11. d[n + 2] = d[n + 1] + Len(CellsOf(n + 1)') /\ CellsAre(trace', d[n + 1], CellsOf(n + 1)')
    <2>1. CellsOf(n + 1)' = c
        BY <1>2, <1>3 DEF CellsOf
    <2>2. d[n + 1] = Len(trace) + 1 /\ d[n + 2] = Len(trace) + Len(c) + 1
        BY <1>3, <1>6, <1>8, <1>9
    <2>3. CellsAre(trace', Len(trace) + 1, c)
        <3>1. ASSUME NEW j \in 1 .. Len(c) PROVE trace'[Len(trace) + 1 + j - 1] = c[j]
            <4>1. Len(trace) + 1 + j - 1 = Len(trace) + j
                BY <1>6
            <4> QED BY <1>6, <4>1
        <3> QED BY <1>4, <1>6, <3>1 DEF CellsAre
    <2>4. Len(trace) + Len(c) + 1 = Len(trace) + 1 + Len(c)
        BY <1>4, <1>6
    <2> QED BY <2>1, <2>2, <2>3, <2>4
<1>12. ASSUME NEW k \in 1 .. Len(log')
       PROVE  d[k + 1] = d[k] + Len(CellsOf(k)') /\ CellsAre(trace', d[k], CellsOf(k)')
    <2>1. k \in 1 .. n \/ k = n + 1
        BY <1>3
    <2>2. CASE k = n + 1
        <3>1. k + 1 = n + 2
            BY <1>3, <2>2
        <3> QED BY <1>11, <2>2, <3>1
    <2> QED BY <1>10, <2>1, <2>2
<1>13. ASSUME NEW k \in 1 .. Len(log') + 1 PROVE d[k] <= Len(trace') + 1
    <2>1. k \in 1 .. n + 1 \/ k = n + 2
        BY <1>3
    <2>2. CASE k \in 1 .. n + 1
        <3>1. b[k] <= Len(trace) + 1 /\ b[k] \in Nat
            BY <1>1, <1>8, <2>2 DEF Starts
        <3> QED BY <1>4, <1>6, <1>9, <2>2, <3>1
    <2>3. CASE k = n + 2
        BY <1>4, <1>6, <1>9, <2>3
    <2> QED BY <2>1, <2>2, <2>3
<1>14. /\ d[1] = 1 /\ d[Len(log') + 1] = Len(trace') + 1 /\ Len(d) = Len(log') + 1
    <2>1. Len(log') + 1 = n + 2 /\ 1 \in 1 .. n + 1
        BY <1>3
    <2> QED BY <1>8, <1>9, <2>1
<1>15. pos' = d[count' + 1] /\ start'.pos = d[start'.count + 1]
    <2>1. UNCHANGED <<pos, count, start>> /\ stage = "writing"
        BY DEF Write
    <2>2. count = 0 /\ start.count = 0 /\ 0 + 1 \in 1 .. n + 1
        BY <1>3, <2>1 DEF ReaderInv
    <2>3. pos = b[0 + 1] /\ start.pos = b[0 + 1]
        BY <2>2 DEF Starts
    <2>4. d[0 + 1] = b[0 + 1]
        BY <1>9, <2>2
    <2> QED BY <2>1, <2>2, <2>3, <2>4
<1>16. Starts(d)'
    BY <1>9, <1>12, <1>13, <1>14, <1>15 DEF Starts
<1> QED BY <1>16

LEMMA WriteKeeps ==
    ASSUME IInv, NEW rec \in ToWrite, Write(rec) PROVE IInv'
<1>1. /\ LogInv /\ HeaderInv /\ SettingsInv /\ ReaderInv /\ ObjectsInv
    BY DEF IInv
<1>2. LogInv' /\ HeaderInv' /\ SettingsInv'
    BY <1>1, WriteKeepsLog, WriteKeepsHeader, WriteKeepsSettings
<1>3. (\E d : Starts(d))'
    <2>1. PICK b : Starts(b)
        BY DEF IInv
    <2> QED BY <1>1, <2>1, WriteKeepsStarts
<1>4. /\ stage = "writing" /\ stage' = "writing" /\ menu' = menu
      /\ UNCHANGED <<pos, count, start, reader, cache, held>>
    BY DEF Write
<1>5. count = 0 /\ start = [pos |-> 1, count |-> 0] /\ held = <<>>
    BY <1>1, <1>4 DEF ReaderInv
<1>6. Len(log') \in Nat /\ Len(menu.header) \in Nat
    BY <1>1, <1>2, LengthOfLog DEF LogInv
<1>7. ReaderInv'
    <2>1. Agree(reader, StrmAt(count))'
        <3>1. StrmAt(count)' = StrmAt(count) /\ reader' = reader
            BY <1>4, <1>5 DEF StrmAt
        <3> QED BY <1>1, <3>1 DEF ReaderInv, Agree
    <2>2. /\ count' \in 0 .. Len(log')
          /\ start'.count <= Len(menu'.header) /\ start'.count <= Len(log')
        BY <1>4, <1>5, <1>6
    <2>3. start' \in [pos : Nat, count : Nat] /\ reader' \in Strm
        BY <1>1, <1>4 DEF ReaderInv
    <2> QED BY <1>4, <1>5, <2>1, <2>2, <2>3 DEF ReaderInv
<1>8. ObjectsInv'
    <2>1. /\ cache' \in Seq(Objects) /\ \A i \in 1 .. Len(cache') : HasShape(cache'[i])
          /\ held' = <<>>
        BY <1>1, <1>4, <1>5 DEF ObjectsInv
    <2>2. held' \in Seq([object : Objects, number : Nat]) /\ Len(held') = 0
        BY <2>1
    <2> QED BY <2>1, <2>2 DEF ObjectsInv
<1> QED BY <1>2, <1>3, <1>7, <1>8 DEF IInv

-----------------------------------------------------------------------------
(* Steps, and what follows for the whole program. *)

LEMMA NextInv == IInv /\ [Next]_vars => IInv'
<1> SUFFICES ASSUME IInv, [Next]_vars PROVE IInv'
    OBVIOUS
<1>1. ASSUME NEW rec \in ToWrite, Write(rec) PROVE IInv'
    BY <1>1, WriteKeeps
<1>2. ASSUME NEW rec \in ToWrite, WriteRefused(rec) PROVE IInv'
    BY <1>2, NothingMoves DEF WriteRefused
<1>3. CASE Open
    BY <1>3, NothingMoves DEF Open
<1>4. CASE Read
    BY <1>4, ReadKeeps
<1>5. CASE Rewind
    BY <1>5, RewindKeeps
<1>6. ASSUME NEW i \in 1 .. Len(held),
             Release(i) \/ ReleaseElsewhere(i) \/ GetVersionString(i)
      PROVE  IInv'
    BY <1>6, ReleaseKeeps, ReleaseElsewhereKeeps, GetVersionStringKeeps
<1>7. CASE UNCHANGED vars
    <2>1. UNCHANGED <<written, stage, pos, count, start, reader, cache, held>>
        BY <1>7 DEF vars
    <2>2. stage \in {"writing", "refused", "reading"} /\ (stage = "reading" => ~HeaderLeft)
        BY DEF IInv, ReaderInv
    <2> QED BY <2>1, <2>2, NothingMoves
<1> QED BY <1>1, <1>2, <1>3, <1>4, <1>5, <1>6, <1>7 DEF Next

LEMMA InvImplies == IInv => TypeOK /\ ReadsAreWrites /\ StreamsMeet
<1> SUFFICES ASSUME IInv PROVE TypeOK /\ ReadsAreWrites /\ StreamsMeet
    OBVIOUS
<1>1. /\ LogInv /\ ReaderInv /\ ObjectsInv /\ Len(log) \in Nat
    BY LengthOfLog DEF IInv
<1>2. ReadsAreWrites
    <2>1. ASSUME NEW i \in 1 .. Len(held) PROVE Holds(held[i].object, log[held[i].number])
        BY <1>1, HeldFacts DEF HoldsOwn
    <2>2. stage # "failed"
        BY <1>1 DEF ReaderInv
    <2> QED BY <2>1, <2>2 DEF ReadsAreWrites, Holds
<1>3. StreamsMeet
    <2>1. ASSUME count > 0 PROVE StrmAt(count) = log[count].strm
        BY <1>1, <2>1 DEF StrmAt, ReaderInv
    <2>2. Agree(reader, StrmAt(count))
        BY <1>1 DEF ReaderInv
    <2> QED BY <2>1, <2>2 DEF StreamsMeet, Agree
<1>4. TypeOK
    <2>1. PICK b : Starts(b)
        BY DEF IInv
    <2>2. pos \in 1 .. Len(trace) + 1
        <3>1. /\ count \in 0 .. Len(log) /\ trace \in Seq(Nat) /\ b \in Seq(Nat \ {0})
              /\ Len(b) = Len(log) + 1
            BY <1>1, <2>1 DEF ReaderInv, LogInv, Starts
        <3>2. count + 1 \in 1 .. Len(log) + 1
            BY <1>1, <3>1
        <3>3. pos = b[count + 1] /\ b[count + 1] <= Len(trace) + 1
            BY <2>1, <3>2 DEF Starts
        <3>4. b[count + 1] \in Nat \ {0}
            BY <3>1, <3>2, ElementOfSequence
        <3> QED BY <3>1, <3>3, <3>4
    <2>3. writer \in Strm
        <3>1. Len(log) \in 0 .. Len(log)
            BY <1>1
        <3>2. StrmAt(Len(log)) \in Strm
            BY <1>1, <3>1, StrmAtIsStrm
        <3> QED BY <1>1, <3>2 DEF LogInv
    <2>4. ASSUME NEW i \in 1 .. Len(cache) PROVE IsObject(cache[i])
        <3>1. cache[i] \in Objects /\ HasShape(cache[i])
            BY <1>1, ElementOfSequence DEF ObjectsInv
        <3> QED BY <3>1 DEF IsObject, Objects
    <2>5. ASSUME NEW i \in 1 .. Len(held)
          PROVE  IsObject(held[i].object) /\ held[i].number \in 1 .. Len(log)
        <3>1. held[i].object \in Objects /\ HasShape(held[i].object) /\ HoldsOwn(held[i], log)
            BY <1>1, HeldFacts
        <3> QED BY <3>1 DEF IsObject, Objects, HoldsOwn
    <2>6. /\ stage \in {"writing", "refused", "reading", "failed"} /\ reader \in Strm
          /\ count \in 0 .. Len(log)
        BY <1>1 DEF ReaderInv
    <2> QED BY <2>2, <2>3, <2>4, <2>5, <2>6 DEF TypeOK
<1> QED BY <1>2, <1>3, <1>4

\* Objects, in the cache or held by the caller, have the shape of the record
\* they were made for, and the reader stays inside the trace.
THEOREM TypeCorrect == Spec => []TypeOK
BY InitInv, NextInv, InvImplies, PTL DEF Spec

\* Whatever is written, and into whatever recycled objects it is read, what the
\* caller of Factory::construct holds is the record at its place in the trace,
\* and unpack_impl never throws on what pack_impl wrote.
THEOREM ReadsAreRight == Spec => []ReadsAreWrites
BY InitInv, NextInv, InvImplies, PTL DEF Spec

\* STFIFstream remembers at every record what STFOFstream did, also once it was
\* rewound and has been reading again.
THEOREM StreamsAgree == Spec => []StreamsMeet
BY InitInv, NextInv, InvImplies, PTL DEF Spec
=============================================================================
