------------------------------- MODULE Records -------------------------------
(***************************************************************************)
(* The records of a trace, what each writes into the trace and reads from  *)
(* it, and what a stream remembers of the records that went through it.    *)
(*                                                                         *)
(* A trace is a sequence of cells, one for each number the code writes     *)
(* with its own width; a text is a counted list of characters.  Lists are  *)
(* shorter than their count can tell (255 for page table entries and the   *)
(* contents of events).                                                    *)
(*                                                                         *)
(* Transactions, whose layout belongs to a protocol, are in Protocols.     *)
(***************************************************************************)
EXTENDS Naturals, Sequences

\* The first cell of a record.
Descriptor ==
    [IDENTIFIER |-> 1, VERSION |-> 2, COMMENT |-> 3, ISA |-> 4, INST_IEM |-> 5,
     TRACE_INFO |-> 6, TRACE_INFO_FEATURE |-> 7, PROCESS_ID_EXT |-> 8,
     FORCE_PC |-> 9, VLEN_CONFIG |-> 10, PROTOCOL_ID |-> 11, CLOCK_ID |-> 12,
     ISA_EXTENDED |-> 13, END_HEADER |-> 19, INST_PC_TARGET |-> 31,
     INST_REG |-> 40, INST_READY_REG |-> 41, PAGE_TABLE_WALK |-> 50,
     INST_MEM_ACCESS |-> 60, INST_MEM_CONTENT |-> 61, BUS_MASTER_ACCESS |-> 62,
     BUS_MASTER_CONTENT |-> 63, EVENT |-> 100, EVENT_PC_TARGET |-> 101,
     INST_MICROOP |-> 230, INST_OPCODE32 |-> 240, INST_OPCODE16 |-> 241,
     TRANSACTION_DEPENDENCY |-> 251]

Kinds == DOMAIN Descriptor
KindOf(code) == CHOOSE kind \in Kinds : Descriptor[kind] = code

-----------------------------------------------------------------------------
(* Layouts: the fields in the order they are written, and the width of the *)
(* elements of the list behind them (0: there is none).                    *)

Fields(names) == [names |-> names, width |-> 0]
Counted(names, width) == [names |-> names, width |-> width]

GenericEmptyRecord == Fields(<<>>)
GenericSingleDataRecord == Fields(<<"data">>)
GenericPCTargetRecord == Fields(<<"addr">>)
GenericOpcodeRecord == Fields(<<"opcode">>)

STFIdentifierRecord == Fields(<<"s", "t", "f">>)
VersionRecord == Fields(<<"major", "minor">>)
CommentRecord == Counted(<<>>, 1)
ISARecord == GenericSingleDataRecord
InstIEMRecord == GenericSingleDataRecord
TraceInfoRecord ==
    Counted(<<"generator", "major_version", "minor_version", "minor_minor_version">>, 1)
TraceInfoFeatureRecord == GenericSingleDataRecord
ProcessIDExtRecord == Fields(<<"hw_thread_id", "pid", "tid">>)
ForcePCRecord == GenericPCTargetRecord
VLenConfigRecord == GenericSingleDataRecord
ProtocolIdRecord == GenericSingleDataRecord
ClockIdRecord == Counted(<<"clock_id">>, 1)
ISAExtendedRecord == Counted(<<>>, 1)
EndOfHeaderRecord == GenericEmptyRecord
InstPCTargetRecord == GenericPCTargetRecord
InstRegRecord == Counted(<<"reg_num", "reg_type", "operand_type">>, 1)
InstReadyRegRecord == GenericSingleDataRecord
PageTableWalkRecord == Counted(<<"va", "index", "page_size">>, 2)
InstMemAccessRecord == Fields(<<"address", "size", "attr", "type">>)
InstMemContentRecord == GenericSingleDataRecord
BusMasterAccessRecord ==
    Fields(<<"address", "size", "src_type", "src_idx", "attr", "access_type">>)
BusMasterContentRecord == GenericSingleDataRecord
EventRecord == Counted(<<"number", "top_bits">>, 1)
EventPCTargetRecord == GenericPCTargetRecord
InstMicroOpRecord == Fields(<<"size", "microop">>)
InstOpcode32Record == GenericOpcodeRecord
InstOpcode16Record == GenericOpcodeRecord
TransactionDependencyRecord == Fields(<<"dependency_id", "cycle_delta", "clock_id">>)

Layout ==
    [IDENTIFIER |-> STFIdentifierRecord, VERSION |-> VersionRecord,
     COMMENT |-> CommentRecord, ISA |-> ISARecord, INST_IEM |-> InstIEMRecord,
     TRACE_INFO |-> TraceInfoRecord, TRACE_INFO_FEATURE |-> TraceInfoFeatureRecord,
     PROCESS_ID_EXT |-> ProcessIDExtRecord, FORCE_PC |-> ForcePCRecord,
     VLEN_CONFIG |-> VLenConfigRecord, PROTOCOL_ID |-> ProtocolIdRecord,
     CLOCK_ID |-> ClockIdRecord, ISA_EXTENDED |-> ISAExtendedRecord,
     END_HEADER |-> EndOfHeaderRecord, INST_PC_TARGET |-> InstPCTargetRecord,
     INST_REG |-> InstRegRecord, INST_READY_REG |-> InstReadyRegRecord,
     PAGE_TABLE_WALK |-> PageTableWalkRecord, INST_MEM_ACCESS |-> InstMemAccessRecord,
     INST_MEM_CONTENT |-> InstMemContentRecord, BUS_MASTER_ACCESS |-> BusMasterAccessRecord,
     BUS_MASTER_CONTENT |-> BusMasterContentRecord, EVENT |-> EventRecord,
     EVENT_PC_TARGET |-> EventPCTargetRecord, INST_MICROOP |-> InstMicroOpRecord,
     INST_OPCODE32 |-> InstOpcode32Record, INST_OPCODE16 |-> InstOpcode16Record,
     TRANSACTION_DEPENDENCY |-> TransactionDependencyRecord]

Opcodes == {"INST_OPCODE32", "INST_OPCODE16"}
Targets == {"INST_PC_TARGET", "EVENT_PC_TARGET"}
OpcodeSize(kind) == IF kind = "INST_OPCODE32" THEN 4 ELSE 2

\* STF_REG_TYPE::VECTOR.
Vector == 3

-----------------------------------------------------------------------------
(* What a stream remembers. *)

NewStream ==
    [vlen |-> 0, protocol_id |-> 0, has_32bit_events |-> FALSE, markers |-> 0,
     pc |-> 0, next_pc |-> 0, target_pc |-> 0, is_branch |-> FALSE]

\* Bits of an element of a vector register.
MinVLen == 64
CalcVectorLen(vlen) == (vlen + MinVLen - 1) \div MinVLen

MaySetVLen(strm, vlen) == strm.vlen = 0 /\ vlen >= MinVLen

\* The feature bit for 64 bit events, among features 0..3.
ContainEvent64(features) == (features % 2) = 1

\* PCTracker::track of a record with an opcode.
TrackOpcode(strm, size) ==
    [strm EXCEPT !.pc = strm.next_pc,
                 !.next_pc = IF strm.is_branch THEN strm.target_pc ELSE @ + size,
                 !.is_branch = FALSE]

\* What the stream remembers once a record of this kind and value has gone
\* through it.
Passed(kind, v, strm) ==
    CASE kind \in Opcodes -> [TrackOpcode(strm, OpcodeSize(kind)) EXCEPT !.markers = @ + 1]
      [] kind \in Targets -> [strm EXCEPT !.target_pc = v.fields[1], !.is_branch = TRUE]
      [] kind = "FORCE_PC" -> [strm EXCEPT !.next_pc = v.fields[1]]
      [] kind = "VLEN_CONFIG" -> [strm EXCEPT !.vlen = v.fields[1]]
      [] kind = "PROTOCOL_ID" -> [strm EXCEPT !.protocol_id = v.fields[1]]
      [] kind = "TRACE_INFO_FEATURE" ->
            [strm EXCEPT !.has_32bit_events = ~ContainEvent64(v.fields[1])]
      [] OTHER -> strm

NoForcePC(strm, initial_pc) == [strm EXCEPT !.pc = initial_pc, !.markers = 0]

\* forcePC with the initial PC, and the count of markers from 0.
Rewound(strm, initial_pc) ==
    [strm EXCEPT !.pc = initial_pc, !.next_pc = initial_pc, !.markers = 0]

-----------------------------------------------------------------------------
(* Writing a value: [fields, list], the elements of the list as tuples. *)

\* The two top bits of an event move from the top of 64 bits to the top of 32;
\* numbers are below TopBit.
TopBit == 64
TypeBits == 16

FieldCells(kind, v, strm) ==
    CASE kind = "EVENT" /\ strm.has_32bit_events ->
            <<v.fields[1] + TopBit * v.fields[2]>>
      [] kind = "INST_REG" -> <<v.fields[1], v.fields[3] * TypeBits + v.fields[2]>>
      [] OTHER -> v.fields

ElementCells(list, width) ==
    [i \in 1 .. Len(list) * width |-> list[((i - 1) \div width) + 1][((i - 1) % width) + 1]]

ListCells(kind, v) ==
    CASE Layout[kind].width = 0 -> <<>>
      [] kind = "INST_REG" -> ElementCells(v.list, 1)
      [] OTHER -> <<Len(v.list)>> \o ElementCells(v.list, Layout[kind].width)

Cells(kind, v, strm) ==
    <<Descriptor[kind]>> \o FieldCells(kind, v, strm) \o ListCells(kind, v)

\* A vector register needs the length the stream is set to, and more than one
\* element: the view of all but the first does not take an empty rest.
VectorIsPackable(strm, len) ==
    strm.vlen # 0 /\ CalcVectorLen(strm.vlen) = len /\ len > 1

MayPack(kind, v, strm) ==
    /\ kind = "VLEN_CONFIG" => MaySetVLen(strm, v.fields[1])
    /\ kind = "INST_REG" => IF v.fields[2] = Vector THEN VectorIsPackable(strm, Len(v.list))
                                           ELSE Len(v.list) = 1

-----------------------------------------------------------------------------
(* Reading.  An object holds a value and a memo of what was found out when *)
(* it was read or asked: the PC of an opcode, the length of a vector, the  *)
(* shift of a page, the version string of a trace info.                    *)

Zeros(n) == [i \in 1 .. n |-> 0]

NewObject(kind) ==
    [kind |-> kind,
     fields |-> Zeros(Len(Layout[kind].names)),
     list |-> IF kind = "INST_REG" THEN << <<0>> >> ELSE <<>>,
     memo |-> <<>>]

FieldCount(kind, strm) ==
    CASE kind = "EVENT" -> IF strm.has_32bit_events THEN 1 ELSE 2
      [] kind = "INST_REG" -> 2
      [] OTHER -> Len(Layout[kind].names)

\* The fields in the cells from "at" on.
FieldsAt(kind, cells, at, strm) ==
    CASE kind = "EVENT" /\ strm.has_32bit_events ->
            <<cells[at] % TopBit, cells[at] \div TopBit>>
      [] kind = "INST_REG" ->
            <<cells[at], cells[at + 1] % TypeBits, cells[at + 1] \div TypeBits>>
      [] OTHER -> SubSeq(cells, at, at + FieldCount(kind, strm) - 1)

ElementsAt(cells, at, n, width) ==
    [i \in 1 .. n |-> SubSeq(cells, at + (i - 1) * width, at + i * width - 1)]

NoScalarResize(object, fields, cells, at, strm) ==
    CASE Layout[object.kind].width = 0 -> <<>>
      [] object.kind = "INST_REG" ->
            IF fields[2] = Vector THEN ElementsAt(cells, at, CalcVectorLen(strm.vlen), 1)
                                  ELSE ElementsAt(cells, at, 1, 1) \o Tail(object.list)
      [] OTHER -> ElementsAt(cells, at + 1, cells[at], Layout[object.kind].width)

\* The list of an object whose fields have been read, with "at" behind them.
ListAt(object, fields, cells, at, strm) ==
    CASE Layout[object.kind].width = 0 -> <<>>
      [] object.kind = "INST_REG" ->
            ElementsAt(cells, at, IF fields[2] = Vector THEN CalcVectorLen(strm.vlen) ELSE 1, 1)
      [] OTHER -> ElementsAt(cells, at + 1, cells[at], Layout[object.kind].width)
ListCellCount(kind, fields, cells, at, strm) ==
    CASE Layout[kind].width = 0 -> 0
      [] kind = "INST_REG" -> IF fields[2] = Vector THEN CalcVectorLen(strm.vlen) ELSE 1
      [] OTHER -> 1 + cells[at] * Layout[kind].width

\* The length of a vector is taken when a vector is read: a register that is
\* none keeps what the object had.  A trace info keeps its version string.
FloorLog2(n) == CHOOSE k \in 0 .. 31 : 2 ^ k <= n /\ n < 2 ^ (k + 1)
Memo(object, fields, strm) ==
    CASE object.kind \in Opcodes -> <<Passed(object.kind, [fields |-> fields], strm).pc>>
      [] object.kind = "INST_REG" /\ fields[2] = Vector -> <<strm.vlen>>
      [] object.kind = "PAGE_TABLE_WALK" -> <<FloorLog2(fields[3])>>
      [] OTHER -> object.memo

MayUnpack(kind, fields, strm) ==
    /\ kind = "VLEN_CONFIG" => MaySetVLen(strm, fields[1])
    /\ kind = "INST_REG" /\ fields[2] = Vector => strm.vlen # 0 /\ CalcVectorLen(strm.vlen) > 1

\* unpack_impl of an object whose record starts, behind its descriptor, at "at".
Unpack(object, cells, at, strm) ==
    LET fields == FieldsAt(object.kind, cells, at, strm)
        behind == at + FieldCount(object.kind, strm)
    IN  [ok     |-> MayUnpack(object.kind, fields, strm),
         object |-> [object EXCEPT !.fields = fields,
                                   !.list = ListAt(object, fields, cells, behind, strm),
                                   !.memo = Memo(object, fields, strm)],
         next   |-> behind + ListCellCount(object.kind, fields, cells, behind, strm),
         strm   |-> Passed(object.kind, [fields |-> fields], strm)]
==============================================================================
