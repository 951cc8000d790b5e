------------------------------- MODULE Protocols ------------------------------
(***************************************************************************)
(* What a transaction carries: the data of its protocol, TileLink, and the *)
(* metadata behind its own fields.                                         *)
(*                                                                         *)
(* As in Records, a trace is a sequence of cells, one for each number the  *)
(* code writes with its own width.                                         *)
(***************************************************************************)
EXTENDS Integers, SequencesExt

CONSTANT
    ArgumentOrder \* the order in which the compiled code evaluates the arguments
                  \* of a call, which C++ leaves to the compiler

ASSUME ArgumentOrderAssumption == ArgumentOrder \in {"forward", "backward"}

TILELINK == 1

-----------------------------------------------------------------------------
(* The channels and their fields, in order.  Data is a vector, Mask a      *)
(* packed vector of bits, any other field a number.                        *)

Request == <<"Code", "Param", "Size", "Source", "Data", "Address">>
Channels ==
    [CHANNEL_A |-> Append(Request, "Mask"), CHANNEL_B |-> Append(Request, "Mask"),
     CHANNEL_C |-> Request,
     CHANNEL_D |-> <<"Code", "Param", "Size", "Source", "Data", "Sink">>,
     CHANNEL_E |-> <<"Sink">>]
ChannelIds ==
    [CHANNEL_A |-> 0, CHANNEL_B |-> 1, CHANNEL_C |-> 2, CHANNEL_D |-> 3, CHANNEL_E |-> 4]
ChannelOf(id) == CHOOSE channel \in DOMAIN ChannelIds : ChannelIds[channel] = id

\* SerializablePackedBitVector: eight bits to a cell.
PackedSize(n) == (n + 7) \div 8
PackedBits(bits) ==
    LET Bit(i) == IF i <= Len(bits) THEN bits[i] * 2 ^ ((i - 1) % 8) ELSE 0
    IN  [k \in 1 .. PackedSize(Len(bits)) |->
            FoldLeft(LAMBDA sum, j : sum + Bit(8 * (k - 1) + j), 0, <<1, 2, 3, 4, 5, 6, 7, 8>>)]
UnpackedBits(packed, n) ==
    [i \in 1 .. n |-> (packed[((i - 1) \div 8) + 1] \div 2 ^ ((i - 1) % 8)) % 2]

FieldCells(name, value) ==
    CASE name = "Data" -> <<Len(value)>> \o value
      [] name = "Mask" -> <<Len(value)>> \o PackedBits(value)
      [] OTHER -> <<value>>

\* Reading goes on from a place [at, ok]: ok falls at the end of the trace.
Holds(cells, at, n) == at + n - 1 <= Len(cells)
SizeAt(cells, name, at) ==
    CASE name = "Data" -> 1 + cells[at]
      [] name = "Mask" -> 1 + PackedSize(cells[at])
      [] OTHER -> 1
ValueAt(cells, name, at) ==
    LET elements == SubSeq(cells, at + 1, at + SizeAt(cells, name, at) - 1)
    IN  CASE name = "Data" -> elements
          [] name = "Mask" -> UnpackedBits(elements, cells[at])
          [] OTHER -> cells[at]

\* A channel is [channel, fields], the fields in the order of Channels.
ChannelCells(data) ==
    LET names == Channels[data.channel]
    IN  FlattenSeq([k \in 1 .. Len(names) |-> FieldCells(names[k], data.fields[k])])

\* unpack_impl of a channel takes the fields in order; the constructor of a new
\* one makes them in the arguments of a call.
ReadField(cells, acc, name) ==
    IF ~acc.ok \/ ~Holds(cells, acc.at, 1) THEN [acc EXCEPT !.ok = FALSE]
    ELSE IF ~Holds(cells, acc.at, SizeAt(cells, name, acc.at)) THEN [acc EXCEPT !.ok = FALSE]
    ELSE [ok |-> TRUE, at |-> acc.at + SizeAt(cells, name, acc.at),
          values |-> Append(acc.values, ValueAt(cells, name, acc.at))]
ReadChannel(cells, at, channel, is_new) ==
    LET backward == is_new /\ ArgumentOrder = "backward"
        names    == IF backward THEN Reverse(Channels[channel]) ELSE Channels[channel]
        Next1(acc, name) == ReadField(cells, acc, name)
        read == FoldLeft(Next1, [ok |-> TRUE, at |-> at, values |-> <<>>], names)
    IN  [ok |-> read.ok, at |-> read.at,
         data |-> [channel |-> channel,
                   fields |-> IF backward THEN Reverse(read.values) ELSE read.values]]

-----------------------------------------------------------------------------
(* Metadata: a counted list of elements, each a type and a number of it.   *)

MetadataCells(metadata) == <<Len(metadata)>> \o FlattenSeq(metadata)
MetadataSize(count) == 1 + 2 * count
MetadataAt(cells, at) ==
    [k \in 1 .. cells[at] |-> <<cells[at + 2 * k - 1], cells[at + 2 * k]>>]

-----------------------------------------------------------------------------
(* Records of a transaction trace behind its header.                       *)

COMMENT == 3
TRANSACTION == 250
TRANSACTION_DEPENDENCY == 251

DependencyCells(dep) == <<TRANSACTION_DEPENDENCY, dep.id, dep.delta, dep.clock>>
CommentCells == <<COMMENT>>

\* Up to the data of the protocol, which are written once they are known to be
\* of the trace's protocol.
TransactionHead(txn) ==
    <<TRANSACTION, txn.id, txn.delta, txn.clock>> \o MetadataCells(txn.metadata)
TransactionCells(txn) ==
    TransactionHead(txn) \o <<ChannelIds[txn.data.channel]>> \o ChannelCells(txn.data)

Failed == [ok |-> FALSE]

\* unpack_impl of a transaction behind its descriptor.
TransactionAt(cells, at, is_new) ==
    IF ~Holds(cells, at, 4) \/ ~Holds(cells, at + 3, MetadataSize(cells[at + 3]) + 1)
    THEN Failed
    ELSE LET behind == at + 3 + MetadataSize(cells[at + 3])
             read   == ReadChannel(cells, behind + 1, ChannelOf(cells[behind]), is_new)
         IN  IF ~read.ok THEN Failed
             ELSE [ok |-> TRUE, at |-> read.at,
                   txn |-> [id |-> cells[at], delta |-> cells[at + 1], clock |-> cells[at + 2],
                            metadata |-> MetadataAt(cells, at + 3), data |-> read.data]]
DependencyAt(cells, at) ==
    IF ~Holds(cells, at, 3) THEN Failed
    ELSE [ok |-> TRUE, at |-> at + 3,
          dep |-> [id |-> cells[at], delta |-> cells[at + 1], clock |-> cells[at + 2]]]
==============================================================================
