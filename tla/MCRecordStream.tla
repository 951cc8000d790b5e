---------------------------- MODULE MCRecordStream ---------------------------
(***************************************************************************)
(* Traces for RecordStream: instructions with branches and forced PCs,     *)
(* registers under several vector lengths, events of both widths, and      *)
(* three records of any kind.  Records a stream keeps to are in headers.   *)
(***************************************************************************)
EXTENDS RecordStream

Rec(kind, fields, list) == [kind |-> kind, fields |-> fields, list |-> list]
One(kind, data) == Rec(kind, <<data>>, <<>>)

Header(settings) == settings \o <<One("FORCE_PC", 100), Rec("END_HEADER", <<>>, <<>>)>>

Instructions ==
    [header |-> Header(<<>>),
     body |-> {One("INST_OPCODE32", 19), One("INST_OPCODE16", 1),
               One("INST_PC_TARGET", 50), One("EVENT_PC_TARGET", 70), One("FORCE_PC", 200)},
     length |-> 3]

\* One scalar register and vectors of one to three words.
Scalar == Rec("INST_REG", <<5, 1, 2>>, << <<9>> >>)
VectorOf(n) == Rec("INST_REG", <<7, Vector, 3>>, [i \in 1 .. n |-> <<20 + i>>])
RegistersUnder(settings) ==
    [header |-> Header(settings),
     body |-> {Scalar} \cup {VectorOf(n) : n \in 1 .. 3}
                 \cup IF settings = <<>> THEN {} ELSE {One("VLEN_CONFIG", 128)},
     length |-> 3]

EventsUnder(settings) ==
    [header |-> Header(settings),
     body |-> {Rec("EVENT", <<3, top>>, list) : top \in 0 .. 2, list \in {<<>>, << <<8>>, <<9>> >>}},
     length |-> 2]

\* Two values of each kind, the second with a shorter list.
Sample(kind, n) ==
    Rec(kind,
        IF kind = "INST_REG" THEN <<n, 1, 2>>
        ELSE [i \in 1 .. Len(Layout[kind].names) |-> n * 8 + i],
        CASE Layout[kind].width = 0 -> <<>>
          [] kind = "INST_REG" -> << <<n>> >>
          [] OTHER -> [i \in 1 .. 3 - n |-> [j \in 1 .. Layout[kind].width |-> 30 + i + j]])
RecordsOf(kind) ==
    [header |-> <<One("PROTOCOL_ID", 1), One("FORCE_PC", 100)>>,
     body |-> {Sample(kind, n) : n \in 1 .. 2}, length |-> 2]
Settings == {"VLEN_CONFIG", "PROTOCOL_ID", "TRACE_INFO_FEATURE"}

MCMenus ==
    {Instructions} \cup {RecordsOf(kind) : kind \in Kinds \ Settings}
        \cup {RegistersUnder(settings) :
                 settings \in {<<>>, <<One("VLEN_CONFIG", 64)>>, <<One("VLEN_CONFIG", 128)>>,
                               <<One("VLEN_CONFIG", 192)>>}}
        \cup {EventsUnder(settings) :
                 settings \in {<<>>, <<One("TRACE_INFO_FEATURE", 2)>>,
                               <<One("TRACE_INFO_FEATURE", 3)>>}}

\* What an earlier trace may have left: a vector register of three words, a
\* trace info whose version string has been asked for, and one of each other
\* kind that holds a list or a memo.
Leftover(kind) ==
    [kind |-> kind, fields |-> Sample(kind, 2).fields,
     list |-> [i \in 1 .. 3 |-> [j \in 1 .. Layout[kind].width |-> 60 + i]],
     memo |-> IF kind = "TRACE_INFO" THEN <<7, 7, 7>> ELSE <<77>>]
MCLeftovers ==
    {<<>>,
     <<[Leftover("INST_REG") EXCEPT !.fields = <<1, Vector, 2>>], Leftover("TRACE_INFO"),
       Leftover("COMMENT"), Leftover("PAGE_TABLE_WALK"), Leftover("EVENT"),
       [Leftover("INST_OPCODE32") EXCEPT !.list = <<>>],
       [Leftover("INST_OPCODE16") EXCEPT !.list = <<>>]>>}
==============================================================================
