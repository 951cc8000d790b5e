------------------------------ MODULE InstTrace ------------------------------
(***************************************************************************)
(* What the readers of instructions and of branches have in common: the    *)
(* trace and its records, the skipping of code that is not the user's, and *)
(* the window of items read ahead.                                         *)
(*                                                                         *)
(* A record is [kind, fields, list] as in Records, with these differences: *)
(* a register is one number (see RegState), a list holds numbers, and an   *)
(* opcode is <<its low 31 bits, bit 31>>.                                  *)
(***************************************************************************)
EXTENDS Records, RegState, Integers, FiniteSets
LOCAL INSTANCE SequencesExt

CONSTANTS
    Scenes,    \* the traces and the options they are read with:
               \* [iem, pc, only_user_mode, filter_mode_change_events,
               \*  ignored_records, insts], each of insts the records up to an
               \* opcode (the last one may lack it) and [truth], what the
               \* instruction did, which the readers do not look at
    BufferSize \* buffer_size_, the items in a window

\* A power of two, for the ring is indexed with a mask.  (The constructor
\* refuses no size, but a window of 2 ends behind its first item: the refill
\* puts the next item over the caller's.)
ASSUME BufferSizeAssumption == \E k \in 2..BufferSize : BufferSize = 2 ^ k

VARIABLE scene \* the one that is read

Rec(kind, fields, list) == [kind |-> kind, fields |-> fields, list |-> list]
One(kind, data) == Rec(kind, <<data>>, <<>>)

Reg(rec) == rec.fields[1]
OperandType(rec) == rec.fields[2]
Target(rec) == rec.fields[1]

\* INST_MEM_ACCESS.
READ == 1
WRITE == 2
AccessType(rec) == rec.fields[4]

\* EventRecord::TYPE: a number, and two bits on top.
USER_ECALL == <<8, 0>>
ILLEGAL_INST == <<2, 0>>
MODE_CHANGE == <<0, 1>>
GetEvent(rec) == rec.fields
IsModeChange(rec) == GetEvent(rec) = MODE_CHANGE
IsInterrupt(rec) == rec.fields[2] \in {2, 3}
IsSyscall(rec) == rec.fields[2] = 0 /\ rec.fields[1] \in 8 .. 11
IsFault(rec) == ~IsModeChange(rec) /\ ~IsInterrupt(rec) /\ ~IsSyscall(rec)

\* EXECUTION_MODE::USER_MODE.
USER_MODE == 0

-----------------------------------------------------------------------------
(* STFUserModeSkippingReader: between a change from user mode and the      *)
(* instruction behind a change back, items are skipped.                    *)

NewSkipping == [enabled |-> FALSE, disable_on_next_item |-> FALSE]

UpdateSkipping(skipping) ==
    IF skipping.disable_on_next_item THEN NewSkipping ELSE skipping

ShowTheReturn(skipping, is_mode_change, is_change_to_user) ==
    IF is_mode_change /\ scene.only_user_mode
    THEN [skipping EXCEPT !.enabled = ~is_change_to_user]
    ELSE skipping
CheckSkipping(skipping, is_mode_change, is_change_to_user) ==
    IF is_mode_change /\ scene.only_user_mode
    THEN [enabled |-> skipping.enabled \/ ~is_change_to_user,
          disable_on_next_item |-> skipping.disable_on_next_item \/ is_change_to_user]
    ELSE skipping

-----------------------------------------------------------------------------
(* STFBufferedReader: the ring of items is SlidingWindow's; here it is the *)
(* sequence of those from the caller's on.                                 *)
(*                                                                         *)
(* A reader has, besides what it needs itself:                             *)
(*   next         the instructions it has taken from the trace             *)
(*   strm         what its stream remembers                                *)
(*   skipping     see above                                                *)
(*   num_skipped  num_skipped_items_                                       *)
(*   window       the items from the caller's on                           *)
(*   refused      one of its assertions has failed                         *)

NewReader ==
    [next |-> 0, strm |-> [NewStream EXCEPT !.pc = scene.pc, !.next_pc = scene.pc],
     skipping |-> NewSkipping, num_skipped |-> 0, window |-> <<>>, refused |-> FALSE]

NumInstsRead(reader) == reader.strm.markers

\* Of num items read, the one that was read last.
ItemIndex(num, reader) == num - reader.num_skipped
CountSkipped(reader, skip_item) ==
    IF skip_item THEN [reader EXCEPT !.num_skipped = @ + 1] ELSE reader

HasOpcode(recs) == recs # <<>> /\ recs[Len(recs)].kind \in Opcodes
Complete == {i \in 1 .. Len(scene.insts) : HasOpcode(scene.insts[i].recs)}

\* The loop of initItemBuffer_ and fillHalfBuffer_ until there are count more
\* items, or the trace ends.  Step reads one instruction and gives [reader,
\* items], no item or one; Cleanup is for an item that is skipped, Done for
\* the first one that is not, behind those that are.
Fill(reader, count, Step(_, _), Cleanup(_, _), Done(_, _)) ==
    LET size == Len(reader.window) + count
        Keep(r, item, did_skip) ==
            IF item.skipped
            THEN [reader |-> Cleanup(r, item), did_skip |-> TRUE]
            ELSE LET done == IF did_skip THEN Done(r, item)
                             ELSE [reader |-> r, item |-> item]
                 IN  [reader |-> [done.reader EXCEPT !.window = Append(@, done.item)],
                      did_skip |-> FALSE]
        Take(fill, i) ==
            IF fill.reader.refused \/ Len(fill.reader.window) = size
            THEN fill
            ELSE LET step == Step([fill.reader EXCEPT !.next = i], scene.insts[i].recs)
                 IN  IF step.items = <<>> \/ step.reader.refused
                     THEN [fill EXCEPT !.reader = step.reader]
                     ELSE Keep(step.reader, step.items[1], fill.did_skip)
        left == [k \in 1 .. Cardinality(Complete) - reader.next |-> reader.next + k]
    IN  FoldLeft(Take, [reader |-> reader, did_skip |-> FALSE], left).reader

\* initItemBuffer_, and moveToNextItem_ when the caller is at the last item
\* but one; elsewhere it only moves.
InitItemBuffer(reader, Step(_, _), Cleanup(_, _), Done(_, _)) ==
    Fill(reader, BufferSize, Step, Cleanup, Done)
MoveToNextItem(reader, Step(_, _), Cleanup(_, _), Done(_, _)) ==
    LET filled == IF Len(reader.window) = 2
                  THEN Fill(reader, BufferSize \div 2, Step, Cleanup, Done)
                  ELSE reader
    IN  IF filled.refused THEN filled ELSE [filled EXCEPT !.window = Tail(@)]
==============================================================================
