------------------------------ MODULE InstReader -----------------------------
(***************************************************************************)
(* STFInstReader: the records of a trace put together into instructions,   *)
(* STFInst, which the caller goes through with an iterator and may write   *)
(* to another trace.                                                       *)
(*                                                                         *)
(* When only user code is asked for, what is executed between a change     *)
(* from user mode and the change back is skipped: the registers it sets    *)
(* are given as the state of the instruction behind it, and the call that  *)
(* left user mode is given as a nop.                                       *)
(***************************************************************************)
EXTENDS InstTrace, BranchDecoder, TLC
LOCAL INSTANCE SequencesExt

VARIABLES
    insts,     \* the reader
    returned,  \* the instructions its caller has been given, oldest first
    insts_stage \* "closed", "reading", "end", or "refused"

instVars == <<insts, returned, insts_stage>>

-----------------------------------------------------------------------------
(* RecordMap: the records of an instruction, of each kind in the order     *)
(* they were read, the kinds in the order of their descriptors.            *)

InstKinds ==
    {"COMMENT", "INST_IEM", "PROCESS_ID_EXT", "FORCE_PC", "INST_PC_TARGET", "INST_REG",
     "INST_READY_REG", "PAGE_TABLE_WALK", "INST_MEM_ACCESS", "INST_MEM_CONTENT",
     "BUS_MASTER_ACCESS", "BUS_MASTER_CONTENT", "EVENT", "EVENT_PC_TARGET",
     "INST_MICROOP", "INST_OPCODE32", "INST_OPCODE16"}
SortedKinds ==
    [k \in 1 .. Cardinality(InstKinds) |->
        CHOOSE kind \in InstKinds :
            Cardinality({l \in InstKinds : Descriptor[l] < Descriptor[kind]}) = k - 1]

Emplace(map, rec) == [map EXCEPT ![rec.kind] = Append(@, rec)]
NewMap == [kind \in InstKinds |-> <<>>]

-----------------------------------------------------------------------------
(* STFInst. *)

EmptyInst ==
    [orig_records |-> NewMap, flags |-> {}, opcode |-> <<0, 0>>, pc |-> 0,
     branch_target |-> 0, ids |-> <<0, 0, 0>>, has_vstart |-> FALSE, has_vl |-> FALSE,
     operands |-> [type \in {REG_STATE, REG_SOURCE, REG_DEST} |-> <<>>],
     events |-> <<>>, accesses |-> [type \in {READ, WRITE} |-> <<>>],
     last_access |-> 0, skipped |-> FALSE, index |-> 0, unskipped_index |-> 0]

WithFlags(inst, flags) == [inst EXCEPT !.flags = @ \cup flags]

VSTART == CSRegister(8)
VL == CSRegister(\hC20)

AppendOperand(inst, rec) ==
    LET type       == OperandType(rec)
        not_state  == type # REG_STATE
        has_vstart == inst.has_vstart \/ (not_state /\ Reg(rec) = VSTART)
        has_vl     == inst.has_vl \/ (not_state /\ Reg(rec) = VL)
        is_vector  == GetRegType(Reg(rec)) = VECTOR \/ (has_vstart /\ has_vl)
    IN  WithFlags([inst EXCEPT !.operands[type] = Append(@, rec),
                               !.has_vstart = has_vstart, !.has_vl = has_vl],
                  When(not_state /\ GetRegType(Reg(rec)) = FLOATING_POINT, "FP")
                      \cup When(not_state /\ is_vector, "VECTOR"))

AppendMemAccess(inst, rec) ==
    LET type == AccessType(rec)
    IN  WithFlags([inst EXCEPT !.accesses[type] = Append(@, [access |-> rec, content |-> <<>>]),
                               !.last_access = type],
                  {IF type = READ THEN "LOAD" ELSE "STORE"})

\* To the access that was appended last.
AppendMemContent(inst, rec) ==
    LET type == inst.last_access
    IN  [inst EXCEPT !.accesses[type][Len(inst.accesses[type])].content = Append(@, rec)]

SetTakenBranch(inst, target) ==
    [WithFlags(inst, {"TAKEN_BRANCH"}) EXCEPT !.branch_target = target]

AppendEvent(inst, rec) ==
    [inst EXCEPT !.events = Append(@, [event |-> rec, target |-> <<>>])]
SetLastEventTarget(inst, rec) ==
    [inst EXCEPT !.events[Len(inst.events)].target = <<Target(rec)>>]

\* The call that leaves user mode; its records stay as they are.
NOP_OPCODE == <<19, 0>>
SetNop(inst) ==
    [inst EXCEPT !.opcode = NOP_OPCODE, !.events = <<>>, !.flags = {},
                 !.operands[REG_SOURCE] = <<Rec("INST_REG", <<X0, REG_SOURCE>>, <<0>>)>>,
                 !.operands[REG_DEST] = <<>>]

\* setInstInfo_ and what else the opcode settles.
SetInstInfo(inst, rec, reader, ids, is_skipped) ==
    [WithFlags(inst,
               When(IsBranch(scene.iem, rec.kind, reader.strm.pc, rec.fields), "IS_BRANCH")
                   \cup When(rec.kind = "INST_OPCODE16", "OPCODE16"))
        EXCEPT !.opcode = rec.fields, !.pc = reader.strm.pc, !.skipped = is_skipped,
               !.ids = ids, !.last_access = 0]
SetIndex(inst, reader) ==
    [inst EXCEPT !.index = ItemIndex(NumInstsRead(reader), reader),
                 !.unskipped_index = NumInstsRead(reader)]

-----------------------------------------------------------------------------
(* Writing an instruction to a trace.                                      *)

PairedRecords ==
    [kind \in {"INST_MEM_ACCESS", "BUS_MASTER_ACCESS", "EVENT"} |->
        CASE kind = "INST_MEM_ACCESS" -> "INST_MEM_CONTENT"
          [] kind = "BUS_MASTER_ACCESS" -> "BUS_MASTER_CONTENT"
          [] kind = "EVENT" -> "EVENT_PC_TARGET"]
SkippedPairedRecords == {PairedRecords[kind] : kind \in DOMAIN PairedRecords}

\* Each with the next of the second ones, but a change of mode has none unless
\* it is the only event.
Grouped(firsts, seconds) == firsts \o seconds
Paired(firsts, seconds) ==
    LET HasSecond(rec) == ~(rec.kind = "EVENT" /\ IsModeChange(rec))
        Pair(acc, rec) ==
            IF HasSecond(rec)
            THEN [recs |-> acc.recs \o <<rec, seconds[acc.next]>>, next |-> acc.next + 1]
            ELSE [acc EXCEPT !.recs = Append(@, rec)]
    IN  IF Len(firsts) = 1 /\ ~HasSecond(firsts[1]) THEN firsts \o seconds
        ELSE FoldLeft(Pair, [recs |-> <<>>, next |-> 1], firsts).recs

\* writeRecordPairs_ asserts that there are as many of both, and one target at
\* most; for events it just takes them (see the README).
MayWrite(inst) ==
    \A kind \in DOMAIN PairedRecords :
        LET firsts  == inst.orig_records[kind]
            seconds == inst.orig_records[PairedRecords[kind]]
            targets == SelectSeq(firsts, LAMBDA rec : ~IsModeChange(rec))
        IN  IF kind = "EVENT"
            THEN IF Len(firsts) = 1 /\ targets = <<>> THEN Len(seconds) <= 1
                 ELSE Len(seconds) >= Len(targets)
            ELSE Len(seconds) = Len(firsts)

WriteKind(inst, kind) ==
    IF kind \in DOMAIN PairedRecords
    THEN Paired(inst.orig_records[kind], inst.orig_records[PairedRecords[kind]])
    ELSE IF kind \in SkippedPairedRecords THEN <<>>
    ELSE inst.orig_records[kind]

\* STFInst::write, without the records the caller filters out.
Write(inst, filtered_recs) ==
    FlattenSeq([k \in 1 .. Len(SortedKinds) |->
                   IF SortedKinds[k] \in filtered_recs THEN <<>>
                   ELSE WriteKind(inst, SortedKinds[k])])

-----------------------------------------------------------------------------
(* STFInstReader::readNext_, record by record: the reader, the instruction *)
(* so far, and the variables of the loop.                                  *)

StartInst(reader) ==
    LET skipping == UpdateSkipping(reader.skipping)
    IN  [reader |-> [reader EXCEPT !.skipping = skipping], inst |-> EmptyInst,
         event_valid |-> FALSE, filtered_mode_change |-> FALSE,
         pending_user_syscall |-> FALSE, skipping_already_enabled |-> skipping.enabled]

Refuse(work) == [work EXCEPT !.reader.refused = TRUE]

EventFlags(rec) ==
    CASE IsModeChange(rec) ->
            {IF rec.list[1] = USER_MODE THEN "CHANGE_TO_USER" ELSE "CHANGE_FROM_USER"}
      [] IsSyscall(rec) -> {"SYSCALL"}
      [] IsFault(rec) -> {"FAULT"}
      [] IsInterrupt(rec) -> {"INTERRUPT"}
      [] OTHER -> {}

\* The events that leave user mode for good: the instruction is not executed
\* again behind the change back.
LeavesUserMode(rec, work) ==
    \/ GetEvent(rec) = USER_ECALL
    \/ GetEvent(rec) = ILLEGAL_INST /\ ~work.skipping_already_enabled

OnEvent(work, rec) ==
    LET inst     == WithFlags(work.inst, EventFlags(rec))
        filtered == IsModeChange(rec)
                        /\ (scene.only_user_mode \/ scene.filter_mode_change_events)
    IN  [work EXCEPT
            !.inst = IF filtered THEN inst ELSE AppendEvent(inst, rec),
            !.event_valid = TRUE,
            !.filtered_mode_change = @ \/ filtered,
            !.reader.skipping = CheckSkipping(@, IsModeChange(rec),
                                              "CHANGE_TO_USER" \in inst.flags),
            !.pending_user_syscall = @ \/ (scene.only_user_mode /\ LeavesUserMode(rec, work))]

OnEventTarget(work, rec) ==
    IF ~work.event_valid THEN Refuse(work)
    ELSE [work EXCEPT
             !.event_valid = FALSE,
             !.inst = IF work.filtered_mode_change THEN @ ELSE SetLastEventTarget(@, rec)]

OnMemContent(work, rec) ==
    IF work.inst.last_access = 0 THEN Refuse(work)
    ELSE [work EXCEPT !.inst = AppendMemContent(@, rec)]

\* finalizeInst_.
OnOpcode(work, rec) ==
    LET nop    == work.pending_user_syscall
        skip   == work.reader.skipping.enabled /\ ~nop
        reader == CountSkipped(work.reader, skip)
        info   == SetInstInfo(work.inst, rec, reader, reader.ids, skip)
        inst   == IF nop THEN SetNop(info) ELSE info
    IN  [work EXCEPT !.reader = reader, !.pending_user_syscall = FALSE,
                     !.inst = WithFlags(SetIndex(inst, reader), {"VALID"})]

OnRecord(work, rec) ==
    CASE rec.kind = "INST_REG" -> [work EXCEPT !.inst = AppendOperand(@, rec)]
      [] rec.kind \in Opcodes -> OnOpcode(work, rec)
      [] rec.kind = "INST_MEM_ACCESS" -> [work EXCEPT !.inst = AppendMemAccess(@, rec)]
      [] rec.kind = "INST_MEM_CONTENT" -> OnMemContent(work, rec)
      [] rec.kind = "INST_PC_TARGET" -> [work EXCEPT !.inst = SetTakenBranch(@, Target(rec))]
      [] rec.kind = "EVENT" -> OnEvent(work, rec)
      [] rec.kind = "EVENT_PC_TARGET" -> OnEventTarget(work, rec)
      [] rec.kind = "FORCE_PC" -> [work EXCEPT !.inst = WithFlags(@, {"COF"})]
      [] rec.kind = "PROCESS_ID_EXT" -> [work EXCEPT !.reader.ids = rec.fields]
      [] OTHER -> work

\* readRecord_ moves the stream on and leaves out what the filter ignores; the
\* instruction owns the others.
ReadRecord(work, rec) ==
    LET moved == [work EXCEPT !.reader.strm = Passed(rec.kind, rec, @)]
    IN  IF work.reader.refused THEN work
        ELSE IF rec.kind \in scene.ignored_records
        THEN [moved EXCEPT !.event_valid = FALSE]
        ELSE OnRecord([moved EXCEPT !.inst.orig_records = Emplace(@, rec)], rec)

ReadNextInst(reader, recs) ==
    LET work == FoldLeft(ReadRecord, StartInst(reader), recs)
    IN  [reader |-> work.reader, items |-> <<work.inst>>]

ForgetWritten(reader, inst) ==
    LET Update(r, rec) == [r EXCEPT !.reg_state = RegStateUpdate(@, Reg(rec), rec.list)]
    IN  FoldLeft(Update, reader, inst.operands[REG_STATE] \o inst.operands[REG_SOURCE])

\* Every register of an instruction that is skipped goes into the state.
SkippedCleanup(reader, inst) ==
    LET Update(r, rec) ==
            IF MayUpdate(r.reg_state, Reg(rec))
            THEN [r EXCEPT !.reg_state = RegStateUpdate(@, Reg(rec), rec.list)]
            ELSE [r EXCEPT !.refused = TRUE]
    IN  FoldLeft(Update, reader,
                 inst.operands[REG_STATE] \o inst.operands[REG_SOURCE] \o inst.operands[REG_DEST])

\* applyRegisterState_: the state takes the place of the instruction's own.
ApplyRegisterState(inst, reg_state) ==
    LET regs   == InOrder(DOMAIN reg_state.regs)
        states == [k \in 1 .. Len(regs) |->
                      Rec("INST_REG", <<regs[k], REG_STATE>>, reg_state.regs[regs[k]])]
    IN  [inst EXCEPT !.operands[REG_STATE] = states,
                     !.orig_records.INST_REG = @ \o states]
SkippingDone(reader, inst) ==
    [reader |-> [reader EXCEPT !.reg_state = StateClear(@)],
     item |-> ApplyRegisterState(inst, reader.reg_state)]

-----------------------------------------------------------------------------
(* The caller. *)

NewInstReader == NewReader @@ [ids |-> <<0, 0, 0>>, reg_state |-> NewRegState(scene.iem)]

InstInit == insts = NewInstReader /\ returned = <<>> /\ insts_stage = "closed"

\* What the caller sees next: an item, the end, or an exception.
InstsAre(reader) ==
    /\ insts' = reader
    /\ IF reader.refused \/ reader.window = <<>>
       THEN /\ insts_stage' = IF reader.refused THEN "refused" ELSE "end"
            /\ UNCHANGED returned
       ELSE /\ insts_stage' = "reading"
            /\ returned' = Append(returned, reader.window[1])

\* open() and begin().
InstOpen ==
    /\ insts_stage = "closed"
    /\ InstsAre(InitItemBuffer(insts, ReadNextInst, SkippedCleanup, SkippingDone))

\* iterator::operator++.
InstIncrement ==
    /\ insts_stage = "reading"
    /\ InstsAre(MoveToNextItem(insts, ReadNextInst, SkippedCleanup, SkippingDone))

InstNext == InstOpen \/ InstIncrement
==============================================================================
