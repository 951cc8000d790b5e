----------------------------- MODULE BranchReader ----------------------------
(***************************************************************************)
(* STFBranchReader: the branches of a trace, with their targets, operands  *)
(* and the opcodes they lead to.  Instructions that are no branches leave  *)
(* no item; an event, an access to memory or an operand no branch has      *)
(* tells that from the records before the opcode.                          *)
(***************************************************************************)
EXTENDS InstTrace, BranchDecoder, TLC
LOCAL INSTANCE SequencesExt

VARIABLES
    branches,       \* the reader
    delivered,      \* the branches its caller has been given, oldest first
    branches_stage  \* "closed", "reading", "end", or "refused"

branchVars == <<branches, delivered, branches_stage>>

-----------------------------------------------------------------------------
(* STFBranch and its maps of operands, sequences of <<register, value>>.   *)

NotTaken == [taken |-> FALSE, target |-> 0]
SetTaken(target) == [taken |-> TRUE, target |-> target]

AddOperand(map, rec) == Append(map, <<Reg(rec), rec.list[1]>>)
HasOperand(map, reg) == \E i \in 1 .. Len(map) : map[i][1] = reg
GetOperand(map, reg) ==
    IF HasOperand(map, reg)
    THEN map[CHOOSE i \in 1 .. Len(map) :
                map[i][1] = reg /\ \A j \in 1 .. i - 1 : map[j][1] # reg][2]
    ELSE 0
Value1(map, reg) == IF reg = STF_REG_INVALID THEN 0 ELSE GetOperand(map, reg)

\* Traces may leave x0 out.
WithX0(map, regs) ==
    IF X0 \in regs /\ ~HasOperand(map, X0) THEN Append(map, <<X0, 0>>) ELSE map
MaxOperands == 2

\* validateBranchTarget_: an indirect branch goes where the trace says, and a
\* direct one must.
ValidTarget(so_far, info) ==
    IF "indirect" \in info.is THEN so_far.target # 0
    ELSE so_far.taken => so_far.target = info.target
BranchTarget(so_far, info) ==
    IF "indirect" \in info.is THEN so_far.target ELSE info.target

-----------------------------------------------------------------------------
(* STFBranchReader::readNext_, one instruction at a time: the reader, what *)
(* is known of the branch, and the branch once there is one.               *)

NewBranchReader ==
    NewReader @@ [num_branches |-> 0, num_skipped_insts |-> 0, last_branch |-> FALSE]

StartBranch(reader) ==
    [reader |-> reader, so_far |-> NotTaken, src |-> <<>>, dest |-> <<>>,
     not_a_branch |-> FALSE, items |-> <<>>]

RefuseBranch(work) == [work EXCEPT !.reader.refused = TRUE]

\* updateLastBranch_: the taken branch read last is the last of the window.
UpdateLastBranch(reader, rec) ==
    LET last == Len(reader.window)
    IN  IF ~reader.last_branch THEN reader
        ELSE IF reader.window[last].target # reader.strm.pc
        THEN [reader EXCEPT !.refused = TRUE]
        ELSE [reader EXCEPT !.window[last].target_opcode = <<rec.fields>>,
                            !.last_branch = FALSE]

CountNoInst(reader) == reader
CountSkippedInst(reader) ==
    IF reader.skipping.enabled THEN [reader EXCEPT !.num_skipped_insts = @ + 1] ELSE reader

\* initItemIndex_ of the branch reader.
BranchIndex(reader) ==
    [index |-> ItemIndex(reader.num_branches, reader),
     unskipped_index |-> reader.num_branches,
     inst_index |-> NumInstsRead(reader) - reader.num_skipped_insts,
     unskipped_inst_index |-> NumInstsRead(reader)]

LeaveLastBranch(work, rec) ==
    [work EXCEPT !.reader = [CountSkippedInst(@) EXCEPT !.skipping = UpdateSkipping(@)]]

\* finalizeNotABranch_; updateSkipping_ is left to the next instruction.
FinalizeNotABranch(work, rec) ==
    LET counted == CountSkippedInst(UpdateLastBranch(work.reader, rec))
    IN  [work EXCEPT !.reader = [counted EXCEPT !.skipping = UpdateSkipping(@)]]

\* finalizeBranch_ with what the decoder has found; the next readNext_ begins
\* with updateSkipping_.
SetBranch(work, rec, reader, skip, src, dest, info) ==
    LET branch == [pc |-> reader.strm.pc, opcode |-> rec.fields,
                   target |-> BranchTarget(work.so_far, info), target_opcode |-> <<>>,
                   taken |-> work.so_far.taken, is |-> info.is,
                   compressed |-> rec.kind = "INST_OPCODE16",
                   rs1 |-> info.rs1, rs2 |-> info.rs2, rd |-> info.rd,
                   rs1_value |-> Value1(src, info.rs1), rs2_value |-> Value1(src, info.rs2),
                   rd_value |-> Value1(dest, info.rd), skipped |-> skip]
    IN  [work EXCEPT !.reader = [CountSkipped(reader, skip) EXCEPT
                                    !.last_branch = branch.taken,
                                    !.skipping = UpdateSkipping(@)],
                     !.items = <<branch @@ BranchIndex(reader)>>]
TryBranch(work, rec, counted, info) ==
    LET skip   == work.reader.skipping.enabled
        src    == WithX0(work.src, {info.rs1, info.rs2})
        reader == [counted EXCEPT !.num_branches = @ + 1]
    IN  IF ~info.is_branch
        THEN IF work.so_far.taken THEN RefuseBranch(work) ELSE [work EXCEPT !.reader = counted]
        ELSE IF ~ValidTarget(work.so_far, info) \/ Len(src) > MaxOperands
        THEN RefuseBranch(work)
        ELSE SetBranch(work, rec, reader, skip, src, WithX0(work.dest, {info.rd}), info)
FinalizeBranch(work, rec) ==
    LET counted == CountSkippedInst(UpdateLastBranch(work.reader, rec))
    IN  TryBranch(work, rec, counted, Decode(scene.iem, rec.kind, counted.strm.pc, rec.fields))

\* Branches read two integer registers and write one, at most.
OnBranchOperand(work, rec) ==
    CASE OperandType(rec) = REG_STATE -> work
      [] GetRegType(Reg(rec)) # INTEGER -> [work EXCEPT !.not_a_branch = TRUE]
      [] OperandType(rec) = REG_SOURCE /\ Len(work.src) < MaxOperands ->
            [work EXCEPT !.src = AddOperand(@, rec)]
      [] OperandType(rec) = REG_DEST /\ Len(work.dest) = 0 ->
            [work EXCEPT !.dest = AddOperand(@, rec)]
      [] OTHER -> [work EXCEPT !.not_a_branch = TRUE]

OnBranchEvent(work, rec) ==
    [work EXCEPT !.not_a_branch = TRUE,
                 !.reader.skipping = CheckSkipping(@, IsModeChange(rec),
                                                   rec.list[1] = USER_MODE)]

OnBranchRecord(work, rec) ==
    CASE rec.kind = "EVENT" -> OnBranchEvent(work, rec)
      [] rec.kind \in Opcodes /\ work.not_a_branch -> FinalizeNotABranch(work, rec)
      [] rec.kind \in Opcodes /\ ~work.not_a_branch -> FinalizeBranch(work, rec)
      [] rec.kind = "INST_REG" /\ ~work.not_a_branch -> OnBranchOperand(work, rec)
      [] rec.kind = "INST_MEM_ACCESS" -> [work EXCEPT !.not_a_branch = TRUE]
      [] rec.kind = "INST_PC_TARGET" /\ ~work.not_a_branch ->
            [work EXCEPT !.so_far = SetTaken(Target(rec))]
      [] OTHER -> work

ReadNextBranch(reader, recs) ==
    LET Read(work, rec) ==
            IF work.reader.refused THEN work
            ELSE OnBranchRecord([work EXCEPT !.reader.strm = Passed(rec.kind, rec, @)], rec)
        work == FoldLeft(Read, StartBranch(reader), recs)
    IN  [reader |-> work.reader, items |-> work.items]

\* skippedCleanup_ forgets a branch that is skipped; skippingDone_ does nothing.
ForgetBranch(reader, branch) == [reader EXCEPT !.last_branch = FALSE]
NothingDone(reader, branch) == [reader |-> reader, item |-> branch]

-----------------------------------------------------------------------------
(* The caller. *)

BranchInit == branches = NewBranchReader /\ delivered = <<>> /\ branches_stage = "closed"

BranchesAre(reader) ==
    /\ branches' = reader
    /\ IF reader.refused \/ reader.window = <<>>
       THEN /\ branches_stage' = IF reader.refused THEN "refused" ELSE "end"
            /\ UNCHANGED delivered
       ELSE /\ branches_stage' = "reading"
            /\ delivered' = Append(delivered, reader.window[1])

\* open() and begin().
BranchOpen ==
    /\ branches_stage = "closed"
    /\ BranchesAre(InitItemBuffer(branches, ReadNextBranch, ForgetBranch, NothingDone))

\* iterator::operator++.
BranchIncrement ==
    /\ branches_stage = "reading"
    /\ BranchesAre(MoveToNextItem(branches, ReadNextBranch, ForgetBranch, NothingDone))

BranchNext == BranchOpen \/ BranchIncrement
==============================================================================
