------------------------------ MODULE TraceViews -----------------------------
(***************************************************************************)
(* One trace, gone through by an STFInstReader and by an STFBranchReader:  *)
(* what their callers are told of it.                                      *)
(*                                                                         *)
(* The truth of an instruction (see InstTrace) is a record                 *)
(*   pc      where it is                                                   *)
(*   user    it belongs to the user's code: executed in user mode and not  *)
(*           executed again behind a fault or an interrupt                 *)
(*   traps   it is a call that leaves user mode                            *)
(*   branch  <<>>, or <<[target, taken, is, rs1_value, rs2_value,          *)
(*           rd_value]>>                                                   *)
(*   regs    values of registers once it is executed, by the architecture  *)
(***************************************************************************)
EXTENDS InstReader, BranchReader
LOCAL INSTANCE SequencesExt

vars == <<scene, instVars, branchVars>>

Init == scene \in Scenes /\ InstInit /\ BranchInit

Next ==
    \/ InstNext /\ UNCHANGED <<scene, branchVars>>
    \/ BranchNext /\ UNCHANGED <<scene, instVars>>

Spec == Init /\ [][Next]_vars

-----------------------------------------------------------------------------
(* The trace, without its readers. *)

Truth(i) == scene.insts[i].truth
Opcode(i) == LET recs == scene.insts[i].recs IN recs[Len(recs)].fields

\* What is to be shown: everything, or the user's code.
IsShown(i) == scene.only_user_mode => Truth(i).user
All == [i \in 1 .. Cardinality(Complete) |-> i]
ShownInsts == SelectSeq(All, IsShown)
IsShownBranch(i) == IsShown(i) /\ Truth(i).branch # <<>>
ShownBranches == SelectSeq(All, IsShownBranch)

\* A caller that keeps a register state up to date with what an instruction
\* reads and writes.
Learn(rs, inst) ==
    LET Update(state, rec) == RegStateUpdate(state, Reg(rec), rec.list)
    IN  FoldLeft(Update, rs,
                 inst.operands[REG_STATE] \o inst.operands[REG_SOURCE] \o inst.operands[REG_DEST])

\* What a reader of a copy is given: the copy is of the instructions returned.
CopiedInsts ==
    LET Next1(acc, inst) ==
            LET step == ReadNextInst(acc.reader, Write(inst, {}))
            IN  [reader |-> step.reader, items |-> acc.items \o step.items]
    IN  FoldLeft(Next1, [reader |-> NewInstReader, items |-> <<>>], returned).items

-----------------------------------------------------------------------------
(* Properties. *)

\* An instruction reader gives the instructions of the trace, or those of the
\* user's code, each once and in order, and numbers them from 1 on: no change
\* of mode, fault, interrupt or nested trap makes it lose one, show one of the
\* kernel's, or show one twice that is executed again (updateSkipping_,
\* checkSkipping_, finalizeInst_).
UserCodeIsComplete ==
    /\ insts_stage # "refused"
    /\ Len(returned) <= Len(ShownInsts)
    /\ insts_stage = "end" => Len(returned) = Len(ShownInsts)
    /\ \A k \in 1 .. Len(returned) :
           LET inst == returned[k]
               i    == ShownInsts[k]
           IN  /\ inst.unskipped_index = i
               /\ inst.index = k
               /\ inst.pc = Truth(i).pc
               /\ inst.opcode = IF scene.only_user_mode /\ Truth(i).traps
                                THEN NOP_OPCODE ELSE Opcode(i)

\* A caller that learns the registers from the instructions it is given knows
\* what the architecture says they hold, although kernel code between them was
\* skipped: what that code wrote arrives as the state of the instruction behind
\* it, fields of registers included (skippedCleanup_, skippingDone_,
\* regStateUpdate and the bank of every machine).
RegistersCarriedOver ==
    returned # <<>> =>
        LET known == FoldLeft(Learn, NewRegState(scene.iem), returned)
            regs  == Truth(returned[Len(returned)].unskipped_index).regs
        IN  \A reg \in DOMAIN regs :
                HasValue(known, reg) /\ GetRegValue(known, reg) = regs[reg]

\* A trace that is copied an instruction at a time reads like the one it was
\* copied from: the records of an instruction are written by kind and not in
\* the order they were read in, and accesses and events still find their
\* contents and targets (STFInst::write, writeRecordPairs_, readNext_).
CopyReadsTheSame ==
    ~scene.only_user_mode =>
        /\ \A k \in 1 .. Len(returned) :
               LET inst == returned[k]
               IN  /\ MayWrite(inst)
                   /\ \A e \in 1 .. Len(inst.events) :
                          IsModeChange(inst.events[e].event) \/ inst.events[e].target # <<>>
                   /\ \A type \in {READ, WRITE} : \A a \in 1 .. Len(inst.accesses[type]) :
                          Len(inst.accesses[type][a].content) = 1
        /\ (\A k \in 1 .. Len(returned) : MayWrite(returned[k])) => CopiedInsts = returned

\* A branch reader gives the branches of the trace, or of the user's code, each
\* once and in order, with the target, the direction and the values of the
\* operands that the instruction had, and the opcode the branch led to as soon
\* as the trace goes on (decodeBranch_, finalizeBranch_, updateLastBranch_).
BranchesAreTrue ==
    /\ branches_stage # "refused"
    /\ Len(delivered) <= Len(ShownBranches)
    /\ branches_stage = "end" => Len(delivered) = Len(ShownBranches)
    /\ \A k \in 1 .. Len(delivered) :
           LET branch == delivered[k]
               i      == ShownBranches[k]
               truth  == Truth(i).branch[1]
           IN  /\ branch.unskipped_inst_index = i /\ branch.index = k
               /\ branch.pc = Truth(i).pc /\ branch.target = truth.target
               /\ branch.taken = truth.taken
               /\ \A is \in {"conditional", "indirect", "call", "return"} :
                      is \in branch.is <=> is \in truth.is
               /\ branch.rs1_value = truth.rs1_value /\ branch.rs2_value = truth.rs2_value
               /\ branch.rd_value = truth.rd_value
               /\ branch.taken /\ i + 1 \in Complete => branch.target_opcode = <<Opcode(i + 1)>>

\* The two readers tell the same of the same instruction: a branch is the
\* instruction of that number, one that is marked as a branch and taken to the
\* same target, and no instruction so marked is missing among the branches.  Its
\* number among the instructions shown is the instruction's, unless a call that
\* leaves user mode is shown as a nop (finalizeInst_, setInfo_, initItemIndex_).
ViewsAgree ==
    /\ \A b \in 1 .. Len(delivered), k \in 1 .. Len(returned) :
           LET branch == delivered[b]
               inst   == returned[k]
           IN  branch.unskipped_inst_index = inst.unskipped_index =>
                   /\ "IS_BRANCH" \in inst.flags
                   /\ branch.pc = inst.pc /\ branch.opcode = inst.opcode
                   /\ branch.taken <=> "TAKEN_BRANCH" \in inst.flags
                   /\ branch.taken => branch.target = inst.branch_target
                   /\ branch.compressed <=> "OPCODE16" \in inst.flags
                   /\ \/ scene.only_user_mode
                            /\ \E i \in 1 .. inst.unskipped_index : Truth(i).traps
                      \/ branch.inst_index = inst.index
    /\ insts_stage = "end" /\ branches_stage = "end" =>
           Len(SelectSeq(returned, LAMBDA inst : "IS_BRANCH" \in inst.flags)) = Len(delivered)
==============================================================================
