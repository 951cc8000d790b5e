----------------------------- MODULE MCTraceViews ----------------------------
(***************************************************************************)
(* Scenes for TraceViews: programs of a few instructions, put into opcodes *)
(* by the tables of the RISC-V manual and into records the way a simulator *)
(* writes them.                                                            *)
(***************************************************************************)
EXTENDS TraceViews
LOCAL INSTANCE SequencesExt
LOCAL INSTANCE FiniteSetsExt

BasePC == 2 ^ 21

-----------------------------------------------------------------------------
(* A step of a program: the records of an instruction, where it goes, and  *)
(* what is true of it apart from its PC and target.                        *)

NopStep ==
    [recs |-> <<>>, kind |-> "INST_OPCODE32", opcode |-> <<19, 0>>,
     goes |-> "on",          \* or "branch" or "event", by offset or to target
     offset |-> 0, target |-> 0,
     events |-> <<>>,        \* records behind the target of the first event
     user |-> TRUE, traps |-> FALSE, branch |-> <<>>, regs |-> [r \in {} |-> <<>>]]

ForcedPCs(step) == SelectSeq(step.recs, LAMBDA rec : rec.kind = "FORCE_PC")
PcOf(step, pc) == IF ForcedPCs(step) = <<>> THEN pc ELSE Target(ForcedPCs(step)[1])
GoesTo(step, pc) == IF step.target # 0 THEN step.target ELSE pc + step.offset

StepRecs(step, pc) ==
    LET to == GoesTo(step, pc)
        events == IF step.goes # "event" THEN step.events
                  ELSE <<Head(step.events), One("EVENT_PC_TARGET", to)>> \o Tail(step.events)
    IN  (IF step.goes = "branch" THEN <<One("INST_PC_TARGET", to)>> ELSE <<>>)
            \o step.recs \o events \o <<Rec(step.kind, step.opcode, <<>>)>>

StepTruth(step, pc) ==
    [pc |-> pc, user |-> step.user, traps |-> step.traps, regs |-> step.regs,
     branch |-> IF step.branch = <<>> THEN <<>>
                ELSE <<step.branch[1] @@ [target |-> GoesTo(step, pc)]>>]

\* The instructions of a program, from BasePC on.
Program(steps) ==
    LET Put1(acc, step) ==
            LET pc == PcOf(step, acc.pc)
            IN  [pc |-> IF step.goes = "on" THEN pc + OpcodeSize(step.kind)
                        ELSE GoesTo(step, pc),
                 insts |-> Append(acc.insts, [recs |-> StepRecs(step, pc),
                                              truth |-> StepTruth(step, pc)])]
    IN  FoldLeft(Put1, [pc |-> BasePC, insts |-> <<>>], steps).insts

\* The last instruction of a trace that was cut off.
CutOff == [recs |-> <<One("INST_PC_TARGET", 64)>>, truth |-> <<>>]

Scene(iem, only_user_mode, trace) ==
    [iem |-> iem, pc |-> BasePC, only_user_mode |-> only_user_mode,
     filter_mode_change_events |-> FALSE, ignored_records |-> {}, insts |-> trace]

-----------------------------------------------------------------------------
(* Opcodes. *)

Bits(n, high, low) == (n \div 2 ^ low) % 2 ^ (high - low + 1)
Bit(n, at) == Bits(n, at, at)
Unsigned(offset, width) == (offset + 2 ^ width) % 2 ^ width

BType(funct3, rs1, rs2, offset) ==
    LET o == Unsigned(offset, 13)
    IN  <<\h63 + Bit(o, 11) * 2 ^ 7 + Bits(o, 4, 1) * 2 ^ 8 + funct3 * 2 ^ 12
              + rs1 * 2 ^ 15 + rs2 * 2 ^ 20 + Bits(o, 10, 5) * 2 ^ 25, Bit(o, 12)>>
JType(rd, offset) ==
    LET o == Unsigned(offset, 21)
    IN  <<\h6F + rd * 2 ^ 7 + Bits(o, 19, 12) * 2 ^ 12 + Bit(o, 11) * 2 ^ 20
              + Bits(o, 10, 1) * 2 ^ 21, Bit(o, 20)>>
IType(rd, rs1) == <<\h67 + rd * 2 ^ 7 + rs1 * 2 ^ 15, 0>>
CJType(funct3, offset) ==
    LET o == Unsigned(offset, 12)
    IN  <<1 + Bit(o, 5) * 2 ^ 2 + Bits(o, 3, 1) * 2 ^ 3 + Bit(o, 7) * 2 ^ 6
              + Bit(o, 6) * 2 ^ 7 + Bit(o, 10) * 2 ^ 8 + Bits(o, 9, 8) * 2 ^ 9
              + Bit(o, 4) * 2 ^ 11 + Bit(o, 11) * 2 ^ 12 + funct3 * 2 ^ 13, 0>>
CBType(funct3, rs1, offset) ==
    LET o == Unsigned(offset, 9)
    IN  <<1 + Bit(o, 5) * 2 ^ 2 + Bits(o, 2, 1) * 2 ^ 3 + Bits(o, 7, 6) * 2 ^ 5
              + (rs1 - 8) * 2 ^ 7 + Bits(o, 4, 3) * 2 ^ 10 + Bit(o, 8) * 2 ^ 12
              + funct3 * 2 ^ 13, 0>>
CRType(funct4, rs1) == <<2 + rs1 * 2 ^ 7 + funct4 * 2 ^ 12, 0>>

-----------------------------------------------------------------------------
(* Registers. *)

Source(reg, value) == Rec("INST_REG", <<reg, REG_SOURCE>>, value)
Dest(reg, value) == Rec("INST_REG", <<reg, REG_DEST>>, value)
State(reg, value) == Rec("INST_REG", <<reg, REG_STATE>>, value)

\* What register x<n> holds before and after.
ValueOf(n) == IF n = 0 THEN 0 ELSE 40 + n
NewValueOf(n) == IF n = 0 THEN 0 ELSE 90 + n
Sources(regs) ==
    LET Read == SelectSeq(regs, LAMBDA n : n # 0)
    IN  [k \in 1 .. Len(Read) |-> Source(GPR(Read[k]), <<ValueOf(Read[k])>>)]
Dests(regs) ==
    LET Written == SelectSeq(regs, LAMBDA n : n # 0)
    IN  [k \in 1 .. Len(Written) |-> Dest(GPR(Written[k]), <<NewValueOf(Written[k])>>)]

-----------------------------------------------------------------------------
(* Branches. *)

\* An instruction that reads rs1 and rs2 and writes rd, numbers of registers.
BranchStep(kind, opcode, is, taken, offset, target, sources, dests) ==
    LET ValueAt(regs, k, Value(_)) == IF Len(regs) < k THEN 0 ELSE Value(regs[k])
    IN  [NopStep EXCEPT
            !.kind = kind, !.opcode = opcode, !.goes = IF taken THEN "branch" ELSE "on",
            !.offset = offset, !.target = target, !.recs = Sources(sources) \o Dests(dests),
            !.branch = <<[taken |-> taken, is |-> is,
                          rs1_value |-> ValueAt(sources, 1, ValueOf),
                          rs2_value |-> ValueAt(sources, 2, ValueOf),
                          rd_value |-> ValueAt(dests, 1, NewValueOf)]>>]

Offsets(width) ==
    {2 ^ k : k \in 1 .. width - 2} \cup {-(2 ^ k) : k \in 1 .. width - 1}

CondBranch(funct3, rs1, rs2, offset, taken) ==
    BranchStep("INST_OPCODE32", BType(funct3, rs1, rs2, offset), {"conditional"}, taken,
               offset, 0, <<rs1, rs2>>, <<>>)
CompressedBranch(funct3, rs1, offset, taken) ==
    BranchStep("INST_OPCODE16", CBType(funct3, rs1, offset), {"conditional"}, taken, offset, 0,
               <<rs1>>, <<>>)
Jump(rd, offset) ==
    BranchStep("INST_OPCODE32", JType(rd, offset), IF rd \in {1, 5} THEN {"call"} ELSE {}, TRUE,
               offset, 0, <<>>, <<rd>>)
CompressedJump(funct3, offset) ==
    BranchStep("INST_OPCODE16", CJType(funct3, offset), IF funct3 = 1 THEN {"call"} ELSE {},
               TRUE, offset, 0, <<>>, IF funct3 = 1 THEN <<1>> ELSE <<>>)

\* The manual's table of return address hints.
JumpHints(rd, rs1) ==
    (IF rd \in {1, 5} THEN {"call"} ELSE {})
        \cup (IF rs1 \in {1, 5} /\ rd # rs1 THEN {"return"} ELSE {})
JumpRegister(rd, rs1) ==
    BranchStep("INST_OPCODE32", IType(rd, rs1), {"indirect"} \cup JumpHints(rd, rs1), TRUE, 0,
               BasePC + 64, <<rs1>>, <<rd>>)
CompressedJumpRegister(rs1, is_call) ==
    BranchStep("INST_OPCODE16", CRType(IF is_call THEN 9 ELSE 8, rs1),
               {"indirect"} \cup (IF is_call THEN {"call"}
                                  ELSE IF rs1 \in {1, 5} THEN {"return"} ELSE {}),
               TRUE, 0, BasePC + 64, <<rs1>>, IF is_call THEN <<1>> ELSE <<>>)

BranchSteps ==
    {CondBranch(0, 6, 7, offset, taken) : offset \in Offsets(13), taken \in BOOLEAN}
        \cup {CondBranch(funct3, regs[1], regs[2], 8, taken) :
                 funct3 \in {0, 1, 4, 5, 6, 7}, regs \in {<<0, 3>>, <<3, 0>>, <<0, 0>>, <<4, 4>>},
                 taken \in BOOLEAN}
        \cup {CompressedBranch(6, 9, offset, taken) : offset \in Offsets(9), taken \in BOOLEAN}
        \cup {CompressedBranch(7, 15, offset, taken) : offset \in {6}, taken \in BOOLEAN}
        \cup {Jump(1, offset) : offset \in Offsets(21)}
        \cup {Jump(rd, 6) : rd \in {0, 5, 10}}
        \cup {CompressedJump(5, offset) : offset \in Offsets(12)}
        \cup {JumpRegister(rd, rs1) : rd \in {0, 1, 5, 10}, rs1 \in {1, 5, 10}}
        \cup {CompressedJumpRegister(rs1, is_call) : rs1 \in {1, 5, 10}, is_call \in BOOLEAN}

\* What looks like a branch and is none: C.EBREAK, C.MV, an addition of x1.
NoBranches ==
    {[NopStep EXCEPT !.kind = "INST_OPCODE16", !.opcode = opcode] :
        opcode \in {CRType(9, 0), <<\h8082 + 4 * 3, 0>>}}
        \cup {[NopStep EXCEPT !.recs = Sources(<<1, 3>>) \o Dests(<<1>>),
                              !.opcode = <<\h33 + 2 ^ 7 + 2 ^ 15 + 3 * 2 ^ 20, 0>>]}

BranchScenes ==
    {Scene(64, FALSE, Program(<<NopStep, step, NopStep, step>>)) : step \in BranchSteps}
        \cup {Scene(32, FALSE, Program(<<step, step, NopStep>>)) :
                 step \in {CompressedJump(1, offset) : offset \in Offsets(12)}}
        \cup {Scene(64, FALSE, Program(<<Jump(1, 2), step, Jump(0, -4)>>) \o <<CutOff>>) :
                 step \in NoBranches}

-----------------------------------------------------------------------------
(* Traps and the way back. *)

Event(type, data) == Rec("EVENT", type, data)
ToMode(mode) == Event(MODE_CHANGE, <<mode>>)

\* A trap from user mode is known by its first event; faults and interrupts
\* have the instruction executed again.
Trap(type, opcode) ==
    [NopStep EXCEPT
        !.opcode = opcode, !.goes = "event", !.target = BasePC - 4096,
        !.events = <<Event(type, <<>>), ToMode(3)>>,
        !.traps = type \in {USER_ECALL, ILLEGAL_INST}, !.user = type \in {USER_ECALL, ILLEGAL_INST}]
Ecall == Trap(USER_ECALL, <<\h73, 0>>)
IllegalInst == Trap(ILLEGAL_INST, <<\h7B, 0>>)
LoadFault == Trap(<<13, 0>>, <<\h3, 0>>)
Interrupt == Trap(<<7, 2>>, <<19, 0>>)
Traps == {Ecall, IllegalInst, LoadFault, Interrupt}

Kernel(step) == [step EXCEPT !.user = FALSE]
\* A trap taken in the kernel, which does not change the mode.
NestedTrap ==
    [Kernel(NopStep) EXCEPT !.opcode = <<\h7B, 0>>, !.goes = "event", !.offset = 512,
                            !.events = <<Event(ILLEGAL_INST, <<>>)>>]
\* The return to user mode, the change of mode being its only event.
Mret ==
    [Kernel(NopStep) EXCEPT !.opcode = <<\h30200073, 0>>, !.goes = "event",
                            !.target = BasePC + 256, !.events = <<ToMode(0)>>]

TakenBranch == CondBranch(1, 3, 4, 16, TRUE)
Nops(n) == [k \in 1 .. n |-> NopStep]
\* What comes before a trap puts it anywhere in the window: inside the first
\* filling, at its end, and on either side of a refill; the branches do so for
\* the window of branches.
Before ==
    {<<>>, <<NopStep>>, <<TakenBranch>>, Nops(3), Nops(3) \o <<TakenBranch>>}
        \cup {[k \in 1 .. n |-> TakenBranch] : n \in 3 .. 5}
Between == {<<>>, <<NopStep>>, <<TakenBranch>>}
InKernel == {<<>>, <<Kernel(NopStep)>>, <<Kernel(TakenBranch)>>, <<NestedTrap, Kernel(NopStep)>>,
             <<Kernel(NopStep), Kernel(Jump(1, 8)), Kernel(NopStep)>>}
After == {<<>>, <<NopStep>>, <<TakenBranch, NopStep, TakenBranch>>}

Rounds ==
    {before \o <<trap>> \o kernel : before \in Before, trap \in Traps, kernel \in InKernel}
ModePrograms ==
    Rounds \cup {round \o <<Mret>> \o after : round \in Rounds, after \in After}
        \cup {before \o <<first, Mret>> \o between \o <<second, Kernel(TakenBranch), Mret, NopStep>> :
                 before \in Before, first \in Traps, between \in Between, second \in Traps}
ModeScenes ==
    {Scene(64, only_user_mode, Program(steps)) : only_user_mode \in BOOLEAN, steps \in ModePrograms}

-----------------------------------------------------------------------------
(* Registers in user and in kernel code. *)

\* By the manual: the registers that are a part of another one, with the bits.
Parts ==
    {[reg |-> CSRegister(\h1), whole |-> CSRegister(\h3), width |-> 5, shift |-> 0],
     [reg |-> CSRegister(\h2), whole |-> CSRegister(\h3), width |-> 3, shift |-> 5],
     [reg |-> CSRegister(\h4), whole |-> CSRegister(\h0), width |-> 1, shift |-> 0],
     [reg |-> CSRegister(\h104), whole |-> CSRegister(\h100), width |-> 1, shift |-> 1]}
HighCSRs ==
    {<<\hB80, \hB00>>, <<\hB82, \hB02>>, <<\hC80, \hC00>>, <<\hC81, \hC01>>, <<\hC82, \hC02>>,
     <<\h310, \h300>>, <<\h31A, \h30A>>, <<\h757, \h747>>}
High(pair) ==
    [reg |-> CSRegister(pair[1]), whole |-> CSRegister(pair[2]), width |-> WordBits,
     shift |-> WordBits]
Wholes ==
    (StandardRegs \cup CSRs({\h7C0, \hBFF, \hFC0}))
        \ ({part.reg : part \in Parts} \cup {CSRegister(pair[1]) : pair \in HighCSRs})

\* Values that fit into every register.
SomeValue(reg, k) ==
    IF GetRegType(reg) = VECTOR THEN <<k, k + 1>> ELSE IF reg = X0 THEN <<0>> ELSE <<k>>
UserValue(reg) == SomeValue(reg, 100 + (reg % 7))
KernelValue(reg) == SomeValue(reg, 50 + (reg % 11))

\* The user's code writes registers next to each other, the kernel every other
\* one of them.
Groups ==
    {InOrder({reg \in Wholes : reg \div 16 = n}) : n \in {reg \div 16 : reg \in Wholes}}
EveryOther(group, parity) ==
    LET Chosen == SelectSeq([k \in 1 .. Len(group) |-> k], LAMBDA k : k % 2 = parity)
    IN  [k \in 1 .. Len(Chosen) |-> group[Chosen[k]]]
BankScene(iem, group, parity) ==
    LET kernels == EveryOther(group, parity)
        user == [reg \in ToSet(group) |-> UserValue(reg)]
        both == [reg \in ToSet(kernels) |-> KernelValue(reg)] @@ user
        Writes(step, regs, value) ==
            [step EXCEPT !.recs = [k \in 1 .. Len(regs) |-> Dest(regs[k], value[regs[k]])]]
    IN  Scene(iem, TRUE, Program(Nops(2 * parity) \o <<
            [Writes(NopStep, group, user) EXCEPT !.regs = user], [Ecall EXCEPT !.regs = user],
            Kernel(Writes(NopStep, kernels, both)), Mret,
            [NopStep EXCEPT !.regs = both], [NopStep EXCEPT !.regs = both]>>))

\* A register and its part: the part is written last.
PartScene(iem, part, in_kernel) ==
    LET value  == 5
        whole  == 2 ^ 7 + 2 ^ 6 + 2 ^ 3 + 1
        fits   == value % 2 ^ part.width
        \* MSTATUS, MENVCFG and MSECCFG show their low half only
        half   == part.whole \in CSRs({\h300, \h30A, \h747}) /\ iem = 32
        result == [reg \in {part.reg, part.whole} |->
                      IF reg = part.reg THEN <<fits>>
                      ELSE IF half THEN <<whole>>
                      ELSE <<(whole % 2 ^ part.shift) + fits * 2 ^ part.shift
                                + (whole \div 2 ^ (part.shift + part.width))
                                      * 2 ^ (part.shift + part.width)>>]
        Writes(step) == [step EXCEPT !.recs = <<Dest(part.whole, <<whole>>), Dest(part.reg, <<value>>)>>]
    IN  Scene(iem, TRUE, Program(
            IF in_kernel
            THEN <<Ecall, Kernel(Writes(NopStep)), Mret, [NopStep EXCEPT !.regs = result]>>
            ELSE <<[Writes(NopStep) EXCEPT !.regs = result], Ecall, Mret,
                   [NopStep EXCEPT !.regs = result]>>))

RegisterScenes ==
    {BankScene(iem, group, parity) : iem \in {32, 64}, group \in Groups, parity \in {0, 1}}
        \cup {PartScene(iem, part, in_kernel) :
                 iem \in {32, 64}, part \in Parts, in_kernel \in BOOLEAN}
        \cup {PartScene(32, High(pair), in_kernel) : pair \in HighCSRs, in_kernel \in BOOLEAN}

-----------------------------------------------------------------------------
(* Records of every kind, for copying. *)

Access(type, address) == Rec("INST_MEM_ACCESS", <<address, 8, 0, type>>, <<>>)
RecordGroups ==
    {<<Access(READ, 64), One("INST_MEM_CONTENT", 7)>>,
     <<Access(WRITE, 72), One("INST_MEM_CONTENT", 8)>>,
     <<Rec("BUS_MASTER_ACCESS", <<64, 8, 1, 2, 0, 1>>, <<>>), One("BUS_MASTER_CONTENT", 9)>>,
     <<Event(<<5, 0>>, <<3>>), One("EVENT_PC_TARGET", BasePC + 512)>>,
     <<Event(<<7, 2>>, <<>>), One("EVENT_PC_TARGET", BasePC + 1024)>>,
     <<ToMode(3)>>, <<ToMode(0)>>,
     <<One("INST_READY_REG", 5)>>, <<Rec("INST_MICROOP", <<2, 17>>, <<>>)>>,
     <<Rec("COMMENT", <<>>, <<1>>)>>, <<Rec("PROCESS_ID_EXT", <<1, 2, 3>>, <<>>)>>,
     <<One("FORCE_PC", BasePC + 2048)>>,
     <<Source(CombineRegType(2, VECTOR), <<1, 2>>), Dest(CombineRegType(3, FLOATING_POINT), <<4>>)>>,
     <<Dest(VSTART, <<0>>), Source(VL, <<4>>), State(GPR(4), <<6>>)>>}

\* The instruction behind says where it is.
CopyProgram(recs) ==
    <<NopStep, [NopStep EXCEPT !.recs = recs],
      [NopStep EXCEPT !.recs = <<One("FORCE_PC", BasePC + 4096)>>]>>
CopyScene(recs, filter, ignored) ==
    [Scene(64, FALSE, Program(CopyProgram(recs))) EXCEPT
        !.filter_mode_change_events = filter, !.ignored_records = ignored]

\* Two changes of mode in one instruction, and one that is filtered out before
\* another event, are beyond these readers (see the README).
Changes(recs) == {i \in 1 .. Len(recs) : recs[i].kind = "EVENT" /\ IsModeChange(recs[i])}
Others(recs) == {i \in 1 .. Len(recs) : recs[i].kind = "EVENT" /\ ~IsModeChange(recs[i])}
IsReadable(recs, filter) ==
    /\ Cardinality(Changes(recs)) < 2
    /\ ~(filter /\ \E i \in Changes(recs), j \in Others(recs) : i < j)
CopyScenes ==
    {CopyScene(choice[1] \o choice[2], choice[3], choice[4]) :
        choice \in {c \in RecordGroups \X RecordGroups \X BOOLEAN \X {{}, {"COMMENT"}} :
                       IsReadable(c[1] \o c[2], c[3])}}

MCScenes == UNION {BranchScenes, ModeScenes, RegisterScenes, CopyScenes}
==============================================================================
