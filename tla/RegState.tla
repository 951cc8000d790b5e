------------------------------ MODULE RegState -------------------------------
(***************************************************************************)
(* The registers of a machine, by the numbers the traces use, and the      *)
(* register state (STFRegState) that readers and their callers keep.       *)
(*                                                                         *)
(* A register's value is a sequence of words: one number for a scalar, the *)
(* words of the vector otherwise.  WordBits stands for 32.                 *)
(***************************************************************************)
EXTENDS Naturals, Sequences, FiniteSets

CONSTANT WordBits

ASSUME WordBitsAssumption == WordBits \in 8 .. 15

-----------------------------------------------------------------------------
(* Registers::STF_REG.  The numbers carry the type, so that registers are  *)
(* in order: integer, floating point, vector, CSR.                         *)

INTEGER == 1
FLOATING_POINT == 2
VECTOR == 3
CSR == 4

\* Registers::STF_REG_OPERAND_TYPE.
REG_STATE == 1
REG_SOURCE == 2
REG_DEST == 3

CombineRegType(num, type) == type * 65536 + num
GetRegType(reg) == reg \div 65536
PackRegNum(reg) == reg % 65536
GPR(num) == CombineRegType(num, INTEGER)
CSRegister(num) == CombineRegType(num, CSR)
CSRs(nums) == {CSRegister(num) : num \in nums}

X0 == GPR(0)

IntegerRegs == {GPR(num) : num \in 0 .. 32} \* 32 is the PC
FPRegs == {CombineRegType(num, FLOATING_POINT) : num \in 0 .. 31}
VectorRegs == {CombineRegType(num, VECTOR) : num \in 0 .. 31}
UserCSRs ==
    CSRs(\h0 .. \h5 \cup \h7 .. \hA \cup {\hF} \cup \h40 .. \h46 \cup {\h48, \h49})
SupervisorCSRs ==
    CSRs({\h100} \cup \h102 .. \h107 \cup {\h10A} \cup \h140 .. \h146
            \cup {\h148, \h149, \h180, \h19A})
DebugCSRs ==
    CSRs({\h10, \h11} \cup \h7A0 .. \h7A5 \cup {\h7A8, \h7AA} \cup \h7B0 .. \h7B3)
VirtualSupervisorCSRs ==
    CSRs({\h200, \h204, \h205} \cup \h240 .. \h244 \cup {\h280})
MachineCSRs ==
    CSRs(\h300 .. \h307 \cup {\h30A, \h310, \h31A, \h320} \cup \h323 .. \h346
            \cup \h348 .. \h34B \cup {\h747, \h757})
ProtectionCSRs == CSRs(\h3A0 .. \h3EF)
HypervisorCSRs ==
    CSRs({\h600} \cup \h602 .. \h607 \cup {\h60A} \cup \h643 .. \h645
            \cup {\h64A, \h680, \h6A8, \hE12})
MachineCounters == CSRs({\hB00} \cup \hB02 .. \hB1F \cup {\hB80, \hB82})
UserCounters == CSRs(\hC00 .. \hC1F \cup \hC80 .. \hC82)
VectorCSRs == CSRs(\hC20 .. \hC22)
InfoCSRs == CSRs(\hF11 .. \hF15)

StandardRegs ==
    UNION {IntegerRegs, FPRegs, VectorRegs, UserCSRs, SupervisorCSRs, DebugCSRs,
           VirtualSupervisorCSRs, MachineCSRs, ProtectionCSRs, HypervisorCSRs,
           MachineCounters, UserCounters, VectorCSRs, InfoCSRs}

IsNonstandardCSR(reg) ==
    reg \in CSRs(\h7C0 .. \h7FF \cup \hBC0 .. \hBFF \cup \hFC0 .. \hFFF)

-----------------------------------------------------------------------------
(* The bank: where the value of a register is.  Most registers are their   *)
(* own; some are a field of another one.                                   *)

\* The registers of 64 bits and of 32 bits, whatever the machine.
FullWidth ==
    UNION {VectorRegs, VectorCSRs, VirtualSupervisorCSRs,
           CSRs({\hB00, \hB02} \cup \hC00 .. \hC02),
           CSRs({\h7} \cup \h8 .. \hA \cup {\hF, \h45, \h46, \h48, \h49}),
           CSRs({\h107, \h145, \h146, \h148, \h149, \h307, \h345, \h346} \cup \h348 .. \h34B)}
HalfWidth == CSRs({\h3, \h10, \h11, \h106, \h306, \h320, \h606, \h7B0})

Field(parent, width, shift) ==
    [mapped |-> CSRegister(parent), width |-> width, shift |-> shift]

\* UIE, FFLAGS, FRM and SIE.
FieldsOfAny ==
    [reg \in CSRs({\h4, \h1, \h2, \h104}) |->
        CASE reg = CSRegister(\h4) -> Field(\h0, 1, 0)
          [] reg = CSRegister(\h1) -> Field(\h3, 5, 0)
          [] reg = CSRegister(\h2) -> Field(\h3, 3, 5)
          [] reg = CSRegister(\h104) -> Field(\h100, 1, 1)]

\* MCYCLEH, MINSTRETH, CYCLEH, TIMEH, INSTRETH, MSTATUSH, MENVCFGH and MSECCFGH.
HighHalves == CSRs({\hB80, \hB82, \h310, \h31A, \h757} \cup \hC80 .. \hC82)
LowHalf(num) ==
    CASE num \in {\h310, \h31A, \h757} -> num - \h10
      [] OTHER -> num - \h80
FieldsOf32 ==
    [reg \in HighHalves |-> Field(LowHalf(PackRegNum(reg)), WordBits, WordBits)]

SimpleRegister(reg, iem) ==
    [mapped |-> reg, shift |-> 0,
     width |-> IF reg \in HalfWidth \/ (iem = 32 /\ reg \notin FullWidth)
               THEN WordBits ELSE 2 * WordBits]

\* initRegBank for RISC-V; machines of 64 bits have no high halves.
RegBank ==
    [iem \in {32, 64} |->
        [reg \in StandardRegs \ (IF iem = 64 THEN HighHalves ELSE {}) |->
            IF reg \in DOMAIN FieldsOfAny THEN FieldsOfAny[reg]
            ELSE IF reg \in HighHalves THEN FieldsOf32[reg]
            ELSE SimpleRegister(reg, iem)]]

\* In the order of their numbers, as sets and maps of registers are gone through.
InOrder(regs) ==
    [k \in 1 .. Cardinality(regs) |->
        CHOOSE reg \in regs : Cardinality({r \in regs : r < reg}) = k - 1]

\* RegMapInfo::apply.
Slice(value, width, shift) == (value \div 2 ^ shift) % 2 ^ width
Apply(info, parent, value) ==
    parent + (Slice(value, info.width, 0) - Slice(parent, info.width, info.shift))
                 * 2 ^ info.shift

-----------------------------------------------------------------------------
(* STFRegState: the machine, the vendors' registers it has met, and the    *)
(* registers it knows with their values.                                   *)

NewRegState(iem) == [iem |-> iem, nonstandard |-> {}, regs |-> [reg \in {} |-> <<>>]]

InBank(rs, reg) == reg \in DOMAIN RegBank[rs.iem] \cup rs.nonstandard
Info(rs, reg) ==
    IF reg \in rs.nonstandard THEN SimpleRegister(reg, 64) ELSE RegBank[rs.iem][reg]

\* stateClear.
StateClear(rs) == [rs EXCEPT !.regs = [reg \in {} |-> <<>>]]

Known(rs, reg) == reg \in DOMAIN rs.regs
Put(regs, reg, value) ==
    [r \in DOMAIN regs \cup {reg} |-> IF r = reg THEN value ELSE regs[r]]

\* regStateUpdate throws for a register that is neither in the bank nor a vendor's.
MayUpdate(rs, reg) == InBank(rs, reg) \/ IsNonstandardCSR(reg)

\* regStateUpdate: a field goes into its parent and is kept as itself too.
RegStateUpdate(rs, reg, value) ==
    LET bank   == [rs EXCEPT !.nonstandard =
                                 IF InBank(rs, reg) THEN @ ELSE @ \cup {reg}]
        info   == Info(bank, reg)
        parent == IF Known(rs, info.mapped) THEN rs.regs[info.mapped][1] ELSE 0
        regs   == IF info.mapped = reg THEN rs.regs
                  ELSE Put(rs.regs, info.mapped, <<Apply(info, parent, value[1])>>)
    IN  [bank EXCEPT !.regs = Put(regs, reg, value)]

\* getRegScalarValue and getRegVectorValue, for a register that is known.
HasValue(rs, reg) == InBank(rs, reg) /\ Known(rs, Info(rs, reg).mapped)
GetRegValue(rs, reg) ==
    LET info == Info(rs, reg)
    IN  IF GetRegType(reg) = VECTOR THEN rs.regs[reg]
        ELSE <<Slice(rs.regs[info.mapped][1], info.width, info.shift)>>

==============================================================================
