---------------------------- MODULE BranchDecoder ----------------------------
(***************************************************************************)
(* STFBranchDecoder: what an opcode of RISC-V says about the branch it is, *)
(* if it is one.  An opcode is <<its low 31 bits, bit 31>>.                *)
(***************************************************************************)
EXTENDS Records, RegState, Integers
LOCAL INSTANCE FiniteSetsExt

-----------------------------------------------------------------------------
(* Bits. *)

GetBitRange(opcode, high, low) == Slice(opcode[1], high - low + 1, low)
GetBit(opcode, bit) == IF bit = 31 THEN opcode[2] ELSE GetBitRange(opcode, bit, bit)

\* A set of <<high, low, place>>: the bits from high to low go to place and
\* below.
Extract(opcode, ranges) ==
    LET Placed(range) ==
            (IF range[1] = range[2] THEN GetBit(opcode, range[1])
             ELSE GetBitRange(opcode, range[1], range[2]))
                * 2 ^ (range[3] - (range[1] - range[2]))
    IN  MapThenSumSet(Placed, ranges)

SignExtend(value, width) ==
    IF value >= 2 ^ (width - 1) THEN value - 2 ^ width ELSE value

\* Where the offset of each format is in the opcode.
CJOffset == {<<12, 12, 11>>, <<8, 8, 10>>, <<10, 10, 9>>, <<9, 9, 8>>, <<6, 6, 7>>,
             <<7, 7, 6>>, <<2, 2, 5>>, <<11, 11, 4>>, <<5, 3, 3>>}
CBOffset == {<<12, 12, 8>>, <<6, 6, 7>>, <<5, 5, 6>>, <<2, 2, 5>>, <<11, 10, 4>>,
             <<4, 3, 2>>}
BOffset == {<<31, 31, 12>>, <<7, 7, 11>>, <<30, 25, 10>>, <<11, 8, 4>>}
JOffset == {<<31, 31, 20>>, <<19, 12, 19>>, <<20, 20, 11>>, <<30, 21, 10>>}

GetTarget(pc, opcode, ranges, width) == pc + SignExtend(Extract(opcode, ranges), width)

-----------------------------------------------------------------------------
(* Decoding.  What a branch is: a set of "conditional", "call", "return",  *)
(* "millicall", "millireturn", "indirect", and for a conditional one the   *)
(* comparison "eq", "not_eq", "less_than" or "greater_than_or_equal",      *)
(* "unsigned" or not.                                                      *)

STF_REG_INVALID == 0

NotABranch ==
    [is_branch |-> FALSE, target |-> 0, rs1 |-> STF_REG_INVALID, rs2 |-> STF_REG_INVALID,
     rd |-> STF_REG_INVALID, is |-> {}]
Branch(target, rs1, rs2, rd, is) ==
    [is_branch |-> TRUE, target |-> target, rs1 |-> rs1, rs2 |-> rs2, rd |-> rd, is |-> is]

When(condition, what) == IF condition THEN {what} ELSE {}

X1 == GPR(1)
X5 == GPR(5)

\* C.JR and C.JALR.
DecodeCJR(rs1, is_call) ==
    LET is_millireturn == ~is_call /\ rs1 = X5
        is_return      == is_millireturn \/ (~is_call /\ rs1 = X1)
    IN  Branch(0, rs1, STF_REG_INVALID,
               IF is_call THEN X1 ELSE IF is_return THEN X0 ELSE STF_REG_INVALID,
               {"indirect"} \cup When(is_call, "call") \cup When(is_return, "return")
                   \cup When(is_millireturn, "millireturn"))

\* C.BEQZ and C.BNEZ compare one of x8 to x15 with x0.
DecodeCB(pc, opcode, comparison) ==
    Branch(GetTarget(pc, opcode, CBOffset, 9), GPR(GetBitRange(opcode, 9, 7) + 8), X0,
           STF_REG_INVALID, {"conditional", comparison})

DecodeBranch16(iem, pc, opcode) ==
    LET top    == GetBitRange(opcode, 15, 13)
        bottom == GetBitRange(opcode, 1, 0)
        rs1    == GetBitRange(opcode, 11, 7)
        J(rd, is) == Branch(GetTarget(pc, opcode, CJOffset, 12), STF_REG_INVALID,
                            STF_REG_INVALID, rd, is)
    IN  CASE top = 1 /\ bottom = 1 /\ iem = 32 -> J(X1, {"call"})
          [] top = 5 /\ bottom = 1 -> J(STF_REG_INVALID, {})
          [] top = 6 /\ bottom = 1 -> DecodeCB(pc, opcode, "eq")
          [] top = 7 /\ bottom = 1 -> DecodeCB(pc, opcode, "not_eq")
          [] top = 4 /\ bottom = 2 /\ rs1 # 0 /\ GetBitRange(opcode, 6, 2) = 0 ->
                DecodeCJR(GPR(rs1), GetBit(opcode, 12) = 1)
             \* popret and popretz
          [] top = 5 /\ bottom = 2 /\ GetBitRange(opcode, 12, 8) \in {28, 30} ->
                Branch(0, X1, STF_REG_INVALID, X0, {"indirect", "return"})
          [] OTHER -> NotABranch

Comparison(opcode) ==
    LET by_order == GetBit(opcode, 14) = 1
        negated  == GetBit(opcode, 12) = 1
    IN  (CASE ~by_order /\ ~negated -> {"eq"}
           [] ~by_order /\ negated -> {"not_eq"}
           [] by_order /\ ~negated -> {"less_than"}
           [] by_order /\ negated -> {"greater_than_or_equal"})
            \cup When(GetBit(opcode, 13) = 1, "unsigned")

\* JALR: x1 and x5 are the registers of return addresses.
DecodeJALR(rs1, rd) ==
    LET is_millireturn == rs1 # rd /\ rs1 = X5
    IN  Branch(0, rs1, STF_REG_INVALID, rd,
               {"indirect"} \cup When(rd = X5, "millicall") \cup When(rd \in {X1, X5}, "call")
                   \cup When(is_millireturn, "millireturn")
                   \cup When(is_millireturn \/ (rs1 # rd /\ rs1 = X1), "return"))

DecodeBranch32(pc, opcode) ==
    LET format == GetBitRange(opcode, 4, 2)
        rs1    == GPR(GetBitRange(opcode, 19, 15))
        rs2    == GPR(GetBitRange(opcode, 24, 20))
        rd     == GPR(GetBitRange(opcode, 11, 7))
    IN  CASE GetBitRange(opcode, 6, 5) # 3 -> NotABranch
          [] format = 0 -> Branch(GetTarget(pc, opcode, BOffset, 13), rs1, rs2,
                                  STF_REG_INVALID, {"conditional"} \cup Comparison(opcode))
          [] format = 1 -> DecodeJALR(rs1, rd)
          [] format = 3 -> Branch(GetTarget(pc, opcode, JOffset, 21), STF_REG_INVALID,
                                  STF_REG_INVALID, rd,
                                  When(rd = X5, "millicall") \cup When(rd \in {X1, X5}, "call"))
          [] OTHER -> NotABranch

Decode(iem, kind, pc, opcode) ==
    IF kind = "INST_OPCODE16"
    THEN DecodeBranch16(iem, pc, opcode) ELSE DecodeBranch32(pc, opcode)
IsBranch(iem, kind, pc, opcode) == Decode(iem, kind, pc, opcode).is_branch
==============================================================================
