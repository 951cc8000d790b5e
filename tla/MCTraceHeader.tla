---------------------------- MODULE MCTraceHeader ---------------------------
(***************************************************************************)
(* Values of the settings for TraceHeader: two where a change matters, the *)
(* IEM, which is replaced and decides what finalizeHeader() asks for, and  *)
(* the feature record, whose feature comes and goes.                       *)
(***************************************************************************)
EXTENDS TraceHeader

MCValues ==
    [s \in Settings |->
        CASE s = "isa" -> {"RISCV"}
          [] s = "iem" -> {"RV64", "RV32"}
          [] s = "feature" -> {"EVENT64"}
          [] OTHER -> {"set"}]
=============================================================================
