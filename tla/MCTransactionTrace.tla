--------------------------- MODULE MCTransactionTrace --------------------------
(***************************************************************************)
(* TransactionTrace for TLC.  Two clocks, one of them by two names, so     *)
(* that traces can disagree about it; a transaction with all kinds of      *)
(* fields, its mask one bit longer than a byte, and a transaction with one *)
(* field.                                                                  *)
(***************************************************************************)
EXTENDS TransactionTrace

Element(type, value) == <<type, value>>
Acquire ==
    [delta |-> 3, metadata |-> <<Element(0, 7), Element(3, 9)>>,
     data |-> [channel |-> "CHANNEL_A",
               fields |-> <<4, 0, 2, 1, <<5, 6>>, 250, <<1, 0, 0, 1, 0, 0, 0, 0, 1>> >>]]
Grant ==
    [delta |-> 1, metadata |-> <<>>, data |-> [channel |-> "CHANNEL_E", fields |-> <<2>>]]

MCPayloads == <<Acquire, Grant>>
MCDependencies == {[id |-> 1, delta |-> 6, clock |-> 2]}
MCSetups ==
    {{"COMMENT", "TRACE_INFO", "TRACE_INFO_FEATURE"}, {"PROTOCOL_ID"}}
MCClocks == {<<1, "cpu">>, <<2, "bus">>, <<1, "noc">>}
==============================================================================
