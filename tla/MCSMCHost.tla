------------------------------ MODULE MCSMCHost ------------------------------
(* SMCHost for TLC: two names, one of which plug-ins register too; values of  *)
(* one and two bytes, the largest that fit the position counter.              *)
EXTENDS SMCHost

A == <<1, 1>>
B == <<1, 2>>

MCSharpName == <<4, 4>>
MCSharpType == <<3, 3>>
MCDefaultType == [n \in 1..ByteMax |-> IF n = 1 THEN <<3, 1>> ELSE <<3, 2>>]
MCShift == [p \in 0..1 |-> IF p = 0 THEN 5 ELSE 1]
MCPluginNames == {A}
MCPluginTypes == {<<3, 1>>}
MCPluginValues == {<<1>>, <<2, 1>>}

MCRequests ==
  { [op |-> "READ",  spell |-> A, payload |-> <<1>>],
    [op |-> "READ",  spell |-> A, payload |-> <<2>>],
    [op |-> "WRITE", spell |-> A, payload |-> <<1, 2>>],
    [op |-> "WRITE", spell |-> B, payload |-> <<2, 1, 2>>],
    [op |-> "INDEX", spell |-> <<0, 1>>, payload |-> << >>],
    [op |-> "TYPE",  spell |-> A, payload |-> << >>] }
=============================================================================
