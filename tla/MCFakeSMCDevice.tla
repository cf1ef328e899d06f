--------------------------- MODULE MCFakeSMCDevice ---------------------------
(* Instances of FakeSMCDevice for TLC.  Bytes that stand for "#KEY" and its   *)
(* type are ones the host does not write.                                     *)
EXTENDS FakeSMCDevice

Const(b) == [p \in 1..NameLen |-> b]

MCSharpName == Const(ByteMax)
MCSharpType == Const(ByteMax - 1)
MCDefaultType == [n \in 1..ByteMax |-> Const(ByteMax - 1)]
MCShift == [p \in 0..(NameLen - 1) |-> 2 ^ (NameLen - 1 - p)]
MCPluginNames == {Const(1)}
MCPluginTypes == {Const(1)}
MCPluginValues == {<<1>>}
=============================================================================
