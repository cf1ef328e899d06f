------------------------------ MODULE MCSMCKeys ------------------------------
(* SMCKeys for TLC: two plug-ins that share two names.  The byte is so small  *)
(* that the count in #KEY can wrap.                                           *)
EXTENDS SMCKeys

MCSharpName == <<2, 2>>
MCSharpType == <<2, 1>>
MCDefaultType == [n \in 1..ByteMax |-> <<2, 1>>]
MCPluginNames == {<<1, 1>>, <<1, 2>>}
MCPluginTypes == {<<1, 1>>}
MCPluginValues == {<<1>>, <<0, 1>>}
=============================================================================
