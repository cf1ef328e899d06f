------------------------------ MODULE MCSMCBoot ------------------------------
(* SMCBoot for TLC: a dictionary with an unusable entry, and properties some  *)
(* of which the dictionary has too, with another type and value.              *)
EXTENDS SMCBoot

MCSharpName == <<8>>
MCSharpType == <<8>>
MCREV == <<1>>
MCRBr == <<2>>
MCRVBF == <<3>>
MCEPCI == <<4>>
MCRPlt == <<5>>
MCNATi == <<6>>
MCDefaultType == [n \in 1..ByteMax |-> <<8>>]

Entry(u) == [usable |-> u, type |-> <<7>>, value |-> <<1>>]

MCEntries == [n \in {MCREV, MCRBr, MCRVBF, MCEPCI, MCNATi} |-> Entry(n # MCNATi)]

Property(n) == [name |-> n, type |-> <<8>>, value |-> <<2, 2>>]

MCProperties ==
  <<Property(MCRPlt), Property(MCRBr), Property(MCREV), Property(MCRVBF), Property(MCEPCI)>>
=============================================================================
