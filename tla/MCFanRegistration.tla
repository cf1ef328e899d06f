-------------------------- MODULE MCFanRegistration --------------------------
(* FanRegistration for TLC: fan k has the keys <<1, k + 1>> and <<2, k + 1>>, *)
(* and the byte is large enough for every fan to have a number of its own.    *)
EXTENDS FanRegistration, TLC

MCSharpName == <<3, 1>>
MCFNum == <<3, 2>>
MCType == <<3, 3>>
MCDefaultType == [n \in 1..ByteMax |-> MCType]
MCFanKey == [k \in Byte |-> IF k < ByteMax THEN <<1, k + 1>> ELSE <<4, 1>>]
MCFanId == [k \in Byte |-> IF k < ByteMax THEN <<2, k + 1>> ELSE <<4, 2>>]
MCFanSpeed == [type |-> MCType, size |-> 2]
MCFanDesc == [type |-> MCType, value |-> <<1>>]

\* The Super I/O drivers are interchangeable.
Alike == Permutations(Listing)

ASSUME FansFitTheByte == MaxTachs * Cardinality(Handlers) <= ByteMax
=============================================================================
