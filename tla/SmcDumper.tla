------------------------------ MODULE SmcDumper ------------------------------
(***************************************************************************)
(* smcdumper, which prints every key there is, or one, while plug-ins go   *)
(* on adding keys and changing values.  Each call to the kernel is a step  *)
(* and any may fail: the number of keys and each value take two calls, the *)
(* first for the type and the size, and each key's name one more.          *)
(***************************************************************************)
EXTENDS Integers, Sequences

CONSTANTS
  Stocks   (* [keys, late, asks]: the keys there are at first, "#KEY" the   *)
           (* first, what plug-ins add or set meanwhile, and the keys the   *)
           (* user may ask for                                              *)

\* A key: [name, type, bytes].  A type is its letters, what a digit of it means, and
\* for a fixed point number the bits of its integer part and of its fraction.
SmcType(kind, i, f) == [kind |-> kind, i |-> i, f |-> f]
CountType == SmcType("ui", 32, 0)

SmcKeys == [name : STRING, type : [kind : STRING, i : Nat, f : Nat], bytes : Seq(Nat)]

\* The number of keys is the device's own, which makes its key first.
ASSUME StocksAssumption ==
  \A s \in Stocks :
    /\ s.keys \in Seq(SmcKeys) /\ s.late \in Seq(SmcKeys)
    /\ s.keys # <<>> /\ s.keys[1].name = "#KEY" /\ s.keys[1].type = CountType
    /\ \A i, j \in DOMAIN s.keys : s.keys[i].name = s.keys[j].name => i = j
    /\ \A i \in DOMAIN s.late : s.late[i].name # "#KEY"

VARIABLES
  stock,       (* what becomes of the keys                                  *)
  keyList,     (* the keys of the device                                    *)
  lateLeft,    (* what plug-ins have still to do                            *)
  dumping,     (* what the program does next                                *)
  option,      (* its option: list, read or help                            *)
  wanted,      (* key it reads                                              *)
  keyTotal, keyIndex, keyVal,
  printed,     (* lines: the key, what is shown, and what it is             *)
  dumpHistory  (* [there: the keys when they were counted, missed: those a  *)
               (* call failed for, torn: the key wanted was set between the *)
               (* two calls]                                                *)

dumperVars == <<stock, keyList, lateLeft, dumping, option, wanted, keyTotal, keyIndex, keyVal, printed, dumpHistory>>
program == <<dumping, option, wanted, keyTotal, keyIndex, keyVal, printed>>

NamesOf(list) == [i \in DOMAIN list |-> list[i].name]
PositionOf(name) == CHOOSE i \in DOMAIN keyList : keyList[i].name = name
IsThere(name) == \E i \in DOMAIN keyList : keyList[i].name = name

-----------------------------------------------------------------------------
(* SmcHelper: numbers; a fixed point number is its bits, over 2^f *)

isValidIntegerSmcType(type) == type.kind \in {"ui", "si"} /\ type.i \in {8, 16, 32}
isValidFloatingSmcType(type) == type.kind \in {"fp", "sp"} /\ type.i + type.f = (IF type.kind = "sp" THEN 15 ELSE 16)

FromBig(bytes) ==
  CASE Len(bytes) = 1 -> bytes[1]
    [] Len(bytes) = 2 -> bytes[1] * 256 + bytes[2]
    [] Len(bytes) = 4 -> ((bytes[1] * 256 + bytes[2]) * 256 + bytes[3]) * 256 + bytes[4]

\* The top bit of a signed number is a sign, not part of two's complement.
WithSign(bytes) == IF bytes[1] >= 128 THEN -FromBig([bytes EXCEPT ![1] = @ - 128]) ELSE FromBig(bytes)

Undecoded == -1000000
decodeNumericValueFromBuffer(bytes, type) ==
  IF \/ isValidIntegerSmcType(type) /\ Len(bytes) * 8 # type.i
     \/ isValidFloatingSmcType(type) /\ Len(bytes) # 2 THEN Undecoded
  ELSE IF type.kind \in {"si", "sp"} THEN WithSign(bytes) ELSE FromBig(bytes)

\* What is not decoded prints as 0.
Number(bytes, type) ==
  LET n == decodeNumericValueFromBuffer(bytes, type) IN IF n = Undecoded THEN 0 ELSE n

\* printKeyValue.
NothingShown == <<"nothing">>
ValueShown(v) ==
  CASE v.bytes = <<>> -> <<"no data">>
    [] v.bytes # <<>> /\ v.type.kind = "ch8*" -> <<"text", v.bytes>>
    [] v.bytes # <<>> /\ v.type.kind = "flag" -> <<"flag", v.bytes[1] # 0>>
    [] v.bytes # <<>> /\ (isValidIntegerSmcType(v.type) \/ isValidFloatingSmcType(v.type)) ->
         <<"number", Number(v.bytes, v.type), v.type.f>>
    [] OTHER -> NothingShown

-----------------------------------------------------------------------------
(* The device: addKeyWithValue; a key that is there keeps its type *)

\* Only the last byte of the number is ever set: beyond 255 keys it starts again.
LastByte(n) == n % 256
WithCount(list) == [list EXCEPT ![1].bytes = <<0, 0, 0, LastByte(Len(list))>>]

AddKey(k) ==
  keyList' = IF IsThere(k.name) THEN [keyList EXCEPT ![PositionOf(k.name)].bytes = k.bytes]
                                ELSE WithCount(Append(keyList, k))

PluginCall ==
  /\ lateLeft # <<>> /\ dumping # "closed"
  /\ AddKey(Head(lateLeft))
  /\ lateLeft' = Tail(lateLeft)
  /\ dumpHistory' = [dumpHistory EXCEPT !.torn = @ \/ (dumping = "bytes" /\ Head(lateLeft).name = wanted)]
  /\ UNCHANGED <<stock, program>>

-----------------------------------------------------------------------------
(* smcdumper *)

NoVal == [type |-> SmcType("", 0, 0), size |-> 0]

\* Options and SMCOpen; without an option there is help, with a connection opened.
\* The option to read is given its key: without one the code formats a NULL.
OpenDumper ==
  /\ dumping = "start"
  /\ \E o \in {"list", "read", "help"}, opened \in BOOLEAN :
       /\ option' = o
       /\ dumping' = IF opened /\ o # "help" THEN "info" ELSE "closed"
       /\ \E name \in IF o = "read" THEN stock.asks ELSE {"#KEY"} : wanted' = name
  /\ UNCHANGED <<stock, keyList, lateLeft, keyTotal, keyIndex, keyVal, printed, dumpHistory>>

\* What was read is the number of keys, which is 0 if it could not be ...
Counting == option = "list" /\ keyTotal = -1
CountIs(n, names) ==
  /\ keyTotal' = n /\ keyIndex' = 0 /\ dumping' = "next"
  /\ dumpHistory' = [dumpHistory EXCEPT !.torn = FALSE, !.there = names]
  /\ UNCHANGED printed

\* ... or a key that is printed, and left out when it could not be.
NextKey(missed) ==
  /\ keyIndex' = keyIndex + 1 /\ dumping' = IF option = "list" THEN "next" ELSE "closed"
  /\ dumpHistory' = [dumpHistory EXCEPT !.torn = FALSE, !.missed = missed]
  /\ UNCHANGED keyTotal

ReadFails ==
  IF Counting THEN CountIs(0, <<>>)
  ELSE NextKey(dumpHistory.missed \union {wanted}) /\ UNCHANGED printed

Line(v) ==
  [name |-> wanted, shows |-> ValueShown(v), torn |-> dumpHistory.torn,
   holds |-> IF IsThere(wanted) THEN ValueShown(keyList[PositionOf(wanted)]) ELSE <<"no data">>]

ReadGives(v) ==
  IF Counting THEN CountIs(Number(v.bytes, v.type), NamesOf(keyList))
  ELSE NextKey(dumpHistory.missed) /\ printed' = Append(printed, Line(v))

\* SMCReadKey: type and size.
AskKeyInfo ==
  /\ dumping = "info"
  /\ \/ /\ keyVal' = IF IsThere(wanted) THEN [type |-> keyList[PositionOf(wanted)].type,
                                           size |-> Len(keyList[PositionOf(wanted)].bytes)]
                  ELSE NoVal
        /\ dumping' = "bytes"
        /\ UNCHANGED <<keyTotal, keyIndex, printed, dumpHistory>>
     \/ ReadFails /\ UNCHANGED keyVal
  /\ UNCHANGED <<stock, keyList, lateLeft, option, wanted>>

\* Then as many bytes as that was; beyond a value that is shorter by now there is what
\* the buffer of the device held.
WantedBytes == IF IsThere(wanted) THEN keyList[PositionOf(wanted)].bytes ELSE <<>>
BytesRead(stale) == [i \in 1..keyVal.size |-> IF i <= Len(WantedBytes) THEN WantedBytes[i] ELSE stale]

AskBytes ==
  /\ dumping = "bytes"
  /\ (\E stale \in {0, 255} : ReadGives([type |-> keyVal.type, bytes |-> BytesRead(stale)])) \/ ReadFails
  /\ UNCHANGED <<stock, keyList, lateLeft, option, wanted, keyVal>>

\* The name of the key at an index; a key whose name cannot be had is left out.
KeyAt_FromOne(index) == keyList[IF index + 2 \in DOMAIN keyList THEN index + 2 ELSE 1]
KeyAt(index) == keyList[index + 1]

AskIndex ==
  /\ dumping = "next" /\ keyIndex < keyTotal
  /\ \/ /\ wanted' = KeyAt(keyIndex).name /\ dumping' = "info"
        /\ UNCHANGED <<keyIndex, dumpHistory>>
     \/ /\ keyIndex' = keyIndex + 1
        /\ dumpHistory' = [dumpHistory EXCEPT !.missed = @ \union {KeyAt(keyIndex).name}]
        /\ UNCHANGED <<wanted, dumping>>
  /\ UNCHANGED <<stock, keyList, lateLeft, option, keyTotal, keyVal, printed>>

CloseDumper ==
  /\ dumping = "next" /\ keyIndex >= keyTotal
  /\ dumping' = "closed"
  /\ UNCHANGED <<stock, keyList, lateLeft, option, wanted, keyTotal, keyIndex, keyVal, printed, dumpHistory>>

DumperInit ==
  /\ stock \in Stocks
  /\ keyList = WithCount(stock.keys) /\ lateLeft = stock.late
  /\ dumping = "start" /\ option = "help" /\ wanted = "#KEY"
  /\ keyTotal = -1 /\ keyIndex = 0 /\ keyVal = NoVal
  /\ printed = <<>>
  /\ dumpHistory = [there |-> <<>>, missed |-> {}, torn |-> FALSE]

DumperNext == PluginCall \/ OpenDumper \/ AskKeyInfo \/ AskBytes \/ AskIndex \/ CloseDumper
DumperSpec == DumperInit /\ [][DumperNext]_dumperVars

-----------------------------------------------------------------------------
DumperTypeOK ==
  /\ stock \in Stocks
  /\ dumping \in {"start", "info", "bytes", "next", "closed"}
  /\ option \in {"list", "read", "help"}
  /\ keyTotal \in -1..Len(keyList) /\ keyIndex \in Nat /\ keyVal.size \in Nat
  /\ Len(lateLeft) <= Len(stock.late)

\* A finished list has a line for each key there was when the keys were counted (as
\* far as a byte counts), in their order, each once, except for those a call failed
\* for: keys that are added meanwhile neither come in nor push others out.  And each
\* line shows what its key held when its value was asked for, unless the key was set
\* between its two calls.
DumpIsWhole ==
  /\ option = "list" /\ dumping = "closed" /\ Len(dumpHistory.there) < 256 =>
       LET there == dumpHistory.there
       IN  /\ {printed[i].name : i \in DOMAIN printed} = {there[a] : a \in DOMAIN there} \ dumpHistory.missed
           /\ \A i, j \in DOMAIN printed : i < j =>
                /\ printed[i].name # printed[j].name
                /\ \E a, b \in DOMAIN there : a < b /\ there[a] = printed[i].name /\ there[b] = printed[j].name
  /\ \A i \in DOMAIN printed : ~printed[i].torn => printed[i].shows = printed[i].holds
=============================================================================
