----------------------- MODULE FanRegistrationProofs -----------------------
(***************************************************************************)
(* Proofs about fans: every fan that is counted has its key, and           *)
(* registrations that do not overlap keep their fans apart; the speeds a   *)
(* Winbond chip's driver reads are true and its divisors come to rest.     *)
(***************************************************************************)
EXTENDS FanRegistration, W836xFans, SMCKeysProofs

Stages == Steps \cup {"idle", "stopped"}

\* The key of the fan at hand has been added.
HasAdded(p) == pc[p] \in {"served", "described"}

FanTypes ==
  /\ KeysInv
  /\ pc \in [Handlers -> Stages]
  /\ length \in [Handlers -> Byte]
  /\ HasKey(FNum)

\* Fans below the number a registration read have their keys, and so has the fan
\* it adds once its key is served: writing the number plus one keeps FNum true.
NumberIsKey(p) ==
  /\ Adding(p) => \A k \in Byte : k < length[p] => HasKey(FanKey[k])
  /\ HasAdded(p) => HasKey(FanKey[length[p]])

NumbersAreKeys == \A p \in Handlers : NumberIsKey(p)

FanInv == FanTypes /\ FansCountedExist /\ NumbersAreKeys

-----------------------------------------------------------------------------
(***************************************************************************)
(* The names of fans are names, none of them #KEY's or FNum's.             *)
(***************************************************************************)
LEMMA FanNames ==
  /\ FNum \in Name /\ FNum # SharpName /\ FanSpeed.type \in Name /\ FanSpeed.size \in 1..ByteMax
  /\ FanDesc.type \in Name /\ FanDesc.value \in Value
  /\ \A k \in Byte : /\ FanKey[k] \in Name /\ FanKey[k] # SharpName /\ FanKey[k] # FNum
                     /\ FanId[k] \in Name /\ FanId[k] # SharpName /\ FanId[k] # FNum
                     /\ \A q \in 1..NameLen : FanKey[k][q] # 0
  BY FanAssumption DEF SpelledOut

(***************************************************************************)
(* The number FNum holds is a byte.                                        *)
(***************************************************************************)
LEMMA FanCountIsByte == ASSUME FanTypes PROVE FanCount \in Byte
<1>1. keys \in Seq(Key) /\ IndexOf(FNum) \in DOMAIN keys
  BY IndexOfFound DEF FanTypes, KeysInv, KeysTypeOK
<1>2. keys[IndexOf(FNum)].value \in Value
  <2>1. keys[IndexOf(FNum)] \in Key
    BY <1>1, ElementOfSeq
  <2> QED BY <2>1 DEF Key
<1>3. 1 \in DOMAIN keys[IndexOf(FNum)].value /\ keys[IndexOf(FNum)].value \in Seq(Byte)
  BY <1>2 DEF Value
<1> QED BY <1>3 DEF FanCount

(***************************************************************************)
(* length++ in a byte.                                                     *)
(***************************************************************************)
LEMMA NextNumberIs ==
  ASSUME NEW p \in Handlers, length[p] \in Byte
  PROVE  NextNumber(p) = IF length[p] = ByteMax THEN 0 ELSE length[p] + 1
<1> DEFINE a == length[p]
<1>1. a \in Nat /\ a <= ByteMax /\ ByteMax \in Nat
  BY SizesAssumption DEF Byte
<1> HIDE DEF a
<1>2. a = ByteMax => (a + 1) % (ByteMax + 1) = 0
  BY <1>1
<1>3. a < ByteMax => (a + 1) % (ByteMax + 1) = a + 1
  BY <1>1
<1>4. (a + 1) % (ByteMax + 1) = IF a = ByteMax THEN 0 ELSE a + 1
  BY <1>1, <1>2, <1>3
<1> QED BY <1>4 DEF NextNumber, a

(***************************************************************************)
(* No key is lost when the store only grows.                               *)
(***************************************************************************)
LEMMA FanKeysStay ==
  ASSUME FanTypes, Extends(keys, keys')
  PROVE  /\ HasKey(FNum)' /\ IndexOf(FNum)' = IndexOf(FNum)
         /\ \A k \in Byte : HasKey(FanKey[k]) => HasKey(FanKey[k])' /\ IndexOf(FanKey[k])' = IndexOf(FanKey[k])
  BY PositionsAreKept DEF FanTypes, KeysInv, KeysTypeOK

(***************************************************************************)
(* A call that leaves the values of other keys alone leaves the number of  *)
(* fans alone.                                                             *)
(***************************************************************************)
LEMMA FanCountStays ==
  ASSUME FanTypes, Extends(keys, keys'),
         \A j \in 1..Len(keys) : (j # 1 /\ keys[j].name = FNum) => keys'[j].value = keys[j].value
  PROVE  FanCount' = FanCount
<1>1. keys \in Seq(Key) /\ DOMAIN keys = 1..Len(keys) /\ keys[1].name = SharpName
  BY DEF FanTypes, KeysInv, KeysTypeOK, SharpOK
<1>2. IndexOf(FNum) \in 1..Len(keys) /\ keys[IndexOf(FNum)].name = FNum
  BY <1>1, IndexOfFound DEF FanTypes
<1>3. IndexOf(FNum) # 1
  BY <1>1, <1>2, FanNames
<1>4. IndexOf(FNum)' = IndexOf(FNum)
  BY FanKeysStay
<1> QED BY <1>2, <1>3, <1>4 DEF FanCount

\* What a step does to the keys: they keep their places, those of other names
\* their handlers, and only the last step of a registration changes FNum.
KeysMove(p) ==
  /\ KeysInv' /\ Extends(keys, keys')
  /\ \A j \in 1..Len(keys) :
       (pc[p] = "listed" => keys[j].name # Served(p)) => keys'[j].handler = keys[j].handler
  /\ FanCount' = IF pc[p] = "described" THEN NextNumber(p) ELSE FanCount
  /\ pc[p] = "listed" => HasKey(Served(p))' /\ keys'[IndexOf(Served(p))'].handler = p

(***************************************************************************)
(* The calls of a registration and of a stop do that.                      *)
(***************************************************************************)
LEMMA FanStepMovesKeys ==
  ASSUME FanTypes, NEW p \in Handlers, FanStep(p)
  PROVE  KeysMove(p)
<1>1. /\ KeysTypeOK /\ SharpOK /\ keys \in Seq(Key) /\ Len(keys) \in Nat
      /\ length[p] \in Byte /\ HasKey(FNum)
  BY DEF FanTypes, KeysInv, KeysTypeOK
<1>2. ASSUME UNCHANGED keyVars, pc[p] \notin {"listed", "described"} PROVE KeysMove(p)
  <2>1. Extends(keys, keys') /\ KeysInv'
    BY <1>1, <1>2 DEF Extends, keyVars, KeysInv, KeysTypeOK, SharpOK
  <2>2. FanCount' = FanCount
    BY <1>2 DEF FanCount, IndexOf, keyVars
  <2> QED BY <1>2, <2>1, <2>2 DEF KeysMove, keyVars
<1>3. ASSUME values' = values, Extends(keys, keys'), SharpOK' PROVE KeysInv'
  BY <1>1, <1>3 DEF KeysInv, KeysTypeOK, Extends
<1>4. CASE ReadFNum(p)
  BY <1>2, <1>4 DEF ReadFNum
<1>5. CASE GiveUp(p)
  BY <1>2, <1>5 DEF GiveUp
<1>6. CASE ListFan(p)
  BY <1>2, <1>6 DEF ListFan
<1>7. CASE ServeFan(p)
  <2> SUFFICES ASSUME NEW n, n = Served(p) PROVE KeysMove(p)
    OBVIOUS
  <2>1. /\ AddKeyWithHandler(n, FanSpeed.type, FanSpeed.size, p)
        /\ values' = values /\ pc[p] = "listed" /\ Served(p)' = n
    BY <1>7 DEF ServeFan, AddKeyHandler, Served
  <2>2. n \in Name /\ n # SharpName /\ n # FNum /\ \A q \in 1..NameLen : n[q] # 0
    BY <1>1, FanNames DEF Served
  <2>3. /\ Extends(keys, keys')
        /\ \A j \in 1..Len(keys) :
             /\ keys[j].name # n => keys'[j].handler = keys[j].handler
             /\ j # 1 => keys'[j].value = keys[j].value
        /\ HasKey(n)' /\ keys'[IndexOf(n)'].handler = p
        /\ SharpOK'
    <3>1. FanSpeed.type \in Name /\ FanSpeed.size \in 1..ByteMax
      BY FanNames
    <3> QED BY <1>1, <2>1, <2>2, <3>1, AddKeyWithHandlerStep
  <2>4. FanCount' = FanCount
    BY <2>3, FanCountStays
  <2>5. KeysInv'
    BY <1>3, <2>1, <2>3
  <2>6. HasKey(Served(p))' /\ keys'[IndexOf(Served(p))'].handler = p
    BY <2>1, <2>3 DEF HasKey, IndexOf
  <2> QED BY <2>1, <2>3, <2>4, <2>5, <2>6 DEF KeysMove
<1>8. CASE DescribeFan(p)
  <2>1. pc[p] = "served"
    BY <1>8 DEF DescribeFan
  <2>2. CASE UNCHANGED keyVars
    BY <1>2, <2>1, <2>2
  <2>3. CASE AddKeyValue(FanId[length[p]], FanDesc.type, FanDesc.value)
    <3> DEFINE n == FanId[length[p]]
    <3>1. AddKeyWithValue(n, FanDesc.type, FanDesc.value) /\ values' = values
      BY <2>3 DEF AddKeyValue
    <3>2. n \in Name /\ n # SharpName /\ n # FNum
      BY <1>1, FanNames
    <3> HIDE DEF n
    <3>3. /\ Extends(keys, keys')
          /\ \A j \in 1..Len(keys) :
               /\ keys'[j].handler = keys[j].handler
               /\ j # 1 /\ keys[j].name # n => keys'[j].value = keys[j].value
          /\ SharpOK'
      BY <1>1, <3>1, <3>2, FanNames, AddKeyWithValueStep
    <3>4. FanCount' = FanCount
      BY <3>2, <3>3, FanCountStays
    <3>5. KeysInv'
      BY <1>3, <3>1, <3>3
    <3> QED BY <2>1, <3>3, <3>4, <3>5 DEF KeysMove
  <2> QED BY <1>8, <2>2, <2>3 DEF DescribeFan
<1>9. CASE WriteFNum(p)
  <2> DEFINE v == <<NextNumber(p)>>
  <2>1. SetKeyValue(FNum, v) /\ values' = values /\ pc[p] = "described"
    BY <1>9 DEF WriteFNum, SetKeyValue
  <2>2. NextNumber(p) \in Byte /\ v \in Value /\ v[1] = NextNumber(p)
    BY <1>1, SizesAssumption DEF NextNumber, Byte, Value
  <2> HIDE DEF v
  <2>3. /\ Extends(keys, keys') /\ SharpOK'
        /\ keys'[IndexOf(FNum)].value = v
        /\ \A j \in 1..Len(keys) : keys'[j].handler = keys[j].handler
    BY <1>1, <2>1, <2>2, FanNames, SetKeyValueStep
  <2>4. FanCount' = NextNumber(p)
    BY <2>2, <2>3, FanKeysStay DEF FanCount
  <2>5. KeysInv'
    BY <1>3, <2>1, <2>3
  <2> QED BY <2>1, <2>3, <2>4, <2>5 DEF KeysMove
<1>10. CASE Stop(p)
  <2>1. keys' = keys /\ values' = values /\ pc[p] = "idle"
    BY <1>1, <1>10, RemoveKeyHandlerStep DEF Stop, RemoveKeyHandler
  <2> QED BY <1>2, <2>1 DEF keyVars
<1> QED BY <1>4, <1>5, <1>6, <1>7, <1>8, <1>9, <1>10 DEF FanStep

(***************************************************************************)
(* Every step keeps the invariant: a registration that has read a number   *)
(* below which all fans have keys adds the key of that number before it    *)
(* writes the next one, or 0 when the byte wraps.                          *)
(***************************************************************************)
LEMMA FanStepKeepsInv ==
  ASSUME FanInv, NEW p \in Handlers, FanStep(p)
  PROVE  FanInv'
<1>1. FanTypes /\ KeysMove(p) /\ Extends(keys, keys')
  BY FanStepMovesKeys DEF FanInv, KeysMove
<1>2. /\ HasKey(FNum)'
      /\ \A k \in Byte : HasKey(FanKey[k]) => HasKey(FanKey[k])'
  BY <1>1, FanKeysStay
<1>3. FanCount \in Byte /\ length[p] \in Byte /\ pc[p] \in Stages
  BY <1>1, FanCountIsByte DEF FanTypes
<1>4. /\ pc' \in [Handlers -> Stages] /\ \A q \in Handlers : q # p => pc'[q] = pc[q]
      /\ length' = IF pc[p] = "idle" /\ pc'[p] = "read" THEN [length EXCEPT ![p] = FanCount] ELSE length
      /\ <<pc[p], pc'[p]>> \in {<<"idle", "read">>, <<"read", "idle">>, <<"read", "listed">>,
                               <<"listed", "served">>, <<"served", "described">>,
                               <<"described", "idle">>, <<"idle", "stopped">>}
  BY <1>1 DEF FanTypes, Stages, Steps, FanStep, ReadFNum, GiveUp, ListFan, ServeFan, DescribeFan, WriteFNum, Stop
<1>5. length' \in [Handlers -> Byte] /\ \A q \in Handlers : q # p => length'[q] = length[q]
  BY <1>1, <1>3, <1>4 DEF FanTypes
<1>6. FanTypes'
  BY <1>1, <1>2, <1>4, <1>5 DEF FanTypes, KeysMove
<1>7. FansCountedExist'
  <2>1. CASE pc[p] # "described"
    BY <1>1, <1>2, <2>1 DEF FanInv, FansCountedExist, KeysMove, FanTypes
  <2>2. CASE pc[p] = "described"
    <3>1. \A k \in Byte : k <= length[p] => HasKey(FanKey[k])'
      <4>1. NumberIsKey(p) /\ Adding(p) /\ HasAdded(p)
        BY <2>2 DEF FanInv, NumbersAreKeys, Adding, HasAdded, Steps
      <4>2. \A k \in Byte : k <= length[p] => k < length[p] \/ k = length[p]
        BY <1>3, SizesAssumption DEF Byte
      <4> QED BY <1>2, <1>3, <4>1, <4>2 DEF NumberIsKey
    <3>2. \A k \in Byte : k < NextNumber(p) => k <= length[p]
      BY <1>3, NextNumberIs, SizesAssumption DEF Byte
    <3>3. FanCount' = NextNumber(p)
      BY <1>1, <2>2 DEF KeysMove
    <3> QED BY <3>1, <3>2, <3>3 DEF FansCountedExist
  <2> QED BY <2>1, <2>2
<1>8. ASSUME NEW q \in Handlers PROVE NumberIsKey(q)'
  <2>1. NumberIsKey(q)
    BY DEF FanInv, NumbersAreKeys
  <2>2. length[q] \in Byte /\ length'[q] \in Byte
    BY <1>1, <1>5 DEF FanTypes
  <2>3. CASE q # p
    BY <1>2, <1>4, <1>5, <2>1, <2>2, <2>3 DEF NumberIsKey, Adding, HasAdded
  <2>4. CASE q = p /\ pc[p] = "idle"
    <3>1. ~HasAdded(p)' /\ (Adding(p)' => length'[p] = FanCount)
      BY <1>1, <1>4, <2>4 DEF HasAdded, Adding, Steps, FanTypes
    <3>2. \A k \in Byte : k < FanCount => HasKey(FanKey[k])'
      BY <1>1, <1>2 DEF FanInv, FansCountedExist, FanTypes
    <3> QED BY <2>4, <3>1, <3>2 DEF NumberIsKey
  <2>5. CASE q = p /\ pc[p] # "idle"
    <3>1. length' = length /\ (Adding(p)' => Adding(p))
      BY <1>4, <2>5 DEF Adding, Steps
    <3>2. HasAdded(p)' => HasKey(FanKey[length[p]])'
      <4>1. HasAdded(p)' => HasAdded(p) \/ pc[p] = "listed"
        BY <1>4, <2>5 DEF HasAdded
      <4>2. HasAdded(p) => HasKey(FanKey[length[p]])'
        BY <1>2, <2>1, <2>2, <2>5, <3>1 DEF NumberIsKey
      <4>3. pc[p] = "listed" => HasKey(FanKey[length[p]])'
        BY <1>1 DEF KeysMove, Served
      <4> QED BY <4>1, <4>2, <4>3
    <3>3. Adding(p)' => \A k \in Byte : k < length[p] => HasKey(FanKey[k])'
      BY <1>2, <2>1, <2>5, <3>1 DEF NumberIsKey
    <3> QED BY <2>5, <3>1, <3>2, <3>3 DEF NumberIsKey
  <2> QED BY <2>3, <2>4, <2>5
<1>9. NumbersAreKeys'
  BY <1>8 DEF NumbersAreKeys
<1> QED BY <1>6, <1>7, <1>9 DEF FanInv

LEMMA FanInitInv == FanInit => FanInv
<1> SUFFICES ASSUME FanInit PROVE FanInv
  OBVIOUS
<1> DEFINE k1 == [name |-> SharpName, type |-> SharpType, value |-> SharpValue(2), handler |-> NoHandler]
           k2 == [name |-> FNum, type |-> DefaultType[1], value |-> <<0>>, handler |-> NoHandler]
<1>1. k1 \in Key /\ k1.name = SharpName /\ k1.value = SharpValue(2) /\ k1.handler = NoHandler
  BY SharpValueIsValue, NamesAssumption DEF Key
<1>2. k2 \in Key /\ k2.name = FNum /\ k2.value = <<0>>
  BY FanNames, NamesAssumption, SizesAssumption DEF Key, Value, Byte
<1>3. keys = <<k1, k2>>
  BY DEF FanInit
<1> HIDE DEF k1, k2
<1>4. keys \in Seq(Key) /\ Len(keys) = 2 /\ DOMAIN keys = {1, 2} /\ keys[1] = k1 /\ keys[2] = k2
  BY <1>1, <1>2, <1>3
<1>5. KeysInv
  BY <1>1, <1>4 DEF FanInit, KeysInv, KeysTypeOK, SharpOK
<1>6. HasKey(FNum)
  BY <1>2, <1>4 DEF HasKey
<1>7. pc \in [Handlers -> Stages] /\ length \in [Handlers -> Byte] /\ \A p \in Handlers : pc[p] = "idle"
  BY SizesAssumption DEF FanInit, Stages, Byte
<1>8. FanTypes
  BY <1>5, <1>6, <1>7 DEF FanTypes
<1>9. FanCount = 0
  <2>1. IndexOf(FNum) \in {1, 2} /\ keys[IndexOf(FNum)].name = FNum
    BY <1>4, <1>6, IndexOfFound
  <2>2. keys[IndexOf(FNum)] = k2
    BY <1>1, <1>4, <2>1, FanNames
  <2> QED BY <1>2, <2>2 DEF FanCount
<1>10. FansCountedExist /\ NumbersAreKeys
  BY <1>7, <1>9 DEF FansCountedExist, NumbersAreKeys, NumberIsKey, Adding, HasAdded, Steps, Byte
<1> QED BY <1>8, <1>10 DEF FanInv

LEMMA FanStutterKeepsInv == FanInv /\ UNCHANGED fanVars => FanInv'
  BY DEF fanVars, keyVars, FanInv, FanTypes, KeysInv, KeysTypeOK, SharpOK, FansCountedExist,
         NumbersAreKeys, NumberIsKey, HasKey, FanCount, IndexOf, Adding, HasAdded

LEMMA FanInvariant == FanSpec => []FanInv
<1>1. FanInv /\ [FanNext]_fanVars => FanInv'
  BY FanStepKeepsInv, FanStutterKeepsInv DEF FanNext
<1> QED BY <1>1, FanInitInv, PTL DEF FanSpec

(***************************************************************************)
(* A client that shows FNum fans finds the key of each, at every moment of *)
(* every interleaving of registrations, stops and starts, for any number   *)
(* of plug-ins and fans, also when the number wraps.                       *)
(***************************************************************************)
THEOREM CountedFansExist == FanSpec => []FansCountedExist
<1>1. FanInv => FansCountedExist
  BY DEF FanInv
<1> QED BY <1>1, FanInvariant, PTL

-----------------------------------------------------------------------------
(* Fans kept apart *)

\* Who serves the speed key of fan k.
Server(k) == keys[IndexOf(FanKey[k])].handler

\* The fans found so far, each of which takes one number at most.
Tried == {f \in Handlers \X (1..MaxTachs) : f[2] <= tachs[f[1]]}

\* As long as registrations do not overlap there is one at a time, it holds the
\* number FNum still has, and every number below belongs to who added it.  A
\* number is spent for each fan that was found, never for more.
Separate ==
  /\ \A p, q \in Handlers : Adding(p) /\ Adding(q) => p = q
  /\ FanCount <= Cardinality(Tried)
  /\ \A p \in Handlers :
       /\ Adding(p) => length[p] = FanCount /\ FanCount < Cardinality(Tried)
       /\ HasAdded(p) => Server(length[p]) = p
       /\ \A k \in added[p] : k \in Byte /\ k < FanCount /\ Server(k) = p

ApartInv ==
  /\ FanInv
  /\ tachs \in [Handlers -> 0..MaxTachs] /\ added \in [Handlers -> SUBSET Byte]
  /\ ~overlapped => Separate

(***************************************************************************)
(* Of a finite number of plug-ins, each with a bounded number of fans,     *)
(* only so many fans are found.                                            *)
(***************************************************************************)
LEMMA TriedIsBounded ==
  ASSUME IsFiniteSet(Handlers)
  PROVE  /\ IsFiniteSet(Tried) /\ Cardinality(Tried) \in Nat
         /\ Cardinality(Tried) <= MaxTachs * Cardinality(Handlers)
<1>1. MaxTachs \in Nat /\ IsFiniteSet(1..MaxTachs) /\ Cardinality(1..MaxTachs) = MaxTachs
  BY FanAssumption, FS_Interval
<1>2. /\ IsFiniteSet(Handlers \X (1..MaxTachs))
      /\ Cardinality(Handlers \X (1..MaxTachs)) = Cardinality(Handlers) * MaxTachs
  BY <1>1, FS_Product
<1>3. Tried \subseteq Handlers \X (1..MaxTachs)
  BY DEF Tried
<1>4. /\ IsFiniteSet(Tried)
      /\ Cardinality(Tried) <= Cardinality(Handlers \X (1..MaxTachs))
  BY <1>2, <1>3, FS_Subset
<1>5. Cardinality(Tried) \in Nat /\ Cardinality(Handlers) \in Nat
  BY <1>4, FS_CardinalityType
<1> QED BY <1>1, <1>2, <1>4, <1>5

(***************************************************************************)
(* Finding one more fan makes one more.                                    *)
(***************************************************************************)
LEMMA OneMoreTried ==
  ASSUME IsFiniteSet(Handlers), tachs \in [Handlers -> 0..MaxTachs], NEW p \in Handlers,
         tachs[p] < MaxTachs, tachs' = [tachs EXCEPT ![p] = @ + 1]
  PROVE  Cardinality(Tried') = Cardinality(Tried) + 1
<1> DEFINE new == <<p, tachs[p] + 1>>
<1>1. tachs[p] \in Nat /\ MaxTachs \in Nat
  BY FanAssumption
<1>2. Tried' = Tried \cup {new}
  BY <1>1 DEF Tried
<1>3. new \notin Tried
  BY <1>1 DEF Tried
<1>4. IsFiniteSet(Tried)
  BY TriedIsBounded
<1> HIDE DEF new
<1> QED BY <1>2, <1>3, <1>4, FS_AddElement

(***************************************************************************)
(* A step of p changes who serves the fan at hand, and no other.           *)
(***************************************************************************)
LEMMA ServersStay ==
  ASSUME FanTypes, NEW p \in Handlers, KeysMove(p), NEW k \in Byte, HasKey(FanKey[k]),
         pc[p] = "listed" => k # length[p]
  PROVE  Server(k)' = Server(k)
<1>1. keys \in Seq(Key) /\ DOMAIN keys = 1..Len(keys) /\ Extends(keys, keys') /\ length[p] \in Byte
  BY DEF FanTypes, KeysInv, KeysTypeOK, KeysMove
<1>2. IndexOf(FanKey[k]) \in 1..Len(keys) /\ keys[IndexOf(FanKey[k])].name = FanKey[k]
  BY <1>1, IndexOfFound
<1>3. IndexOf(FanKey[k])' = IndexOf(FanKey[k])
  BY <1>1, FanKeysStay
<1>4. pc[p] = "listed" => FanKey[k] # Served(p)
  BY <1>1, FanAssumption DEF Served
<1> QED BY <1>2, <1>3, <1>4 DEF KeysMove, Server

(***************************************************************************)
(* While registrations do not overlap, every step keeps them apart.        *)
(***************************************************************************)
LEMMA FanStepKeepsApart ==
  ASSUME IsFiniteSet(Handlers), MaxTachs * Cardinality(Handlers) <= ByteMax,
         ApartInv, NEW p \in Handlers, FanStep(p), ~overlapped'
  PROVE  Separate'
<1>1. FanInv /\ FanTypes /\ KeysMove(p) /\ length[p] \in Byte /\ FanCount \in Byte
  BY FanStepMovesKeys, FanCountIsByte DEF ApartInv, FanInv, FanTypes
<1>2. ~overlapped /\ Separate
  <2>1. overlapped => overlapped'
    BY DEF FanStep, ReadFNum, GiveUp, ListFan, ServeFan, DescribeFan, WriteFNum, Stop
  <2> QED BY <2>1 DEF ApartInv
<1>3. /\ Cardinality(Tried) \in Nat /\ Cardinality(Tried) <= ByteMax
      /\ FanCount \in Nat /\ ByteMax \in Nat /\ \A k \in Byte : k \in Nat
  <2>1. Cardinality(Handlers) \in Nat
    BY FS_CardinalityType
  <2> QED BY <1>1, <2>1, TriedIsBounded, FanAssumption, SizesAssumption DEF Byte
<1>4. \A q \in Handlers : \A k \in added[q] : HasKey(FanKey[k])
  BY <1>1, <1>2 DEF FanInv, FansCountedExist, FanTypes, Separate
<1>5. \A q \in Handlers : \A k \in added[q] : Server(k)' = q
  <2> SUFFICES ASSUME NEW q \in Handlers, NEW k \in added[q] PROVE Server(k)' = q
    OBVIOUS
  <2>1. k \in Byte /\ k < FanCount /\ Server(k) = q
    BY <1>2 DEF Separate
  <2>2. pc[p] = "listed" => length[p] = FanCount
    BY <1>2 DEF Separate, Adding, Steps
  <2>3. pc[p] = "listed" => k # length[p]
    BY <1>3, <2>1, <2>2
  <2> QED BY <1>1, <1>4, <2>1, <2>3, ServersStay
<1>6. ASSUME tachs' = tachs, length' = length, added' = added, pc[p] # "described",
             \A q \in Handlers : q # p => pc'[q] = pc[q],
             Adding(p)' => Adding(p), HasAdded(p)' => HasAdded(p) \/ pc[p] = "listed"
      PROVE  Separate'
  <2>1. FanCount' = FanCount /\ Tried' = Tried
    BY <1>1, <1>6 DEF KeysMove, Tried
  <2>2. \A q \in Handlers : Adding(q)' => Adding(q)
    BY <1>6 DEF Adding
  <2>3. ASSUME NEW q \in Handlers, HasAdded(q)' PROVE Server(length[q])' = q
    <3>1. CASE q = p /\ pc[p] = "listed"
      BY <1>1, <1>6, <3>1 DEF KeysMove, Server, Served
    <3>2. CASE HasAdded(q) /\ (q = p => pc[p] # "listed")
      <4>1. HasKey(FanKey[length[q]]) /\ Server(length[q]) = q /\ length[q] \in Byte
        BY <1>1, <1>2, <3>2 DEF FanInv, NumbersAreKeys, NumberIsKey, Separate, FanTypes
      <4>2. pc[p] = "listed" => FALSE
        BY <1>2, <3>2 DEF Separate, Adding, HasAdded, Steps
      <4>3. ASSUME NEW k, k = length[q] PROVE Server(k)' = q
        BY <1>1, <4>1, <4>2, <4>3, ServersStay
      <4> QED BY <1>6, <4>3 DEF Server, IndexOf
    <3>3. HasAdded(q) \/ (q = p /\ pc[p] = "listed")
      BY <1>6, <2>3 DEF HasAdded
    <3> QED BY <3>1, <3>2, <3>3 DEF HasAdded
  <2> QED BY <1>2, <1>5, <1>6, <2>1, <2>2, <2>3 DEF Separate
<1>7. CASE ReadFNum(p)
  <2>1. /\ \A q \in Handlers : ~Adding(q)
        /\ FanCount' = FanCount /\ added' = added
        /\ \A q \in Handlers : q # p => ~Adding(q)'
        /\ ~HasAdded(p)' /\ length'[p] = FanCount
    BY <1>1, <1>7 DEF ReadFNum, KeysMove, Adding, HasAdded, Steps, FanTypes
  <2>2. \A q \in Handlers : ~HasAdded(q)'
    BY <2>1 DEF HasAdded, Adding, Steps
  <2>3. Cardinality(Tried') = Cardinality(Tried) + 1
    BY <1>7, OneMoreTried DEF ReadFNum, ApartInv
  <2> QED BY <1>2, <1>3, <1>5, <2>1, <2>2, <2>3 DEF Separate
<1>8. CASE GiveUp(p)
  BY <1>1, <1>6, <1>8 DEF GiveUp, Adding, HasAdded, Steps, FanTypes
<1>9. CASE ListFan(p)
  BY <1>1, <1>6, <1>9 DEF ListFan, Adding, HasAdded, Steps, FanTypes
<1>10. CASE ServeFan(p)
  BY <1>1, <1>6, <1>10 DEF ServeFan, Adding, HasAdded, Steps, FanTypes
<1>11. CASE DescribeFan(p)
  BY <1>1, <1>6, <1>11 DEF DescribeFan, Adding, HasAdded, Steps, FanTypes
<1>12. CASE Stop(p)
  BY <1>1, <1>6, <1>12 DEF Stop, Adding, HasAdded, Steps, FanTypes
<1>13. CASE WriteFNum(p)
  <2>1. /\ pc[p] = "described" /\ length' = length /\ tachs' = tachs
        /\ added' = [added EXCEPT ![p] = @ \cup {length[p]}]
        /\ pc' = [pc EXCEPT ![p] = "idle"]
    BY <1>13 DEF WriteFNum
  <2>2. Adding(p) /\ HasAdded(p) /\ length[p] = FanCount /\ FanCount < Cardinality(Tried) /\ Server(length[p]) = p
    BY <1>2, <2>1 DEF Separate, Adding, HasAdded, Steps
  <2>3. FanCount' = FanCount + 1
    BY <1>1, <1>3, <2>1, <2>2, NextNumberIs DEF KeysMove
  <2>4. \A q \in Handlers : ~Adding(q)' /\ ~HasAdded(q)'
    BY <1>1, <1>2, <2>1, <2>2 DEF Separate, Adding, HasAdded, Steps, FanTypes
  <2>5. ASSUME NEW k, k = length[p] PROVE Server(k)' = p
    <3>1. HasKey(FanKey[k])
      BY <1>1, <2>2, <2>5 DEF FanInv, NumbersAreKeys, NumberIsKey
    <3> QED BY <1>1, <2>1, <2>2, <2>5, <3>1, ServersStay
  <2>6. ASSUME NEW q \in Handlers, NEW k \in added'[q]
        PROVE  k \in Byte /\ k < FanCount' /\ Server(k)' = q
    <3>1. k \in added[q] \/ (q = p /\ k = length[p])
      BY <2>1, <2>6 DEF ApartInv
    <3>2. CASE k \in added[q]
      BY <1>2, <1>3, <1>5, <2>3, <3>2 DEF Separate
    <3>3. CASE q = p /\ k = length[p]
      BY <1>1, <1>3, <2>2, <2>3, <2>5, <3>3
    <3> QED BY <3>1, <3>2, <3>3
  <2>7. FanCount' <= Cardinality(Tried')
    BY <1>3, <2>1, <2>2, <2>3 DEF Tried
  <2> QED BY <2>4, <2>6, <2>7 DEF Separate
<1> QED BY <1>7, <1>8, <1>9, <1>10, <1>11, <1>12, <1>13 DEF FanStep

LEMMA ApartInvariant ==
  ASSUME IsFiniteSet(Handlers), MaxTachs * Cardinality(Handlers) <= ByteMax
  PROVE  FanSpec => []ApartInv
<1>1. FanInit => ApartInv
  <2> SUFFICES ASSUME FanInit PROVE ApartInv
    OBVIOUS
  <2>1. FanInv /\ FanTypes
    BY FanInitInv DEF FanInv
  <2>2. /\ tachs \in [Handlers -> 0..MaxTachs] /\ added \in [Handlers -> SUBSET Byte]
        /\ \A p \in Handlers : ~Adding(p) /\ ~HasAdded(p) /\ added[p] = {}
    BY FanAssumption DEF FanInit, Adding, HasAdded, Steps
  <2>3. FanCount = 0
    <3>1. keys[2].name = FNum /\ keys[2].value = <<0>> /\ keys[1].name = SharpName /\ DOMAIN keys = {1, 2}
      BY DEF FanInit
    <3>2. IndexOf(FNum) \in DOMAIN keys /\ keys[IndexOf(FNum)].name = FNum
      BY <2>1, IndexOfFound DEF FanTypes, KeysInv, KeysTypeOK
    <3>3. IndexOf(FNum) = 2
      BY <3>1, <3>2, FanNames
    <3> QED BY <3>1, <3>3 DEF FanCount
  <2>4. Cardinality(Tried) \in Nat
    BY TriedIsBounded
  <2> QED BY <2>1, <2>2, <2>3, <2>4 DEF ApartInv, Separate
<1>2. ASSUME ApartInv, NEW p \in Handlers, FanStep(p) PROVE ApartInv'
  <2>1. FanInv'
    BY <1>2, FanStepKeepsInv DEF ApartInv
  <2>2. tachs' \in [Handlers -> 0..MaxTachs]
    BY <1>2, FanAssumption
       DEF ApartInv, FanStep, ReadFNum, GiveUp, ListFan, ServeFan, DescribeFan, WriteFNum, Stop
  <2>3. added' \in [Handlers -> SUBSET Byte]
    BY <1>2 DEF ApartInv, FanInv, FanTypes, FanStep, ReadFNum, GiveUp, ListFan, ServeFan, DescribeFan, WriteFNum, Stop
  <2>4. ~overlapped' => Separate'
    BY <1>2, FanStepKeepsApart
  <2> QED BY <2>1, <2>2, <2>3, <2>4 DEF ApartInv
<1>3. ApartInv /\ UNCHANGED fanVars => ApartInv'
  <2> SUFFICES ASSUME ApartInv, UNCHANGED fanVars PROVE ApartInv'
    OBVIOUS
  <2>1. FanInv' /\ keys' = keys /\ UNCHANGED <<pc, length, tachs, added, overlapped>>
    BY FanStutterKeepsInv DEF ApartInv, fanVars, keyVars
  <2>2. FanCount' = FanCount /\ Tried' = Tried /\ \A k : Server(k)' = Server(k)
    BY <2>1 DEF FanCount, Server, IndexOf, Tried
  <2>3. \A p \in Handlers : Adding(p)' = Adding(p) /\ HasAdded(p)' = HasAdded(p)
    BY <2>1 DEF Adding, HasAdded
  <2>4. ASSUME NEW p \in Handlers, NEW k, k = length[p] PROVE Server(length[p])' = Server(k)
    BY <2>1, <2>4 DEF Server, IndexOf
  <2>5. Separate => Separate'
    BY <2>1, <2>2, <2>3, <2>4 DEF Separate
  <2> QED BY <2>1, <2>5 DEF ApartInv
<1>4. ApartInv /\ [FanNext]_fanVars => ApartInv'
  BY <1>2, <1>3 DEF FanNext
<1> QED BY <1>1, <1>4, PTL DEF FanSpec

(***************************************************************************)
(* Until two registrations overlap, every fan that was added is counted    *)
(* and its speed key is served by the plug-in that added it, for any       *)
(* number of plug-ins and fans that a byte can count.  (FNum is a UInt8:   *)
(* with more fans it would wrap and numbers would be given twice.)         *)
(***************************************************************************)
THEOREM FansAreKeptApart ==
  ASSUME IsFiniteSet(Handlers), MaxTachs * Cardinality(Handlers) <= ByteMax
  PROVE  FanSpec => []FansKeptApart
<1>1. ApartInv => FansKeptApart
  BY DEF ApartInv, Separate, FansKeptApart, Server
<1> QED BY <1>1, ApartInvariant, PTL

-----------------------------------------------------------------------------
(***************************************************************************)
(* The tachometers of a Winbond chip (W836xFans). The module's assumption  *)
(* says of a chip which bits its registers have and how many fans; the     *)
(* periods of fans are any natural numbers.                                *)
(***************************************************************************)

(***************************************************************************)
(* The lesser of two numbers.                                              *)
(***************************************************************************)
LEMMA MinOfTwo == ASSUME NEW a \in Nat, NEW b \in Nat PROVE Min({a, b}) = IF a <= b THEN a ELSE b
<1> DEFINE m == IF a <= b THEN a ELSE b
<1>1. m \in {a, b} /\ \A y \in {a, b} : m <= y
  OBVIOUS
<1>2. ASSUME NEW x \in {a, b}, \A y \in {a, b} : x <= y PROVE x = m
  BY <1>2
<1> HIDE DEF m
<1>3. (CHOOSE x \in {a, b} : \A y \in {a, b} : x <= y) = m
  BY <1>1, <1>2
<1> QED BY <1>3 DEF Min, m

(***************************************************************************)
(* A divisor is two to its offset.                                         *)
(***************************************************************************)
LEMMA Units ==
  /\ Unit(0) = 1 /\ Unit(1) = 2 /\ Unit(2) = 4 /\ Unit(3) = 8
  /\ Unit(4) = 16 /\ Unit(5) = 32 /\ Unit(6) = 64 /\ Unit(7) = 128
BY DEF Unit

(***************************************************************************)
(* A divisor is at most 128.                                               *)
(***************************************************************************)
LEMMA UnitBound == ASSUME NEW o \in 0..7 PROVE Unit(o) \in 1..128
BY Units

\* A period in units, and what the chip shows of it.
Ticks(p, o) == p \div Unit(o)
Shown(p, o) == Min({255, Ticks(p, o)})

(***************************************************************************)
(* Ticks are counted in whole numbers.                                     *)
(***************************************************************************)
LEMMA TicksIn == ASSUME NEW p \in Nat, NEW o \in 0..7 PROVE Ticks(p, o) \in Nat
BY Units DEF Ticks

(***************************************************************************)
(* The counter shows the ticks of a revolution up to 255.                  *)
(***************************************************************************)
LEMMA ShownIs ==
  ASSUME NEW p \in Nat, NEW o \in 0..7
  PROVE  /\ Ticks(p, o) \in Nat
         /\ Shown(p, o) = IF 255 <= Ticks(p, o) THEN 255 ELSE Ticks(p, o)
         /\ Shown(p, o) \in 0..255
<1>1. Ticks(p, o) \in Nat
  BY TicksIn
<1>2. Shown(p, o) = IF 255 <= Ticks(p, o) THEN 255 ELSE Ticks(p, o)
  BY <1>1, MinOfTwo DEF Shown
<1> QED BY <1>1, <1>2

(***************************************************************************)
(* With the next divisor there are half as many ticks: more than 192 leave *)
(* at least 96, fewer than 96 come from at most 192.                       *)
(***************************************************************************)
LEMMA Halves ==
  ASSUME NEW p \in Nat, NEW o \in 0..7, NEW q \in 0..7, q = o + 1
  PROVE  /\ Ticks(p, o) > 192 => Ticks(p, q) >= 96
         /\ Ticks(p, q) < 96 => Ticks(p, o) <= 192
BY Units DEF Ticks

(***************************************************************************)
(* A move of the divisor by a count that is true does not go too far: the  *)
(* count under the new divisor does not ask for the way back.              *)
(***************************************************************************)
LEMMA MoveFits ==
  ASSUME NEW p \in Nat, NEW o \in 0..7, NEW to, to = Moved(Shown(p, o), o)
  PROVE  /\ to - o = 1 => Shown(p, to) >= 96
         /\ to - o = -1 => Shown(p, to) <= 192
<1> DEFINE n == Shown(p, o)
<1>1. n \in 0..255 /\ (n = IF 255 <= Ticks(p, o) THEN 255 ELSE Ticks(p, o)) /\ Ticks(p, o) \in Nat
  BY ShownIs
<1>2. CASE n > 192 /\ o < 7
  <2>1. to = o + 1 /\ to \in 0..7
    BY <1>1, <1>2 DEF Moved
  <2>2. Ticks(p, o) > 192
    BY <1>1, <1>2
  <2>3. Ticks(p, to) >= 96
    BY <2>1, <2>2, Halves
  <2>4. Ticks(p, to) \in Nat /\ Shown(p, to) = IF 255 <= Ticks(p, to) THEN 255 ELSE Ticks(p, to)
    BY <2>1, ShownIs
  <2>5. Shown(p, to) >= 96
    BY <2>3, <2>4
  <2> QED BY <2>1, <2>5
<1>3. CASE n < 96 /\ o > 0
  <2>1. o = to + 1 /\ to \in 0..7
    BY <1>1, <1>3 DEF Moved
  <2>2. Ticks(p, o) < 96
    BY <1>1, <1>3
  <2>3. Ticks(p, to) <= 192
    BY <2>1, <2>2, Halves
  <2>4. Ticks(p, to) \in Nat /\ Shown(p, to) = IF 255 <= Ticks(p, to) THEN 255 ELSE Ticks(p, to)
    BY <2>1, ShownIs
  <2>5. Shown(p, to) <= 192
    BY <2>3, <2>4
  <2> QED BY <2>1, <2>5
<1>4. CASE ~(n > 192 /\ o < 7) /\ ~(n < 96 /\ o > 0)
  <2>1. to = o
    BY <1>1, <1>4 DEF Moved
  <2> QED BY <2>1
<1> QED BY <1>2, <1>3, <1>4

(***************************************************************************)
(* A divisor moves by one place at most, up only from a count above 192    *)
(* and down only from one below 96.                                        *)
(***************************************************************************)
LEMMA MovedIs ==
  ASSUME NEW n \in 0..255, NEW o \in 0..7
  PROVE  /\ Moved(n, o) \in 0..7
         /\ Moved(n, o) - o \in {-1, 0, 1}
         /\ Moved(n, o) - o = 1 => n > 192
         /\ Moved(n, o) - o = -1 => n < 96
<1>1. CASE n > 192 /\ o < 7
  BY <1>1 DEF Moved
<1>2. CASE n < 96 /\ o > 0
  BY <1>2 DEF Moved
<1>3. CASE ~(n > 192 /\ o < 7) /\ ~(n < 96 /\ o > 0)
  <2>1. Moved(n, o) = o
    BY <1>3 DEF Moved
  <2> QED BY <2>1
<1> QED BY <1>1, <1>2, <1>3

-----------------------------------------------------------------------------
(***************************************************************************)
(* The bits that register j holds, from the highest of the first register  *)
(* down.                                                                   *)
(***************************************************************************)
LEMMA BitsOfRegister ==
  ASSUME NEW j \in 0..4, NEW b \in 0..39
  PROVE  b \in InRegister(j) <=> b >= 32 - 8 * j /\ b < 40 - 8 * j
<1>1. j \in {0, 1, 2, 3, 4} /\ InRegister(j) = (32 - 8 * j)..(39 - 8 * j)
  BY DEF InRegister
<1> QED BY <1>1

(***************************************************************************)
(* The places of the divisors' bits among the five registers.              *)
(***************************************************************************)
LEMMA Places ==
  /\ DivisorBits[0] = <<36, 37, 5>> /\ DivisorBits[1] = <<38, 39, 6>> /\ DivisorBits[2] = <<30, 31, 7>>
  /\ DivisorBits[3] = <<8, 9, 23>> /\ DivisorBits[4] = <<10, 11, 15>>
BY DEF DivisorBits

(***************************************************************************)
(* The three bits of a fan's divisor are different bits of the registers.  *)
(***************************************************************************)
LEMMA AllBitsAre ==
  ASSUME NEW f \in 0..4
  PROVE  /\ AllBits(f) = {DivisorBits[f][1], DivisorBits[f][2], DivisorBits[f][3]}
         /\ AllBits(f) \subseteq 0..39
         /\ DivisorBits[f][1] # DivisorBits[f][2] /\ DivisorBits[f][1] # DivisorBits[f][3]
         /\ DivisorBits[f][2] # DivisorBits[f][3]
<1>1. AllBits(f) = {DivisorBits[f][1], DivisorBits[f][2], DivisorBits[f][3]}
  BY DEF AllBits
<1>2. /\ DivisorBits[f][1] \in 0..39 /\ DivisorBits[f][2] \in 0..39 /\ DivisorBits[f][3] \in 0..39
      /\ DivisorBits[f][1] # DivisorBits[f][2] /\ DivisorBits[f][1] # DivisorBits[f][3]
      /\ DivisorBits[f][2] # DivisorBits[f][3]
  <2>1. CASE f = 0 BY <2>1, Places
  <2>2. CASE f = 1 BY <2>2, Places
  <2>3. CASE f = 2 BY <2>3, Places
  <2>4. CASE f = 3 BY <2>4, Places
  <2>5. CASE f = 4 BY <2>5, Places
  <2> QED BY <2>1, <2>2, <2>3, <2>4, <2>5
<1> QED BY <1>1, <1>2

(***************************************************************************)
(* No two fans share a bit.                                                *)
(***************************************************************************)
LEMMA DivisorsApart ==
  ASSUME NEW f \in 0..4, NEW g \in 0..4, f # g
  PROVE  AllBits(f) \intersect AllBits(g) = {}
<1>1. /\ AllBits(0) = {36, 37, 5} /\ AllBits(1) = {38, 39, 6} /\ AllBits(2) = {30, 31, 7}
      /\ AllBits(3) = {8, 9, 23} /\ AllBits(4) = {10, 11, 15}
  BY AllBitsAre, Places
<1>2. CASE f = 0 BY <1>1, <1>2
<1>3. CASE f = 1 BY <1>1, <1>3
<1>4. CASE f = 2 BY <1>1, <1>4
<1>5. CASE f = 3 BY <1>1, <1>5
<1>6. CASE f = 4 BY <1>1, <1>6
<1> QED BY <1>2, <1>3, <1>4, <1>5, <1>6

(***************************************************************************)
(* Three bits make an offset of at most 7.                                 *)
(***************************************************************************)
LEMMA OffsetIs == ASSUME NEW f, NEW S PROVE Offset(f, S) \in 0..7
BY DEF Offset

(***************************************************************************)
(* An offset depends on the fan's own bits alone.                          *)
(***************************************************************************)
LEMMA OffsetSame ==
  ASSUME NEW f \in 0..4, NEW S, NEW T, \A b \in AllBits(f) : b \in S <=> b \in T
  PROVE  Offset(f, S) = Offset(f, T)
BY AllBitsAre DEF Offset

(***************************************************************************)
(* setBit three times makes the offset that was asked for...               *)
(***************************************************************************)
LEMMA OffsetMade ==
  ASSUME NEW f \in 0..4, NEW S, NEW o \in 0..7
  PROVE  Offset(f, (S \ AllBits(f)) \union OffsetBits(f, o)) = o
<1> DEFINE T == (S \ AllBits(f)) \union OffsetBits(f, o)
           x == DivisorBits[f][1]
           y == DivisorBits[f][2]
           z == DivisorBits[f][3]
<1>1. /\ x \in T <=> o % 2 = 1
      /\ y \in T <=> (o \div 2) % 2 = 1
      /\ z \in T <=> o \div 4 = 1
  BY AllBitsAre DEF OffsetBits
<1>2. Offset(f, T) = (IF o % 2 = 1 THEN 1 ELSE 0) + (IF (o \div 2) % 2 = 1 THEN 2 ELSE 0) + (IF o \div 4 = 1 THEN 4 ELSE 0)
  <2> HIDE DEF T
  <2> QED BY <1>1 DEF Offset
<1>3. o \in {0, 1, 2, 3, 4, 5, 6, 7}
  OBVIOUS
<1>4. Offset(f, T) = o
  <2> HIDE DEF T
  <2> QED BY <1>2, <1>3
<1> QED BY <1>4

(***************************************************************************)
(* ... and leaves those of the other fans.                                 *)
(***************************************************************************)
LEMMA OthersKept ==
  ASSUME NEW f \in 0..4, NEW g \in 0..4, f # g, NEW S, NEW o
  PROVE  Offset(g, (S \ AllBits(f)) \union OffsetBits(f, o)) = Offset(g, S)
<1>1. OffsetBits(f, o) \subseteq AllBits(f)
  BY AllBitsAre DEF OffsetBits
<1>2. AllBits(f) \intersect AllBits(g) = {}
  BY DivisorsApart
<1> QED BY <1>1, <1>2, OffsetSame

-----------------------------------------------------------------------------
\* What a reader may have come to, and with which fan.
ReaderStates ==
  [at : {"idle", "divisors", "counts", "write", "last"}, i : 0..5, fan : 0..5,
   bits : SUBSET (0..39), new : SUBSET (0..39)]

\* A reader counts fans the chip has and registers there are.
PlaceOK(s) == /\ s.at = "counts" => s.i \in Fans
              /\ s.at \in {"divisors", "write"} => s.i \in 0..4
              /\ s.at # "idle" => s.fan \in Fans

\* The types.
TachTypes ==
  /\ chip \in Chips /\ bits \subseteq 0..39
  /\ period \in [0..5 -> Nat] /\ count \in [0..4 -> 0..255]
  /\ fanValue \in [0..4 -> [count : Nat, offset : 0..7]]
  /\ reader \in [Readers -> ReaderStates] /\ \A r \in Readers : PlaceOK(reader[r])
  /\ alone \in BOOLEAN /\ moved \in [0..4 -> {-1, 0, 1}]

\* While it is alone, a reader's copy of the divisors is that of the registers it
\* has read, then of all, and the registers are those it has written and, below,
\* those it knows.
CopyOf(r) ==
  LET i == reader[r].i
      known == reader[r].bits
      new == reader[r].new
  IN  /\ reader[r].at = "divisors" => known = {b \in bits : b >= 40 - 8 * i}
      /\ reader[r].at = "counts" => known = bits /\ \A g \in i..4 : Offset(g, new) = Offset(g, bits)
      /\ reader[r].at = "write" => bits = {b \in known : b >= 32 - 8 * i} \union {b \in new : b < 32 - 8 * i}

\* While a reader is alone no other is within updateTachometers.
OneReads == \A q, r \in Readers : Refreshing(q) /\ Refreshing(r) => q = r
Lonely == alone => OneReads /\ (~chip.nuvoton => \A r \in Readers : CopyOf(r))

\* A divisor that was moved fits the fan under the offset the registers come to hold.
Fits(f, o) == /\ moved[f] = 1 => Shown(period[f], o) >= 96
              /\ moved[f] = -1 => Shown(period[f], o) <= 192

\* A reader that has a copy of its own to choose the divisors in.
Choosing(r) == reader[r].at \in {"counts", "write"}
\* Moves are of a lonely reader: what it chooses, and what the registers hold once
\* nobody chooses, fits.
MovesFit ==
  \A f \in 0..4 :
    /\ alone \/ moved[f] = 0
    /\ \A r \in Readers : Choosing(r) => Fits(f, Offset(f, reader[r].new))
    /\ (\A r \in Readers : ~Choosing(r)) => Fits(f, Offset(f, bits))

\* The inductive invariant. A Nuvoton has no divisors to move.
TachInv == TachTypes /\ Lonely /\ (~chip.nuvoton => MovesFit) /\ (chip.nuvoton => \A f \in 0..4 : moved[f] = 0)

(***************************************************************************)
(* The state of a reader, and its parts.                                   *)
(***************************************************************************)
LEMMA PlaceIs ==
  ASSUME NEW at \in {"idle", "divisors", "counts", "write", "last"}, NEW i \in 0..5, NEW fan \in 0..5,
         NEW read \in SUBSET (0..39), NEW new \in SUBSET (0..39)
  PROVE  /\ Place(at, i, fan, read, new) \in ReaderStates
         /\ Place(at, i, fan, read, new).at = at /\ Place(at, i, fan, read, new).i = i
         /\ Place(at, i, fan, read, new).fan = fan
         /\ Place(at, i, fan, read, new).bits = read /\ Place(at, i, fan, read, new).new = new
BY DEF Place, ReaderStates

(***************************************************************************)
(* What the assumption says of a chip.                                     *)
(***************************************************************************)
LEMMA WinbondChips ==
  ASSUME NEW c \in Chips
  PROVE  /\ c.nuvoton \in BOOLEAN /\ c.bits \subseteq 0..39
         /\ c.fanLimit \in 0..6 /\ (~c.nuvoton => c.fanLimit \in 0..5)
         /\ \A f \in 0..5 : c.periods[f] \subseteq Nat
BY WinbondAssumption

(***************************************************************************)
(* Without the NCT6775's registers a chip has five fans at most.           *)
(***************************************************************************)
LEMMA FanIs ==
  ASSUME TachTypes, NEW f \in Fans
  PROVE  f \in 0..5 /\ (~chip.nuvoton => f \in 0..4) /\ Periods(f) \subseteq Nat
BY WinbondChips DEF TachTypes, Fans, Periods

(***************************************************************************)
(* What the chip counts is what its counter can show.                      *)
(***************************************************************************)
LEMMA CountsIs ==
  ASSUME TachTypes, NEW f \in 0..4
  PROVE  Counts(f) = Shown(period[f], Offset(f, bits)) /\ Counts(f) \in 0..255
<1>1. period[f] \in Nat /\ Offset(f, bits) \in 0..7
  BY OffsetIs DEF TachTypes
<1> QED BY <1>1, ShownIs DEF Counts, Shown, Ticks

(***************************************************************************)
(* A divisor that was not moved has nothing to fit.                        *)
(***************************************************************************)
LEMMA UnmovedFits == ASSUME NEW f, NEW o, moved[f] = 0 PROVE Fits(f, o)
BY DEF Fits

(***************************************************************************)
(* The invariant holds at the start: no reader, no divisor moved.          *)
(***************************************************************************)
LEMMA TachInitOK == ASSUME W836xInit PROVE TachInv
<1>1. chip \in Chips /\ bits \subseteq 0..39
  BY WinbondChips DEF W836xInit
<1>2. period \in [0..5 -> Nat]
  <2>1. \A f \in 0..5 : period[f] \in Periods(f) /\ Periods(f) \subseteq Nat
    BY <1>1, WinbondChips DEF W836xInit, Periods
  <2>2. \E S : period \in [0..5 -> S]
    BY DEF W836xInit
  <2> QED BY <2>1, <2>2
<1>3. count \in [0..4 -> 0..255]
  <2>1. \A f \in 0..4 : Counts(f) \in 0..255
    <3> SUFFICES ASSUME NEW f \in 0..4 PROVE Counts(f) \in 0..255
      OBVIOUS
    <3>1. period[f] \in Nat /\ Offset(f, bits) \in 0..7
      BY <1>2, OffsetIs
    <3> QED BY <3>1, ShownIs DEF Counts, Shown, Ticks
  <2> QED BY <2>1 DEF W836xInit
<1>4. reader \in [Readers -> ReaderStates] /\ \A r \in Readers : reader[r].at = "idle"
  BY DEF W836xInit, Resting, Place, ReaderStates
<1>5. alone = TRUE /\ moved = [f \in 0..4 |-> 0] /\ fanValue = [f \in 0..4 |-> NoSpeed]
  BY DEF W836xInit
<1>6. TachTypes
  BY <1>1, <1>2, <1>3, <1>4, <1>5 DEF TachTypes, PlaceOK, NoSpeed
<1>7. Lonely
  BY <1>4 DEF Lonely, OneReads, Refreshing, CopyOf
<1>8. \A f \in 0..4 : moved[f] = 0
  BY <1>5
<1>9. MovesFit
  BY <1>4, <1>8, UnmovedFits DEF MovesFit
<1> QED BY <1>6, <1>7, <1>8, <1>9 DEF TachInv

(***************************************************************************)
(* The chip measures: nobody's copy is of the counts.                      *)
(***************************************************************************)
LEMMA MeasureStep ==
  ASSUME TachInv, NEW f \in Fans, Measure(f)
  PROVE  TachInv'
<1>1. f \in 0..4 /\ Counts(f) \in 0..255
  BY FanIs, CountsIs DEF Measure, Divided, TachInv
<1>2. count' \in [0..4 -> 0..255]
  BY <1>1 DEF Measure, TachInv, TachTypes
<1>3. UNCHANGED <<chip, bits, period, fanValue, fanValueObsolete, reader, alone, moved>>
  BY DEF Measure
<1>4. TachTypes'
  BY <1>2, <1>3 DEF TachInv, TachTypes, PlaceOK, Readers, Fans
<1>5. Lonely'
  BY <1>3 DEF TachInv, Lonely, OneReads, Readers, Refreshing, CopyOf
<1>6. (~chip.nuvoton => MovesFit)'
  BY <1>3 DEF TachInv, MovesFit, Readers, Choosing, Fits
<1> QED BY <1>3, <1>4, <1>5, <1>6 DEF TachInv

(***************************************************************************)
(* A fan changes its speed: its divisor counts as not moved.               *)
(***************************************************************************)
LEMMA ChangesStep ==
  ASSUME TachInv, NEW f \in Fans, NEW p \in Periods(f), Changes(f, p)
  PROVE  TachInv'
<1>1. f \in 0..5 /\ p \in Nat /\ UNCHANGED <<chip, bits, count, counted, fanValue, fanValueObsolete, reader, alone>>
  BY FanIs DEF Changes, TachInv
<1>2. period' \in [0..5 -> Nat] /\ \A g \in 0..4 : g # f => period'[g] = period[g]
  BY <1>1 DEF Changes, TachInv, TachTypes
<1>3. /\ moved' \in [0..4 -> {-1, 0, 1}]
      /\ \A g \in 0..4 : moved'[g] = IF g = f THEN 0 ELSE moved[g]
  BY DEF Changes, TachInv, TachTypes
<1>4. TachTypes'
  BY <1>1, <1>2, <1>3 DEF TachInv, TachTypes, PlaceOK, Readers, Fans
<1>5. Lonely'
  BY <1>1 DEF TachInv, Lonely, OneReads, Readers, Refreshing, CopyOf
<1>6. ASSUME ~chip.nuvoton, NEW g \in 0..4, NEW o, moved'[g] = 0 \/ Fits(g, o) PROVE Fits(g, o)'
  BY <1>2, <1>3, <1>6 DEF Fits
<1>7. (~chip.nuvoton => MovesFit)'
  BY <1>1, <1>3, <1>6 DEF TachInv, MovesFit, Readers, Choosing
<1>8. (chip.nuvoton => \A g \in 0..4 : moved[g] = 0)'
  BY <1>1, <1>3 DEF TachInv
<1> QED BY <1>4, <1>5, <1>7, <1>8 DEF TachInv

(***************************************************************************)
(* A value is used, and obsolete from then on.                             *)
(***************************************************************************)
LEMMA UseStep ==
  ASSUME TachInv, NEW r \in Readers, NEW f \in Fans, Use(r, f)
  PROVE  TachInv'
<1>1. UNCHANGED <<chip, bits, period, count, counted, fanValue, reader, alone, moved>>
  BY DEF Use
<1>4. TachTypes'
  BY <1>1 DEF TachInv, TachTypes, PlaceOK, Readers, Fans
<1>5. Lonely'
  BY <1>1 DEF TachInv, Lonely, OneReads, Readers, Refreshing, CopyOf
<1>6. (~chip.nuvoton => MovesFit)'
  BY <1>1 DEF TachInv, MovesFit, Readers, Choosing, Fits
<1> QED BY <1>1, <1>4, <1>5, <1>6 DEF TachInv

(***************************************************************************)
(* While a reader is alone the others are idle.                            *)
(***************************************************************************)
LEMMA OthersRest ==
  ASSUME TachInv, alone, NEW r \in Readers, Refreshing(r), NEW q \in Readers, q # r
  PROVE  reader[q].at = "idle"
BY DEF TachInv, Lonely, OneReads, Refreshing

(***************************************************************************)
(* A step of one reader keeps the types if the reader's new state has      *)
(* them, and leaves the others where they are.                             *)
(***************************************************************************)
LEMMA ReaderSteps ==
  ASSUME TachInv, NEW r \in Readers, NEW s \in ReaderStates, PlaceOK(s), reader' = [reader EXCEPT ![r] = s],
         UNCHANGED <<chip, period, count>>, bits' \subseteq 0..39,
         fanValue' \in [0..4 -> [count : Nat, offset : 0..7]], alone' \in BOOLEAN, moved' \in [0..4 -> {-1, 0, 1}]
  PROVE  /\ TachTypes' /\ reader'[r] = s
         /\ \A q \in Readers : q # r => reader'[q] = reader[q]
         /\ Readers' = Readers
<1>1. /\ reader' \in [Readers -> ReaderStates] /\ reader'[r] = s
      /\ \A q \in Readers : q # r => reader'[q] = reader[q]
      /\ Readers' = Readers /\ Fans' = Fans
  BY DEF TachInv, TachTypes, Readers, Fans
<1>2. \A q \in Readers : PlaceOK(reader[q])'
  BY <1>1 DEF TachInv, TachTypes, PlaceOK
<1> QED BY <1>1, <1>2 DEF TachInv, TachTypes

(***************************************************************************)
(* A step of a reader that is alone leaves it alone: what is to be shown   *)
(* is that its copy is still that of the registers.                        *)
(***************************************************************************)
LEMMA StaysLonely ==
  ASSUME TachInv, NEW r \in Readers, Refreshing(r), UNCHANGED <<chip, alone>>, Readers' = Readers,
         \A q \in Readers : q # r => reader'[q] = reader[q],
         alone /\ ~chip.nuvoton => CopyOf(r)'
  PROVE  Lonely'
<1>1. alone => \A q \in Readers : q # r => reader[q].at = "idle" /\ reader'[q].at = "idle"
  BY OthersRest
<1>2. alone => OneReads'
  BY <1>1 DEF OneReads, Refreshing
<1>3. alone /\ ~chip.nuvoton => \A q \in Readers : CopyOf(q)'
  BY <1>1 DEF CopyOf
<1> QED BY <1>2, <1>3 DEF Lonely

(***************************************************************************)
(* updateTachometers begins: the reader's copy is empty.                   *)
(***************************************************************************)
LEMMA RefreshStep ==
  ASSUME TachInv, NEW r \in Readers, NEW f \in Fans, Refresh(r, f)
  PROVE  TachInv'
<1> DEFINE s == Place(IF chip.nuvoton THEN "counts" ELSE "divisors", 0, f, {}, {})
<1>1. UNCHANGED <<chip, bits, period, count, counted, fanValue, fanValueObsolete>> /\ reader[r].at = "idle"
  BY DEF Refresh, Refreshing
<1>2. s \in ReaderStates /\ PlaceOK(s)
  <2>1. f \in 0..5 /\ 0 \in Fans
    BY FanIs, WinbondChips DEF TachInv, TachTypes, Fans
  <2> QED BY <2>1 DEF Place, ReaderStates, PlaceOK
<1>4. alone' \in BOOLEAN /\ (alone' => \A q \in Readers : q # r => reader[q].at = "idle")
  BY DEF Refresh, Others, Refreshing
<1>5. moved' \in [0..4 -> {-1, 0, 1}] /\ (moved' = moved \/ \A g \in 0..4 : moved'[g] = 0)
  BY DEF Refresh, TachInv, TachTypes
<1>6. alone' \/ \A g \in 0..4 : moved'[g] = 0
  BY DEF Refresh
<1>3. TachTypes' /\ reader'[r] = s /\ (\A q \in Readers : q # r => reader'[q] = reader[q]) /\ Readers' = Readers
  <2> HIDE DEF s
  <2>1. reader' = [reader EXCEPT ![r] = s]
    BY DEF Refresh, s
  <2>2. bits' \subseteq 0..39 /\ fanValue' \in [0..4 -> [count : Nat, offset : 0..7]]
    BY <1>1 DEF TachInv, TachTypes
  <2> QED BY <1>1, <1>2, <1>4, <1>5, <2>1, <2>2, ReaderSteps
<1>8. Lonely'
  <2>1. alone' => \A q \in Readers : q # r => reader'[q].at = "idle"
    BY <1>3, <1>4
  <2>2. alone' => OneReads'
    BY <1>3, <2>1 DEF OneReads, Refreshing
  <2>3. ~chip.nuvoton => CopyOf(r)'
    <3>1. ~chip.nuvoton => reader'[r].at = "divisors" /\ reader'[r].i = 0 /\ reader'[r].bits = {}
      BY <1>3 DEF Place
    <3>2. {b \in bits : b >= 40 - 8 * 0} = {}
      <4>1. bits \subseteq 0..39 /\ \A b \in 0..39 : ~(b >= 40 - 8 * 0)
        BY DEF TachInv, TachTypes
      <4> QED BY <4>1
    <3> QED BY <1>1, <3>1, <3>2 DEF CopyOf
  <2>4. alone' /\ ~chip.nuvoton => \A q \in Readers : CopyOf(q)'
    BY <2>1, <2>3 DEF CopyOf
  <2> QED BY <1>1, <1>3, <2>2, <2>4 DEF Lonely
<1>9. ASSUME ~chip.nuvoton PROVE MovesFit'
  <2>1. CASE \A g \in 0..4 : moved'[g] = 0
    BY <2>1 DEF MovesFit, Fits
  <2>2. CASE alone' /\ moved' = moved
    <3>1. \A q \in Readers : ~Choosing(q) /\ ~Choosing(q)'
      BY <1>1, <1>3, <1>4, <1>9, <2>2 DEF Choosing, Place
    <3>2. \A g \in 0..4 : Fits(g, Offset(g, bits))
      BY <1>9, <3>1 DEF TachInv, MovesFit
    <3> QED BY <1>1, <1>3, <2>2, <3>1, <3>2 DEF MovesFit, Fits
  <2> QED BY <1>5, <1>6, <2>1, <2>2
<1>10. chip.nuvoton => \A g \in 0..4 : moved'[g] = 0
  BY <1>5 DEF TachInv
<1> QED BY <1>1, <1>3, <1>8, <1>9, <1>10 DEF TachInv

(***************************************************************************)
(* A register of divisors is read: the copy is that of one register more,  *)
(* and of all of them after the fifth.                                     *)
(***************************************************************************)
LEMMA ReadDivisorStep ==
  ASSUME TachInv, NEW r \in Readers, ReadDivisor(r)
  PROVE  TachInv'
<1> DEFINE i == reader[r].i
           set == reader[r].bits \union (bits \intersect InRegister(i))
           s == IF i < 4 THEN Place("divisors", i + 1, reader[r].fan, set, {})
                ELSE Place("counts", 0, reader[r].fan, set, set)
<1>1. UNCHANGED <<chip, bits, period, count, counted, fanValue, fanValueObsolete, alone, moved>>
  BY DEF ReadDivisor
<1>2. /\ reader[r] \in ReaderStates /\ reader[r].at = "divisors" /\ i \in 0..4 /\ reader[r].fan \in Fans
      /\ reader[r].fan \in 0..5 /\ set \in SUBSET (0..39) /\ 0 \in Fans
  <2>1. reader[r] \in ReaderStates /\ PlaceOK(reader[r]) /\ reader[r].at = "divisors" /\ bits \subseteq 0..39
    BY DEF TachInv, TachTypes, ReadDivisor
  <2>2. i \in 0..4 /\ reader[r].fan \in Fans /\ reader[r].fan \in 0..5 /\ set \in SUBSET (0..39)
    BY <2>1 DEF PlaceOK, ReaderStates
  <2>3. 0 \in Fans
    BY <2>2, WinbondChips DEF TachInv, TachTypes, Fans
  <2> QED BY <2>1, <2>2, <2>3
<1>3. /\ s \in ReaderStates /\ s.bits = set /\ s.fan = reader[r].fan
      /\ i < 4 => s.at = "divisors" /\ s.i = i + 1 /\ s.i \in 0..4
      /\ ~(i < 4) => s.at = "counts" /\ s.i = 0 /\ s.new = set
  <2> HIDE DEF set
  <2>1. CASE i < 4
    <3>1. s = Place("divisors", i + 1, reader[r].fan, set, {}) /\ i + 1 \in 0..4 /\ i + 1 \in 0..5
      BY <1>2, <2>1
    <3> HIDE DEF s
    <3> QED BY <1>2, <2>1, <3>1 DEF Place, ReaderStates
  <2>2. CASE ~(i < 4)
    <3>1. s = Place("counts", 0, reader[r].fan, set, set)
      BY <2>2
    <3> HIDE DEF s
    <3> QED BY <1>2, <2>2, <3>1 DEF Place, ReaderStates
  <2> QED BY <2>1, <2>2
<1>4. TachTypes' /\ reader'[r] = s /\ (\A q \in Readers : q # r => reader'[q] = reader[q]) /\ Readers' = Readers
  <2>1. reader' = [reader EXCEPT ![r] = s]
    BY DEF ReadDivisor
  <2> HIDE DEF s
  <2>2. PlaceOK(s)
    BY <1>2, <1>3 DEF PlaceOK
  <2>3. bits' \subseteq 0..39 /\ fanValue' \in [0..4 -> [count : Nat, offset : 0..7]] /\ alone' \in BOOLEAN
        /\ moved' \in [0..4 -> {-1, 0, 1}]
    BY <1>1 DEF TachInv, TachTypes
  <2> QED BY <1>1, <1>3, <2>1, <2>2, <2>3, ReaderSteps
<1> HIDE DEF s
<1>5. ASSUME alone, ~chip.nuvoton PROVE CopyOf(r)'
  <2>1. reader[r].bits = {b \in bits : b >= 40 - 8 * i} /\ bits \subseteq 0..39
    BY <1>2, <1>5 DEF TachInv, TachTypes, Lonely, CopyOf
  <2>2. InRegister(i) = (32 - 8 * i)..(39 - 8 * i)
    BY <1>2 DEF InRegister
  <2>3. set = {b \in bits : b >= 32 - 8 * i}
    <3>1. \A b \in bits : b \in set <=> b >= 32 - 8 * i
      <4> SUFFICES ASSUME NEW b \in bits PROVE b \in set <=> b >= 32 - 8 * i
        OBVIOUS
      <4>1. b \in 0..39 /\ (b \in reader[r].bits <=> b >= 40 - 8 * i)
        BY <2>1
      <4>2. b \in InRegister(i) <=> b >= 32 - 8 * i /\ b <= 39 - 8 * i
        BY <1>2, <2>2, <4>1
      <4> QED BY <1>2, <4>1, <4>2
    <3>2. set \subseteq bits
      BY <2>1
    <3> QED BY <3>1, <3>2
  <2>4. CASE i < 4
    <3>1. 40 - 8 * (i + 1) = 32 - 8 * i
      BY <1>2
    <3> QED BY <1>1, <1>3, <1>4, <2>3, <2>4, <3>1 DEF CopyOf
  <2>5. CASE ~(i < 4)
    <3>1. set = bits
      <4>1. i = 4 /\ \A b \in 0..39 : b >= 32 - 8 * 4
        BY <1>2, <2>5
      <4> QED BY <2>1, <2>3, <4>1
    <3> QED BY <1>1, <1>3, <1>4, <2>5, <3>1 DEF CopyOf
  <2> QED BY <2>4, <2>5
<1>6. Lonely'
  BY <1>1, <1>2, <1>4, <1>5, StaysLonely DEF Refreshing
<1>7. ASSUME ~chip.nuvoton PROVE MovesFit'
  <2>1. CASE ~alone
    <3>1. \A g \in 0..4 : moved'[g] = 0
      BY <1>1, <1>7, <2>1 DEF TachInv, MovesFit
    <3> QED BY <3>1 DEF MovesFit, Fits
  <2>2. CASE alone
    <3>1. \A q \in Readers : ~Choosing(q)
      BY <1>2, <2>2, OthersRest DEF Choosing, Refreshing
    <3>2. \A g \in 0..4 : Fits(g, Offset(g, bits))
      BY <1>7, <3>1 DEF TachInv, MovesFit
    <3>3. \A q \in Readers : Choosing(q)' => q = r
      BY <1>4, <3>1 DEF Choosing
    <3>4. Choosing(r)' => s.new = bits
      BY <1>1, <1>2, <1>3, <1>4, <1>5, <1>7, <2>2 DEF Choosing, CopyOf
    <3> QED BY <1>1, <1>4, <2>2, <3>2, <3>3, <3>4 DEF MovesFit, Fits
  <2> QED BY <2>1, <2>2
<1> QED BY <1>1, <1>4, <1>6, <1>7 DEF TachInv

(***************************************************************************)
(* A count is read: which fan it is of and what is known of its divisor.   *)
(***************************************************************************)
LEMMA CountRead ==
  ASSUME TachInv, NEW r \in Readers, ReadCount(r), NEW f, f = reader[r].i,
         NEW to, to = Moved(count[f], Offset(f, reader[r].bits))
  PROVE  /\ f \in 0..4 /\ f \in Fans /\ to \in 0..7 /\ count[f] \in 0..255 /\ period[f] \in Nat
         /\ reader[r] \in ReaderStates /\ reader[r].fan \in Fans /\ Choosing(r) /\ Refreshing(r) /\ ~chip.nuvoton
         /\ alone => reader[r].bits = bits /\ \A g \in f..4 : Offset(g, reader[r].new) = Offset(g, bits)
         /\ count[f] = Counts(f) => count[f] = Shown(period[f], Offset(f, bits))
<1>1. reader[r] \in ReaderStates /\ PlaceOK(reader[r]) /\ reader[r].at = "counts" /\ ~chip.nuvoton
  BY DEF ReadCount, TachInv, TachTypes
<1>2. f \in Fans /\ reader[r].fan \in Fans
  BY <1>1 DEF PlaceOK
<1>3. f \in 0..4
  BY <1>1, <1>2, FanIs DEF TachInv
<1>4. count[f] \in 0..255 /\ period[f] \in Nat
  BY <1>3 DEF TachInv, TachTypes
<1>5. to \in 0..7
  BY <1>4, OffsetIs, MovedIs
<1>6. alone => CopyOf(r)
  BY <1>1 DEF TachInv, Lonely
<1>7. alone => reader[r].bits = bits /\ \A g \in f..4 : Offset(g, reader[r].new) = Offset(g, bits)
  BY <1>1, <1>6 DEF CopyOf
<1>8. Counts(f) = Shown(period[f], Offset(f, bits))
  BY <1>3, CountsIs DEF TachInv
<1>9. Choosing(r) /\ Refreshing(r)
  BY <1>1 DEF Choosing, Refreshing
<1> QED BY <1>1, <1>2, <1>3, <1>4, <1>5, <1>7, <1>8, <1>9

(***************************************************************************)
(* A count is read, and the divisor chosen: by MoveFits the choice fits    *)
(* the fan if the count was true.                                          *)
(***************************************************************************)
LEMMA ReadCountStep ==
  ASSUME TachInv, NEW r \in Readers, ReadCount(r)
  PROVE  TachInv'
<1> DEFINE f == reader[r].i
           offset == Offset(f, reader[r].bits)
           to == Moved(count[f], offset)
           new == (reader[r].new \ AllBits(f)) \union OffsetBits(f, to)
           s == Place(IF Done(r) THEN "write" ELSE "counts", IF Done(r) THEN 4 ELSE f + 1, reader[r].fan,
                      reader[r].bits, new)
<1>1. /\ UNCHANGED <<chip, bits, period, count, counted, alone>> /\ reader' = [reader EXCEPT ![r] = s]
      /\ fanValue' = [fanValue EXCEPT ![f] = Speed(count[f], offset)]
      /\ moved' = [moved EXCEPT ![f] = IF alone /\ count[f] = Counts(f) THEN to - offset ELSE 0]
  BY DEF ReadCount
<1>2. /\ f \in 0..4 /\ f \in Fans /\ to \in 0..7 /\ count[f] \in 0..255 /\ period[f] \in Nat
      /\ reader[r] \in ReaderStates /\ reader[r].fan \in Fans /\ Choosing(r) /\ Refreshing(r) /\ ~chip.nuvoton
      /\ alone => reader[r].bits = bits /\ \A g \in f..4 : Offset(g, reader[r].new) = Offset(g, bits)
      /\ count[f] = Counts(f) => count[f] = Shown(period[f], Offset(f, bits))
  BY CountRead
<1>3. offset \in 0..7 /\ to - offset \in {-1, 0, 1}
  BY <1>2, OffsetIs, MovedIs
<1>4. new \in SUBSET (0..39) /\ reader[r].bits \in SUBSET (0..39) /\ reader[r].fan \in 0..5
  BY <1>2, AllBitsAre, FanIs DEF OffsetBits, ReaderStates, TachInv
<1>5. Done(r) <=> f = chip.fanLimit - 1
  BY DEF Done
<1> HIDE DEF new
<1>6. /\ s \in ReaderStates /\ s.bits = reader[r].bits /\ s.new = new /\ s.fan = reader[r].fan
      /\ s.at \in {"write", "counts"}
      /\ Done(r) => s.at = "write" /\ s.i = 4
      /\ ~Done(r) => s.at = "counts" /\ s.i = f + 1
  <2>1. CASE Done(r)
    <3>1. s = Place("write", 4, reader[r].fan, reader[r].bits, new)
      BY <2>1
    <3> HIDE DEF s
    <3> QED BY <1>4, <2>1, <3>1 DEF Place, ReaderStates
  <2>2. CASE ~Done(r)
    <3>1. s = Place("counts", f + 1, reader[r].fan, reader[r].bits, new) /\ f + 1 \in 0..5
      BY <1>2, <2>2
    <3> HIDE DEF s
    <3> QED BY <1>4, <2>2, <3>1 DEF Place, ReaderStates
  <2> QED BY <2>1, <2>2
<1> HIDE DEF s
<1>7. PlaceOK(s)
  <2>1. ~Done(r) => f + 1 \in Fans
    BY <1>2, <1>5, WinbondChips DEF Fans, TachInv, TachTypes
  <2> QED BY <1>2, <1>6, <2>1 DEF PlaceOK
<1>8. TachTypes' /\ reader'[r] = s /\ (\A q \in Readers : q # r => reader'[q] = reader[q]) /\ Readers' = Readers
  <2>1. Speed(count[f], offset) \in [count : Nat, offset : 0..7]
    BY <1>2, <1>3 DEF Speed, NoSpeed
  <2>2. fanValue' \in [0..4 -> [count : Nat, offset : 0..7]]
    BY <1>1, <2>1 DEF TachInv, TachTypes
  <2>3. moved' \in [0..4 -> {-1, 0, 1}]
    BY <1>1, <1>3 DEF TachInv, TachTypes
  <2>4. bits' \subseteq 0..39 /\ alone' \in BOOLEAN
    BY <1>1 DEF TachInv, TachTypes
  <2> QED BY <1>1, <1>6, <1>7, <2>2, <2>3, <2>4, ReaderSteps
<1>9. \A g \in 0..4 : g # f => Offset(g, new) = Offset(g, reader[r].new)
  BY <1>2, OthersKept DEF new
<1>10. ASSUME alone PROVE CopyOf(r)'
  <2>1. reader'[r].bits = bits /\ bits \subseteq 0..39 /\ new \subseteq 0..39
    BY <1>2, <1>4, <1>6, <1>8, <1>10 DEF TachInv, TachTypes
  <2>2. CASE Done(r)
    <3>1. \A b \in 0..39 : b >= 32 - 8 * 4 /\ ~(b < 32 - 8 * 4)
      OBVIOUS
    <3>2. bits = {b \in bits : b >= 32 - 8 * 4} \union {b \in new : b < 32 - 8 * 4}
      BY <2>1, <3>1
    <3> QED BY <1>1, <1>6, <1>8, <2>1, <2>2, <3>2 DEF CopyOf
  <2>3. CASE ~Done(r)
    <3>1. \A g \in (f + 1)..4 : Offset(g, new) = Offset(g, bits)
      <4> SUFFICES ASSUME NEW g \in (f + 1)..4 PROVE Offset(g, new) = Offset(g, bits)
        OBVIOUS
      <4>1. g \in 0..4 /\ g # f /\ g \in f..4
        BY <1>2
      <4> QED BY <1>2, <1>9, <1>10, <4>1
    <3> QED BY <1>1, <1>6, <1>8, <2>1, <2>3, <3>1 DEF CopyOf
  <2> QED BY <2>2, <2>3
<1>11. Lonely'
  BY <1>1, <1>2, <1>8, <1>10, StaysLonely
<1>12. \A g \in 0..4 : moved'[g] = IF g = f THEN (IF alone /\ count[f] = Counts(f) THEN to - offset ELSE 0) ELSE moved[g]
  BY <1>1 DEF TachInv, TachTypes
<1>13. MovesFit'
  <2>1. CASE ~alone
    <3>1. \A g \in 0..4 : moved'[g] = 0
      BY <1>2, <1>12, <2>1 DEF TachInv, MovesFit
    <3> QED BY <3>1 DEF MovesFit, Fits
  <2>2. CASE alone
    <3>1. \A q \in Readers : Choosing(q)' => q = r
      BY <1>2, <1>8, <2>2, OthersRest DEF Choosing
    <3>2. Choosing(r)'
      BY <1>6, <1>8 DEF Choosing
    <3>3. ASSUME NEW g \in 0..4, NEW o, o = Offset(g, new) PROVE Fits(g, o)'
      <4>1. CASE g # f
        <5>1. Fits(g, o)
          BY <1>2, <1>9, <3>3, <4>1 DEF TachInv, MovesFit
        <5> QED BY <1>1, <1>12, <4>1, <5>1 DEF Fits
      <4>2. CASE g = f
        <5>1. o = to
          BY <1>2, <3>3, <4>2, OffsetMade DEF new
        <5>2. CASE count[f] = Counts(f)
          <6>1. count[f] = Shown(period[f], offset)
            BY <1>2, <2>2, <5>2
          <6>2. /\ to - offset = 1 => Shown(period[f], to) >= 96
                /\ to - offset = -1 => Shown(period[f], to) <= 192
            BY <1>2, <1>3, <6>1, MoveFits
          <6>3. moved'[f] = to - offset /\ period' = period
            BY <1>1, <1>2, <1>12, <2>2, <5>2
          <6> QED BY <4>2, <5>1, <6>2, <6>3 DEF Fits
        <5>3. CASE count[f] # Counts(f)
          BY <1>2, <1>12, <4>2, <5>3 DEF Fits
        <5> QED BY <5>2, <5>3
      <4> QED BY <4>1, <4>2
    <3>4. \A g \in 0..4 : Fits(g, Offset(g, reader[r].new))'
      BY <1>6, <1>8, <3>3
    <3> QED BY <1>1, <1>8, <2>2, <3>1, <3>2, <3>4 DEF MovesFit
  <2> QED BY <2>1, <2>2
<1> QED BY <1>1, <1>2, <1>8, <1>11, <1>13 DEF TachInv

(***************************************************************************)
(* A Nuvoton's speed is read: there is no divisor.                         *)
(***************************************************************************)
LEMMA ReadSpeedStep ==
  ASSUME TachInv, NEW r \in Readers, ReadSpeed(r)
  PROVE  TachInv'
<1> DEFINE f == reader[r].i
           s == Place(IF Done(r) THEN "last" ELSE "counts", IF Done(r) THEN 0 ELSE f + 1, reader[r].fan, {}, {})
<1>1. UNCHANGED <<chip, bits, period, count, counted, alone, moved>> /\ reader' = [reader EXCEPT ![r] = s]
  BY DEF ReadSpeed
<1>2. /\ reader[r] \in ReaderStates /\ f \in Fans /\ reader[r].fan \in Fans /\ Refreshing(r) /\ chip.nuvoton
      /\ f \in 0..5 /\ reader[r].fan \in 0..5
  <2>1. reader[r] \in ReaderStates /\ PlaceOK(reader[r]) /\ reader[r].at = "counts" /\ chip.nuvoton
    BY DEF ReadSpeed, TachInv, TachTypes
  <2>2. f \in Fans /\ reader[r].fan \in Fans /\ Refreshing(r)
    BY <2>1 DEF PlaceOK, Refreshing
  <2> QED BY <2>1, <2>2, FanIs DEF TachInv
<1>3. Done(r) <=> f = chip.fanLimit - 1
  BY DEF Done
<1>4. ~Done(r) => f + 1 \in Fans /\ f + 1 \in 0..5
  BY <1>2, <1>3, WinbondChips DEF Fans, TachInv, TachTypes
<1>5. s \in ReaderStates /\ PlaceOK(s)
  BY <1>2, <1>4 DEF Place, ReaderStates, PlaceOK
<1>6. TachTypes' /\ reader'[r] = s /\ (\A q \in Readers : q # r => reader'[q] = reader[q]) /\ Readers' = Readers
  <2>1. fanValue' \in [0..4 -> [count : Nat, offset : 0..7]]
    <3>1. CASE f < 5
      <4>1. period[f] \in Nat /\ fanValue' = [fanValue EXCEPT ![f] = [count |-> period[f], offset |-> 0]]
        BY <1>2, <3>1 DEF ReadSpeed, TachInv, TachTypes
      <4>2. [count |-> period[f], offset |-> 0] \in [count : Nat, offset : 0..7]
        BY <4>1
      <4> QED BY <4>1, <4>2 DEF TachInv, TachTypes
    <3>2. CASE ~(f < 5)
      BY <3>2 DEF ReadSpeed, TachInv, TachTypes
    <3> QED BY <3>1, <3>2
  <2>2. bits' \subseteq 0..39 /\ alone' \in BOOLEAN /\ moved' \in [0..4 -> {-1, 0, 1}]
    BY <1>1 DEF TachInv, TachTypes
  <2> HIDE DEF s
  <2> QED BY <1>1, <1>5, <2>1, <2>2, ReaderSteps
<1>7. Lonely'
  BY <1>1, <1>2, <1>6, StaysLonely
<1> QED BY <1>1, <1>2, <1>6, <1>7 DEF TachInv

(***************************************************************************)
(* A register of divisors is written if its bits are to change: above it   *)
(* the registers hold what was chosen, below it what was read.             *)
(***************************************************************************)
LEMMA WriteDivisorStep ==
  ASSUME TachInv, NEW r \in Readers, WriteDivisor(r)
  PROVE  TachInv'
<1> DEFINE i == reader[r].i
           known == reader[r].bits
           new == reader[r].new
           s == Place(IF i = 0 THEN "last" ELSE "write", IF i = 0 THEN 0 ELSE i - 1, reader[r].fan, known, new)
           old == known \intersect InRegister(i)
           put == new \intersect InRegister(i)
<1>1. /\ UNCHANGED <<chip, period, count, counted, fanValue, fanValueObsolete, alone, moved>>
      /\ reader' = [reader EXCEPT ![r] = s]
      /\ bits' = IF old # put THEN (bits \ InRegister(i)) \union put ELSE bits
  BY DEF WriteDivisor
<1>2. /\ reader[r] \in ReaderStates /\ reader[r].at = "write" /\ i \in 0..4 /\ reader[r].fan \in Fans
      /\ reader[r].fan \in 0..5 /\ known \subseteq 0..39 /\ new \subseteq 0..39 /\ bits \subseteq 0..39
  <2>1. reader[r] \in ReaderStates /\ PlaceOK(reader[r]) /\ reader[r].at = "write" /\ bits \subseteq 0..39
    BY DEF WriteDivisor, TachInv, TachTypes
  <2> QED BY <2>1 DEF PlaceOK, ReaderStates
<1>3. InRegister(i) = (32 - 8 * i)..(39 - 8 * i)
  BY <1>2 DEF InRegister
<1> HIDE DEF known, new
<1>4. /\ s \in ReaderStates /\ s.bits = known /\ s.new = new /\ s.fan = reader[r].fan
      /\ i = 0 => s.at = "last" /\ s.i = 0
      /\ i # 0 => s.at = "write" /\ s.i = i - 1 /\ s.i \in 0..4
  <2>1. CASE i = 0
    <3>1. s = Place("last", 0, reader[r].fan, known, new)
      BY <2>1
    <3> HIDE DEF s
    <3> QED BY <1>2, <2>1, <3>1 DEF Place, ReaderStates
  <2>2. CASE i # 0
    <3>1. s = Place("write", i - 1, reader[r].fan, known, new) /\ i - 1 \in 0..4 /\ i - 1 \in 0..5
      BY <1>2, <2>2
    <3> HIDE DEF s
    <3> QED BY <1>2, <2>2, <3>1 DEF Place, ReaderStates
  <2> QED BY <2>1, <2>2
<1> HIDE DEF s
<1>5. PlaceOK(s)
  BY <1>2, <1>4 DEF PlaceOK
<1>6. TachTypes' /\ reader'[r] = s /\ (\A q \in Readers : q # r => reader'[q] = reader[q]) /\ Readers' = Readers
  <2>1. bits' \subseteq 0..39
    BY <1>1, <1>2
  <2>2. fanValue' \in [0..4 -> [count : Nat, offset : 0..7]] /\ alone' \in BOOLEAN /\ moved' \in [0..4 -> {-1, 0, 1}]
    BY <1>1 DEF TachInv, TachTypes
  <2> QED BY <1>1, <1>4, <1>5, <2>1, <2>2, ReaderSteps
<1>7. ASSUME alone, ~chip.nuvoton
      PROVE  bits' = {b \in known : b >= 40 - 8 * i} \union {b \in new : b < 40 - 8 * i}
  <2>1. bits = {b \in known : b >= 32 - 8 * i} \union {b \in new : b < 32 - 8 * i}
    BY <1>2, <1>7 DEF TachInv, Lonely, CopyOf, known, new
  <2> SUFFICES ASSUME NEW b
               PROVE  b \in bits' <=> b \in {c \in known : c >= 40 - 8 * i} \union {c \in new : c < 40 - 8 * i}
    OBVIOUS
  <2>2. b \in InRegister(i) => (b \in bits' <=> b \in new)
    <3>1. b \in InRegister(i) => b >= 32 - 8 * i /\ ~(b < 32 - 8 * i)
      BY <1>2, <1>3
    <3> QED BY <1>1, <2>1, <3>1
  <2>3. b \notin InRegister(i) => (b \in bits' <=> b \in bits)
    BY <1>1
  <2>4. CASE b \in 0..39
    <3>1. b \in bits <=> (b \in known /\ b >= 32 - 8 * i) \/ (b \in new /\ b < 32 - 8 * i)
      BY <2>1
    <3>2. b \in InRegister(i) <=> b >= 32 - 8 * i /\ b < 40 - 8 * i
      BY <1>2, <2>4, BitsOfRegister
    <3> QED BY <1>2, <2>2, <2>3, <2>4, <3>1, <3>2
  <2>5. CASE b \notin 0..39
    BY <1>2, <1>6, <2>5 DEF TachTypes
  <2> QED BY <2>4, <2>5
<1>8. ASSUME alone, ~chip.nuvoton PROVE CopyOf(r)'
  <2>1. i # 0 => 32 - 8 * (i - 1) = 40 - 8 * i
    BY <1>2
  <2> QED BY <1>1, <1>4, <1>6, <1>7, <1>8, <2>1 DEF CopyOf
<1>9. Lonely'
  BY <1>1, <1>2, <1>6, <1>8, StaysLonely DEF Refreshing
<1>10. ASSUME ~chip.nuvoton PROVE MovesFit'
  <2>1. CASE ~alone
    <3>1. \A g \in 0..4 : moved'[g] = 0
      BY <1>1, <1>10, <2>1 DEF TachInv, MovesFit
    <3> QED BY <3>1 DEF MovesFit, Fits
  <2>2. CASE alone
    <3>1. \A g \in 0..4 : Fits(g, Offset(g, new))
      BY <1>2, <1>10 DEF TachInv, MovesFit, Choosing, new
    <3>2. \A q \in Readers : Choosing(q)' => q = r
      BY <1>2, <1>6, <2>2, OthersRest DEF Choosing, Refreshing
    <3>3. i = 0 => bits' = new
      <4>1. \A b \in 0..39 : ~(b >= 40 - 8 * 0) /\ b < 40 - 8 * 0
        OBVIOUS
      <4> QED BY <1>2, <1>7, <1>10, <2>2, <4>1
    <3>4. Choosing(r)' <=> i # 0
      BY <1>4, <1>6 DEF Choosing
    <3>5. ASSUME NEW g \in 0..4, NEW o, Fits(g, o) PROVE Fits(g, o)'
      BY <1>1, <3>5 DEF Fits
    <3>6. \A g \in 0..4 : Choosing(r)' => Fits(g, Offset(g, reader[r].new))'
      BY <1>4, <1>6, <3>1, <3>5
    <3>7. \A g \in 0..4 : ~Choosing(r)' => Fits(g, Offset(g, bits))'
      BY <3>1, <3>3, <3>4, <3>5
    <3> QED BY <1>1, <1>6, <2>2, <3>2, <3>6, <3>7 DEF MovesFit
  <2> QED BY <2>1, <2>2
<1> QED BY <1>1, <1>6, <1>9, <1>10 DEF TachInv

(***************************************************************************)
(* The reader has its value: the registers hold what it chose.             *)
(***************************************************************************)
LEMMA FinishStep ==
  ASSUME TachInv, NEW r \in Readers, Finish(r)
  PROVE  TachInv'
<1>1. /\ UNCHANGED <<chip, bits, period, count, counted, fanValue, moved>>
      /\ reader' = [reader EXCEPT ![r] = Resting] /\ reader[r].at = "last"
      /\ alone' \in BOOLEAN /\ (alone' => alone) /\ (alone' => \A q \in Readers : q # r => reader[q].at = "idle")
  BY DEF Finish, Others, Refreshing
<1>2. Resting \in ReaderStates /\ Resting.at = "idle" /\ PlaceOK(Resting)
  BY DEF Resting, Place, ReaderStates, PlaceOK
<1>3. TachTypes' /\ reader'[r] = Resting /\ (\A q \in Readers : q # r => reader'[q] = reader[q]) /\ Readers' = Readers
  <2>1. bits' \subseteq 0..39 /\ fanValue' \in [0..4 -> [count : Nat, offset : 0..7]] /\ moved' \in [0..4 -> {-1, 0, 1}]
    BY <1>1 DEF TachInv, TachTypes
  <2> QED BY <1>1, <1>2, <2>1, ReaderSteps
<1>4. Lonely'
  <2>1. alone' => \A q \in Readers : reader'[q].at = "idle"
    BY <1>1, <1>2, <1>3
  <2>2. alone' => OneReads'
    BY <1>3, <2>1 DEF OneReads, Refreshing
  <2>3. alone' => \A q \in Readers : CopyOf(q)'
    BY <2>1 DEF CopyOf
  <2> QED BY <1>3, <2>2, <2>3 DEF Lonely
<1>5. ASSUME ~chip.nuvoton PROVE MovesFit'
  <2>1. CASE \A g \in 0..4 : moved'[g] = 0
    BY <2>1 DEF MovesFit, Fits
  <2>2. CASE ~(\A g \in 0..4 : moved'[g] = 0)
    <3>1. alone
      BY <1>1, <1>5, <2>2 DEF TachInv, MovesFit
    <3>2. \A q \in Readers : q # r => reader[q].at = "idle"
      BY <1>1, <3>1, OthersRest DEF Refreshing
    <3>3. alone'
      BY <3>1, <3>2 DEF Finish, Others, Refreshing
    <3>4. \A q \in Readers : ~Choosing(q) /\ ~Choosing(q)'
      BY <1>1, <1>2, <1>3, <3>2 DEF Choosing
    <3>5. \A g \in 0..4 : Fits(g, Offset(g, bits))
      BY <1>5, <3>4 DEF TachInv, MovesFit
    <3> QED BY <1>1, <1>3, <3>3, <3>4, <3>5 DEF MovesFit, Fits
  <2> QED BY <2>1, <2>2
<1>6. chip.nuvoton => \A g \in 0..4 : moved'[g] = 0
  BY <1>1 DEF TachInv
<1> QED BY <1>1, <1>3, <1>4, <1>5, <1>6 DEF TachInv

(***************************************************************************)
(* TachInv is an invariant of the tachometers, for any chips, periods and  *)
(* number of readers.                                                      *)
(***************************************************************************)
LEMMA TachInvariant == W836xSpec => []TachInv
<1>1. W836xInit => TachInv
  BY TachInitOK
<1>2. TachInv /\ [W836xNext]_w836xVars => TachInv'
  <2> SUFFICES ASSUME TachInv, [W836xNext]_w836xVars PROVE TachInv'
    OBVIOUS
  <2>1. ASSUME NEW f \in Fans, Measure(f) PROVE TachInv'
    BY <2>1, MeasureStep
  <2>2. ASSUME NEW f \in Fans, NEW p \in Periods(f), Changes(f, p) PROVE TachInv'
    BY <2>2, ChangesStep
  <2>3. ASSUME NEW r \in Readers, NEW f \in Fans, Use(r, f) PROVE TachInv'
    BY <2>3, UseStep
  <2>4. ASSUME NEW r \in Readers, NEW f \in Fans, Refresh(r, f) PROVE TachInv'
    BY <2>4, RefreshStep
  <2>5. ASSUME NEW r \in Readers, Update(r) PROVE TachInv'
    BY <2>5, ReadDivisorStep, ReadCountStep, ReadSpeedStep, WriteDivisorStep, FinishStep DEF Update
  <2>6. CASE UNCHANGED w836xVars
    BY <2>6 DEF w836xVars, TachInv, TachTypes, PlaceOK, Fans, Readers, Lonely, OneReads, Refreshing, CopyOf,
                MovesFit, Choosing, Fits
  <2> QED BY <2>1, <2>2, <2>3, <2>4, <2>5, <2>6 DEF W836xNext, Hardware
<1> QED BY <1>1, <1>2, PTL DEF W836xSpec

(***************************************************************************)
(* The value of a fan and the move of its divisor change where its count   *)
(* is read; elsewhere a move is at most forgotten.                         *)
(***************************************************************************)
LEMMA OnlyReadCount ==
  ASSUME TachInv, [W836xNext]_w836xVars, NEW f \in 0..4, ~\E r \in Readers : ReadCount(r) /\ reader[r].i = f
  PROVE  (moved'[f] = moved[f] \/ moved'[f] = 0) /\ (~chip.nuvoton => fanValue'[f] = fanValue[f])
<1>1. ASSUME NEW g \in Fans, Measure(g) PROVE moved' = moved /\ fanValue' = fanValue
  BY <1>1 DEF Measure
<1>2. ASSUME NEW g \in Fans, NEW p \in Periods(g), Changes(g, p)
      PROVE  (moved'[f] = moved[f] \/ moved'[f] = 0) /\ fanValue' = fanValue
  BY <1>2 DEF Changes
<1>3. ASSUME NEW r \in Readers, NEW g \in Fans, Use(r, g) PROVE moved' = moved /\ fanValue' = fanValue
  BY <1>3 DEF Use
<1>4. ASSUME NEW r \in Readers, NEW g \in Fans, Refresh(r, g)
      PROVE  (moved'[f] = moved[f] \/ moved'[f] = 0) /\ fanValue' = fanValue
  BY <1>4 DEF Refresh
<1>5. ASSUME NEW r \in Readers, ReadDivisor(r) \/ WriteDivisor(r) \/ Finish(r) PROVE moved' = moved /\ fanValue' = fanValue
  BY <1>5 DEF ReadDivisor, WriteDivisor, Finish
<1>6. ASSUME NEW r \in Readers, ReadSpeed(r) PROVE moved' = moved /\ chip.nuvoton
  BY <1>6 DEF ReadSpeed
<1>7. ASSUME NEW r \in Readers, ReadCount(r) PROVE moved'[f] = moved[f] /\ fanValue'[f] = fanValue[f]
  <2>1. reader[r].i # f
    BY <1>7
  <2> QED BY <1>7, <2>1 DEF ReadCount, TachInv, TachTypes
<1>8. CASE UNCHANGED w836xVars
  BY <1>8 DEF w836xVars
<1> QED BY <1>1, <1>2, <1>3, <1>4, <1>5, <1>6, <1>7, <1>8 DEF W836xNext, Hardware, Update

(***************************************************************************)
(* While a reader is alone and what it reads was measured under the        *)
(* divisor that is set, a divisor is not moved back where it came from:    *)
(* updateTachometers does not hunt between two divisors, for any speed of  *)
(* a fan.                                                                  *)
(***************************************************************************)
THEOREM DivisorsStay == W836xSpec => DivisorsDoNotHunt
<1>1. ASSUME TachInv, [W836xNext]_w836xVars, NEW f \in 0..4 PROVE moved[f] = 0 \/ moved'[f] # -moved[f]
  <2>1. moved[f] \in {-1, 0, 1}
    BY <1>1 DEF TachInv, TachTypes
  <2>2. CASE ~\E r \in Readers : ReadCount(r) /\ reader[r].i = f
    BY <1>1, <2>1, <2>2, OnlyReadCount
  <2>3. CASE \E r \in Readers : ReadCount(r) /\ reader[r].i = f
    <3>1. PICK r \in Readers : ReadCount(r) /\ reader[r].i = f
      BY <2>3
    <3> DEFINE offset == Offset(f, reader[r].bits)
               to == Moved(count[f], offset)
    <3>2. /\ ~chip.nuvoton /\ Choosing(r) /\ count[f] \in 0..255
          /\ alone => reader[r].bits = bits /\ \A g \in f..4 : Offset(g, reader[r].new) = Offset(g, bits)
          /\ count[f] = Counts(f) => count[f] = Shown(period[f], Offset(f, bits))
      BY <1>1, <3>1, CountRead
    <3>3. moved'[f] = IF alone /\ count[f] = Counts(f) THEN to - offset ELSE 0
      BY <1>1, <3>1 DEF ReadCount, TachInv, TachTypes
    <3>4. /\ offset \in 0..7 /\ to \in 0..7
          /\ to - offset = 1 => count[f] > 192
          /\ to - offset = -1 => count[f] < 96
      BY <3>2, OffsetIs, MovedIs
    <3>5. CASE alone /\ count[f] = Counts(f)
      <4>1. Offset(f, reader[r].new) = offset /\ count[f] = Shown(period[f], offset)
        BY <3>2, <3>5
      <4>2. Fits(f, offset)
        BY <1>1, <3>2, <4>1 DEF TachInv, MovesFit
      <4>3. /\ moved[f] = 1 => count[f] >= 96
            /\ moved[f] = -1 => count[f] <= 192
        BY <4>1, <4>2 DEF Fits
      <4> HIDE DEF to, offset
      <4> QED BY <2>1, <3>2, <3>3, <3>4, <3>5, <4>3
    <3>6. CASE ~(alone /\ count[f] = Counts(f))
      BY <2>1, <3>3, <3>6
    <3> QED BY <3>5, <3>6
  <2> QED BY <2>2, <2>3
<1>2. TachInv /\ [W836xNext]_w836xVars => [\A f \in 0..4 : moved[f] = 0 \/ moved'[f] # -moved[f]]_w836xVars
  BY <1>1
<1> QED BY <1>2, TachInvariant, PTL DEF W836xSpec, DivisorsDoNotHunt

(***************************************************************************)
(* The periods that show as a number of ticks.                             *)
(***************************************************************************)
LEMMA PeriodIs ==
  ASSUME NEW p \in Nat, NEW o \in 0..7
  PROVE  /\ p \in (Ticks(p, o) * Unit(o))..((Ticks(p, o) + 1) * Unit(o) - 1)
         /\ Ticks(p, o) >= 255 => p >= 255 * Unit(o)
BY Units DEF Ticks

\* SpeedsAreTrue of one fan.
SpeedIsTrue(f) ==
  (fanValue'[f] # fanValue[f] /\ alone /\ count[f] = Counts(f) /\ counted[f] = Offset(f, bits)) =>
    LET unit == Unit(fanValue'[f].offset)
    IN  IF fanValue'[f] = NoSpeed THEN period[f] >= 255 * Unit(Offset(f, bits))
        ELSE period[f] \in (fanValue'[f].count * unit)..((fanValue'[f].count + 1) * unit - 1)

(***************************************************************************)
(* A speed that updateTachometers stores, while its reader is alone and    *)
(* the count was measured under the divisor that is set, is that of the    *)
(* fan's period to within a tick, and none is stored only if the period is *)
(* beyond the counter. So it is for any periods, chips and readers.        *)
(***************************************************************************)
THEOREM SpeedsStayTrue == W836xSpec => SpeedsAreTrue
<1>1. ASSUME TachInv, [W836xNext]_w836xVars, NEW f \in Divided PROVE SpeedIsTrue(f)
  <2>1. f \in 0..4 /\ ~chip.nuvoton
    BY <1>1, FanIs DEF Divided, TachInv
  <2> SUFFICES ASSUME fanValue'[f] # fanValue[f], alone, count[f] = Counts(f)
               PROVE  LET unit == Unit(fanValue'[f].offset)
                      IN  IF fanValue'[f] = NoSpeed THEN period[f] >= 255 * Unit(Offset(f, bits))
                          ELSE period[f] \in (fanValue'[f].count * unit)..((fanValue'[f].count + 1) * unit - 1)
    BY DEF SpeedIsTrue
  <2>2. PICK r \in Readers : ReadCount(r) /\ reader[r].i = f
    BY <1>1, <2>1, OnlyReadCount
  <2> DEFINE o == Offset(f, bits)
             n == count[f]
  <2>3. reader[r].bits = bits /\ n = Shown(period[f], o) /\ period[f] \in Nat
    BY <1>1, <2>2, CountRead
  <2>4. fanValue'[f] = Speed(n, o)
    BY <1>1, <2>1, <2>2, <2>3 DEF ReadCount, TachInv, TachTypes
  <2>5. o \in 0..7
    BY OffsetIs
  <2> HIDE DEF o
  <2>6. /\ Ticks(period[f], o) \in Nat
        /\ n = IF 255 <= Ticks(period[f], o) THEN 255 ELSE Ticks(period[f], o)
    BY <2>3, <2>5, ShownIs
  <2>7. /\ period[f] \in (Ticks(period[f], o) * Unit(o))..((Ticks(period[f], o) + 1) * Unit(o) - 1)
        /\ Ticks(period[f], o) >= 255 => period[f] >= 255 * Unit(o)
    BY <2>3, <2>5, PeriodIs
  <2> HIDE DEF n
  <2>8. CASE n < 255
    <3>1. n = Ticks(period[f], o)
      BY <2>6, <2>8
    <3>2. fanValue'[f].count = n /\ fanValue'[f].offset = o /\ fanValue'[f] # NoSpeed
      BY <2>4, <2>6, <2>8 DEF Speed, NoSpeed
    <3> QED BY <2>7, <3>1, <3>2
  <2>9. CASE ~(n < 255)
    <3>1. Ticks(period[f], o) >= 255 /\ fanValue'[f] = NoSpeed
      BY <2>4, <2>6, <2>9 DEF Speed
    <3> QED BY <2>7, <3>1 DEF o
  <2> QED BY <2>8, <2>9
<1>2. TachInv /\ [W836xNext]_w836xVars => [\A f \in Divided : SpeedIsTrue(f)]_w836xVars
  BY <1>1
<1>3. SpeedsAreTrue <=> [][\A f \in Divided : SpeedIsTrue(f)]_w836xVars
  BY DEF SpeedsAreTrue, SpeedIsTrue
<1> QED BY <1>2, <1>3, TachInvariant, PTL DEF W836xSpec
=============================================================================
