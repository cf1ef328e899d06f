------------------------- MODULE FakeSMCDeviceProofs -------------------------
(***************************************************************************)
(* Proofs about the SMC ports: whatever a host writes and reads, in any    *)
(* order and with plug-ins at work in between, every index stays within    *)
(* its buffer and every NVRAM variable names a key.                        *)
(***************************************************************************)
EXTENDS FakeSMCDevice, SMCKeysProofs

NvramTypeOK == DOMAIN nvram \subseteq Name \X Name /\ \A d \in DOMAIN nvram : nvram[d] \in Value

\* The registers and buffers behind the ports.
PortsTypeOK ==
  /\ cmd \in Cmd
  /\ status \in Status
  /\ status_1e \in Error
  /\ key \in Name
  /\ read_pos \in 0..(PosMod - 1)
  /\ data_len \in Byte
  /\ data_pos \in 0..(IF cmd = "INDEX" THEN NameLen ELSE data_len)
  /\ value \in [1..ByteMax -> Byte]
  /\ key_index \in Nat
  /\ key_info \in [1..InfoLen -> Byte]

LEMMA TypeParts == TypeOK <=> KeysTypeOK /\ PortsTypeOK /\ NvramTypeOK
  BY DEF TypeOK, KeysTypeOK, PortsTypeOK, NvramTypeOK

DeviceInv == TypeOK /\ NvramNamesAKey

-----------------------------------------------------------------------------
(* Sizes *)

LEMMA DeviceSizes ==
  /\ NameLen \in Nat \ {0} /\ ByteMax \in Nat \ {0}
  /\ InfoLen = NameLen + 2 /\ InfoLen \in 1..ByteMax
  /\ NameLen \in 0..(PosMod - 1) /\ PosMod \in Nat \ {0}
  /\ 0 \in Byte /\ InfoLen \in Byte
  /\ 1..NameLen \subseteq 1..InfoLen
  BY SizesAssumption, PortAssumption DEF InfoLen, Byte

LEMMA PosAfterIsPosition ==
  ASSUME read_pos \in 0..(PosMod - 1)
  PROVE  /\ PosAfter \in 0..(PosMod - 1)
         /\ read_pos + 1 < PosMod => PosAfter = read_pos + 1
<1>1. CASE read_pos + 1 < PosMod
  <2>1. (read_pos + 1) % PosMod = read_pos + 1
    BY <1>1, DeviceSizes
  <2>2. PosAfter = read_pos + 1
    BY <2>1 DEF PosAfter
  <2>3. read_pos + 1 \in 0..(PosMod - 1)
    BY <1>1, DeviceSizes
  <2> QED BY <2>2, <2>3
<1>2. CASE ~(read_pos + 1 < PosMod)
  <2>1. read_pos + 1 = PosMod
    BY <1>2, DeviceSizes
  <2>2. PosMod % PosMod = 0
    BY DeviceSizes
  <2>3. PosAfter = 0
    BY <2>1, <2>2 DEF PosAfter
  <2> QED BY <1>2, <2>3, DeviceSizes
<1> QED BY <1>1, <1>2

(***************************************************************************)
(* The counters behind the ports are numbers.                              *)
(***************************************************************************)
LEMMA PortNumbers ==
  ASSUME PortsTypeOK
  PROVE  /\ read_pos \in Nat /\ data_pos \in Nat /\ data_len \in Nat
         /\ data_len <= ByteMax /\ data_len \in Byte
         /\ cmd # "INDEX" => data_pos <= data_len
  BY DeviceSizes DEF PortsTypeOK, Byte

LEMMA ZerosAreBytes == \A n \in Nat : Zeros(n) \in [1..n -> Byte]
  BY DeviceSizes DEF Zeros

(***************************************************************************)
(* The answer to a request for a type fills key_info.                      *)
(***************************************************************************)
LEMMA InfoIsBytes ==
  ASSUME NEW k \in Key
  PROVE  <<Len(k.value)>> \o k.type \o <<0>> \in [1..InfoLen -> Byte]
<1>1. Len(k.value) \in Byte /\ k.type \in [1..NameLen -> Byte]
  BY DEF Key, Value, Name, Byte
<1>2. k.type \in Seq(Byte) /\ Len(k.type) = NameLen
  BY <1>1, DeviceSizes
<1>3. <<Len(k.value)>> \in Seq(Byte) /\ Len(<<Len(k.value)>>) = 1 /\ <<0>> \in Seq(Byte) /\ Len(<<0>>) = 1
  BY <1>1, DeviceSizes
<1>4. /\ <<Len(k.value)>> \o k.type \in Seq(Byte)
      /\ Len(<<Len(k.value)>> \o k.type) = 1 + NameLen
  BY <1>2, <1>3, DeviceSizes, ConcatProperties
<1>5. /\ <<Len(k.value)>> \o k.type \o <<0>> \in Seq(Byte)
      /\ Len(<<Len(k.value)>> \o k.type \o <<0>>) = InfoLen
  BY <1>3, <1>4, DeviceSizes, ConcatProperties
<1> DEFINE s == <<Len(k.value)>> \o k.type \o <<0>>
<1> HIDE DEF s
<1>6. s \in Seq(Byte) /\ Len(s) = InfoLen
  BY <1>5 DEF s
<1>7. s \in [1..InfoLen -> Byte]
  BY <1>6, LenProperties, ElementOfSeq
<1> QED BY <1>7 DEF s

-----------------------------------------------------------------------------
(* Keys and NVRAM *)

(***************************************************************************)
(* Keys that keep their places keep the NVRAM variables named after them.  *)
(***************************************************************************)
LEMMA VariablesKeepTheirKeys ==
  ASSUME keys \in Seq(Key), Extends(keys, keys'), NvramNamesAKey, nvram' = nvram
  PROVE  NvramNamesAKey'
<1>1. DOMAIN keys = 1..Len(keys) /\ DOMAIN keys' = 1..Len(keys') /\ 1..Len(keys) \subseteq 1..Len(keys')
  BY DEF Extends
<1> QED BY <1>1 DEF NvramNamesAKey, Extends

LEMMA KeysStayTyped ==
  ASSUME KeysTypeOK, Extends(keys, keys'), values' = values
  PROVE  KeysTypeOK'
  BY DEF KeysTypeOK, Extends

(***************************************************************************)
(* The value of a key goes to the buffer.                                  *)
(***************************************************************************)
LEMMA FillDataStep ==
  ASSUME TypeOK, FillData
  PROVE  /\ Extends(keys, keys')
         /\ value' \in [1..ByteMax -> Byte]
         /\ status_1e' \in Error
<1>1. KeysTypeOK /\ PortsTypeOK /\ keys \in Seq(Key)
  BY TypeParts DEF KeysTypeOK
<1>2. status_1e' \in Error
  BY <1>1 DEF FillData, Report, PortsTypeOK, Error
<1>3. CASE ~HasKey(key)
  BY <1>1, <1>2, <1>3 DEF FillData, Extends, PortsTypeOK
<1>4. CASE HasKey(key)
  <2> DEFINE i == IndexOf(key)
  <2>1. i \in DOMAIN keys /\ keys[i] \in Key
    BY <1>1, <1>4, IndexOfFound, ElementOfSeq
  <2>2. PICK v \in Readings(keys[i]) :
          /\ keys' = [keys EXCEPT ![i].value = v]
          /\ value' = [p \in DOMAIN value |-> IF p <= Len(v) THEN v[p] ELSE value[p]]
    BY <1>4 DEF FillData
  <2> HIDE DEF i
  <2>3. v \in Value
    BY <2>1, ReadingsAreValues
  <2>4. Extends(keys, keys')
    BY <1>1, <2>1, <2>2, <2>3, NewValueIsKey DEF Extends
  <2>5. value \in [1..ByteMax -> Byte]
    BY <1>1 DEF PortsTypeOK
  <2>6. \A p \in 1..ByteMax : p <= Len(v) => v[p] \in Byte
    BY <2>3, ElementOfSeq DEF Value
  <2>7. value' \in [1..ByteMax -> Byte]
    BY <2>2, <2>5, <2>6
  <2> QED BY <1>2, <2>4, <2>7
<1> QED BY <1>3, <1>4

(***************************************************************************)
(* A key of the store is saved under its name and type.                    *)
(***************************************************************************)
LEMMA SaveStep ==
  ASSUME TypeOK, NvramNamesAKey, NEW ks \in Seq(Key), Extends(keys, ks), NEW i \in DOMAIN ks,
         SaveKeyToNVRAM(ks, i)
  PROVE  Extends(keys, keys') /\ NvramTypeOK' /\ NvramNamesAKey'
<1>1. KeysTypeOK /\ NvramTypeOK /\ keys \in Seq(Key)
  BY TypeParts DEF KeysTypeOK
<1>2. CASE ~HasNvram
  <2>1. keys' = ks /\ nvram' = nvram
    BY <1>2 DEF SaveKeyToNVRAM
  <2>2. Extends(keys, keys')
    BY <2>1
  <2> QED BY <1>1, <2>1, <2>2, VariablesKeepTheirKeys DEF NvramTypeOK
<1>3. CASE HasNvram
  <2> DEFINE id == NvramName(ks[i])
  <2>1. PICK v \in Readings(ks[i]) :
          /\ keys' = [ks EXCEPT ![i].value = v]
          /\ nvram' = [d \in DOMAIN nvram \cup {id} |-> IF d = id THEN v ELSE nvram[d]]
    BY <1>3 DEF SaveKeyToNVRAM
  <2>2. ks[i] \in Key /\ v \in Value
    <3>1. ks[i] \in Key
      BY ElementOfSeq
    <3> QED BY <3>1, ReadingsAreValues
  <2>3. id = <<ks[i].name, ks[i].type>> /\ id \in Name \X Name
    BY <2>2 DEF NvramName, Key
  <2> HIDE DEF id
  <2>4. /\ keys' \in Seq(Key) /\ Len(keys') = Len(ks)
        /\ \A j \in 1..Len(ks) : keys'[j].name = ks[j].name /\ keys'[j].type = ks[j].type
    BY <2>1, <2>2, NewValueIsKey
  <2>5. Extends(keys, keys')
    <3>1. Len(keys) <= Len(ks) /\ Len(keys) \in Nat /\ Len(ks) \in Nat
      BY <1>1 DEF Extends
    <3> QED BY <2>4, <3>1 DEF Extends
  <2>6. NvramTypeOK'
    BY <1>1, <2>1, <2>2, <2>3 DEF NvramTypeOK
  <2>7. ASSUME NEW d \in DOMAIN nvram'
        PROVE  \E j \in DOMAIN keys' : d = <<keys'[j].name, keys'[j].type>>
    <3>1. CASE d = id
      <4>1. i \in DOMAIN keys' /\ keys'[i].name = ks[i].name /\ keys'[i].type = ks[i].type
        BY <2>4
      <4> QED BY <2>3, <3>1, <4>1
    <3>2. CASE d # id
      <4>1. PICK j \in DOMAIN keys : d = <<keys[j].name, keys[j].type>>
        BY <2>1, <2>7, <3>2 DEF NvramNamesAKey
      <4>2. j \in 1..Len(keys) /\ DOMAIN keys' = 1..Len(keys') /\ 1..Len(keys) \subseteq 1..Len(keys')
        BY <1>1, <2>5, <4>1 DEF Extends
      <4>3. j \in DOMAIN keys' /\ keys'[j].name = keys[j].name /\ keys'[j].type = keys[j].type
        BY <2>5, <4>2 DEF Extends
      <4> QED BY <4>1, <4>3
    <3> QED BY <3>1, <3>2
  <2> QED BY <2>5, <2>6, <2>7 DEF NvramNamesAKey
<1> QED BY <1>2, <1>3

(***************************************************************************)
(* A write that is complete stores a value, in a key or in a new one.      *)
(***************************************************************************)
LEMMA StoreValueStep ==
  ASSUME TypeOK, NvramNamesAKey, data_len \in 1..ByteMax, NEW buf \in [1..ByteMax -> Byte],
         StoreValue(buf)
  PROVE  /\ Extends(keys, keys') /\ NvramTypeOK' /\ NvramNamesAKey'
         /\ status' \in Status /\ value' \in [1..ByteMax -> Byte]
<1> DEFINE v == [p \in 1..data_len |-> buf[p]]
<1>1. KeysTypeOK /\ PortsTypeOK /\ NvramTypeOK /\ keys \in Seq(Key) /\ Len(keys) > 0 /\ key \in Name
  BY TypeParts DEF KeysTypeOK, PortsTypeOK
<1>2. v \in Value
  <2>1. v \in [1..data_len -> Byte] /\ data_len \in Nat
    BY DeviceSizes
  <2>2. v \in Seq(Byte) /\ Len(v) = data_len
    BY <2>1
  <2> QED BY <2>2 DEF Value
<1>3. status' \in Status /\ value' \in [1..ByteMax -> Byte]
  BY DeviceSizes, ZerosAreBytes DEF StoreValue, Status, ClearedValue
<1>4. CASE HasKey(key)
  <2>1. SaveKeyToNVRAM([keys EXCEPT ![IndexOf(key)].value = v], IndexOf(key))
    BY <1>4 DEF StoreValue
  <2> HIDE DEF v
  <2>2. IndexOf(key) \in DOMAIN keys
    BY <1>1, <1>4, IndexOfFound
  <2>3. /\ [keys EXCEPT ![IndexOf(key)].value = v] \in Seq(Key)
        /\ Extends(keys, [keys EXCEPT ![IndexOf(key)].value = v])
        /\ IndexOf(key) \in DOMAIN [keys EXCEPT ![IndexOf(key)].value = v]
    BY <1>1, <1>2, <2>2, NewValueIsKey DEF Extends
  <2> QED BY <1>3, <2>1, <2>3, SaveStep
<1>5. CASE ~HasKey(key) /\ Named(key)
  <2> DEFINE k == NewKey(key, DefaultType[data_len], v, NoHandler)
  <2>1. SaveKeyToNVRAM(PushKey(k), Len(keys) + 1)
    BY <1>5 DEF StoreValue
  <2> HIDE DEF v
  <2>2. k \in Key
    BY <1>1, <1>2, NewKeyIsKey, NamesAssumption
  <2> HIDE DEF k
  <2>3. PushKey(k) \in Seq(Key) /\ Extends(keys, PushKey(k)) /\ Len(keys) + 1 \in DOMAIN PushKey(k)
    BY <1>1, <2>2, PushKeyPushes DEF Extends
  <2> QED BY <1>3, <2>1, <2>3, SaveStep
<1>6. CASE ~HasKey(key) /\ ~Named(key)
  <2>1. keys' = keys /\ nvram' = nvram
    BY <1>6 DEF StoreValue
  <2>2. Extends(keys, keys')
    BY <1>1, <2>1 DEF Extends
  <2> QED BY <1>1, <1>3, <2>1, <2>2, VariablesKeepTheirKeys DEF NvramTypeOK
<1> QED BY <1>4, <1>5, <1>6

-----------------------------------------------------------------------------
(* Port accesses *)

\* The keys keep their places and NVRAM its variables' keys.
StoreKeeps == KeysTypeOK' /\ Extends(keys, keys') /\ NvramTypeOK' /\ NvramNamesAKey'

LEMMA StoreUnchanged ==
  ASSUME DeviceInv, UNCHANGED <<keyVars, nvram>>
  PROVE  StoreKeeps
<1>1. KeysTypeOK /\ NvramTypeOK /\ NvramNamesAKey /\ keys \in Seq(Key)
  BY TypeParts DEF DeviceInv, KeysTypeOK
<1>2. keys' = keys /\ values' = values /\ nvram' = nvram
  BY DEF keyVars
<1>3. Extends(keys, keys')
  BY <1>1, <1>2 DEF Extends
<1> QED BY <1>1, <1>2, <1>3, KeysStayTyped, VariablesKeepTheirKeys DEF StoreKeeps, NvramTypeOK

LEMMA CmdWriteStep ==
  ASSUME DeviceInv, NEW c \in Cmd, CmdWrite(c)
  PROVE  StoreKeeps /\ PortsTypeOK'
<1>1. PortsTypeOK
  BY TypeParts DEF DeviceInv
<1>2. PortsTypeOK'
  BY <1>1, DeviceSizes DEF CmdWrite, PortsTypeOK, bufVars, CmdStatus, Status, Byte
<1> QED BY <1>2, StoreUnchanged DEF CmdWrite

LEMMA ReadDataWriteStep ==
  ASSUME DeviceInv, NEW val \in Byte, ReadDataWrite(val)
  PROVE  StoreKeeps /\ PortsTypeOK'
<1>1. /\ KeysTypeOK /\ PortsTypeOK /\ NvramTypeOK /\ NvramNamesAKey /\ keys \in Seq(Key)
      /\ cmd = "READ" /\ UNCHANGED <<values, nvram, cmd, key_index, key_info>>
      /\ read_pos' \in 0..(PosMod - 1) /\ read_pos \in Nat /\ data_len \in Nat
  BY TypeParts, PosAfterIsPosition, PortNumbers
     DEF DeviceInv, KeysTypeOK, PortsTypeOK, ReadDataWrite
<1>2. CASE read_pos < NameLen
  <2>1. KeyByte(val) /\ UNCHANGED <<keys, status_1e, data_len, data_pos, value>>
    BY <1>1, <1>2, DeviceSizes DEF ReadDataWrite
  <2>2. read_pos + 1 \in 1..NameLen
    BY <1>1, <1>2, DeviceSizes
  <2>3. PortsTypeOK' /\ UNCHANGED <<keyVars, nvram>>
    BY <1>1, <2>1, <2>2 DEF KeyByte, PortsTypeOK, Status, Name, keyVars
  <2> QED BY <2>3, StoreUnchanged
<1>3. CASE read_pos = NameLen
  <2>1. FillData /\ data_len' = val /\ data_pos' = 0 /\ status' = DataReady /\ key' = key
    BY <1>3, DeviceSizes DEF ReadDataWrite
  <2>2. Extends(keys, keys') /\ value' \in [1..ByteMax -> Byte] /\ status_1e' \in Error
    BY <2>1, FillDataStep DEF DeviceInv
  <2>3. 0 \in 0..val
    BY DeviceSizes DEF Byte
  <2>4. PortsTypeOK'
    BY <1>1, <2>1, <2>2, <2>3 DEF PortsTypeOK, Status
  <2> QED
    BY <1>1, <2>2, <2>4, KeysStayTyped, VariablesKeepTheirKeys DEF StoreKeeps, NvramTypeOK
<1>4. CASE read_pos > NameLen
  <2>1. UNCHANGED <<keys, status_1e, status, key, data_len, data_pos, value>>
    BY <1>1, <1>4, DeviceSizes DEF ReadDataWrite
  <2>2. PortsTypeOK' /\ UNCHANGED <<keyVars, nvram>>
    BY <1>1, <2>1 DEF PortsTypeOK, keyVars
  <2> QED BY <2>2, StoreUnchanged
<1> QED BY <1>1, <1>2, <1>3, <1>4, DeviceSizes

LEMMA WriteDataWriteStep ==
  ASSUME DeviceInv, NEW val \in Byte, WriteDataWrite(val)
  PROVE  StoreKeeps /\ PortsTypeOK'
<1>1. /\ KeysTypeOK /\ PortsTypeOK /\ NvramTypeOK /\ NvramNamesAKey /\ keys \in Seq(Key)
      /\ cmd = "WRITE" /\ UNCHANGED <<values, status_1e, cmd, key_index, key_info>>
      /\ read_pos' \in 0..(PosMod - 1)
      /\ read_pos \in Nat /\ data_len \in 0..ByteMax /\ data_pos \in 0..data_len
  BY TypeParts, PosAfterIsPosition
     DEF DeviceInv, KeysTypeOK, PortsTypeOK, WriteDataWrite, Byte
<1>2. CASE read_pos < NameLen
  <2>1. KeyByte(val) /\ UNCHANGED <<keys, nvram, data_len, data_pos, value>>
    BY <1>1, <1>2, DeviceSizes DEF WriteDataWrite
  <2>2. read_pos + 1 \in 1..NameLen
    BY <1>1, <1>2, DeviceSizes
  <2>3. PortsTypeOK' /\ UNCHANGED <<keyVars, nvram>>
    BY <1>1, <2>1, <2>2 DEF KeyByte, PortsTypeOK, Status, Name, keyVars
  <2> QED BY <2>3, StoreUnchanged
<1>3. CASE read_pos = NameLen
  <2>1. /\ data_len' = val /\ data_pos' = 0 /\ status' = DataReady
        /\ UNCHANGED <<keys, nvram, key, value>>
    BY <1>1, <1>3, DeviceSizes DEF WriteDataWrite
  <2>2. 0 \in 0..val
    BY DeviceSizes DEF Byte
  <2>3. PortsTypeOK' /\ UNCHANGED <<keyVars, nvram>>
    BY <1>1, <2>1, <2>2 DEF PortsTypeOK, Status, keyVars
  <2> QED BY <2>3, StoreUnchanged
<1>4. CASE read_pos > NameLen /\ data_pos < data_len
  <2> DEFINE buf == [value EXCEPT ![data_pos + 1] = val]
  <2>1. /\ data_pos' = data_pos + 1 /\ UNCHANGED <<key, data_len>>
        /\ IF LastByte THEN StoreValue(buf)
           ELSE status' = DataReady /\ value' = buf /\ UNCHANGED <<keys, nvram>>
    BY <1>1, <1>4, DeviceSizes DEF WriteDataWrite
  <2>2. data_len \in 1..ByteMax /\ data_pos' \in 0..data_len
    BY <1>1, <1>4, <2>1, DeviceSizes
  <2>3. buf \in [1..ByteMax -> Byte]
    BY <1>1 DEF PortsTypeOK
  <2> HIDE DEF buf
  <2>4. ASSUME LastByte PROVE StoreKeeps /\ PortsTypeOK'
    <3>1. /\ Extends(keys, keys') /\ NvramTypeOK' /\ NvramNamesAKey'
          /\ status' \in Status /\ value' \in [1..ByteMax -> Byte]
      BY <2>1, <2>2, <2>3, <2>4, StoreValueStep DEF DeviceInv
    <3>2. PortsTypeOK'
      BY <1>1, <2>1, <2>2, <3>1 DEF PortsTypeOK
    <3> QED BY <1>1, <3>1, <3>2, KeysStayTyped DEF StoreKeeps
  <2>5. ASSUME ~LastByte PROVE StoreKeeps /\ PortsTypeOK'
    <3>1. PortsTypeOK' /\ UNCHANGED <<keyVars, nvram>>
      BY <1>1, <2>1, <2>2, <2>3, <2>5 DEF PortsTypeOK, Status, keyVars
    <3> QED BY <3>1, StoreUnchanged
  <2> QED BY <2>4, <2>5
<1>5. CASE read_pos > NameLen /\ ~(data_pos < data_len)
  <2>1. UNCHANGED <<keys, nvram, status, key, data_len, data_pos, value>>
    BY <1>1, <1>5, DeviceSizes DEF WriteDataWrite
  <2>2. PortsTypeOK' /\ UNCHANGED <<keyVars, nvram>>
    BY <1>1, <2>1 DEF PortsTypeOK, keyVars
  <2> QED BY <2>2, StoreUnchanged
<1> QED BY <1>1, <1>2, <1>3, <1>4, <1>5, DeviceSizes

LEMMA IndexDataWriteStep ==
  ASSUME DeviceInv, NEW val \in Byte, IndexDataWrite(val)
  PROVE  StoreKeeps /\ PortsTypeOK'
<1>1. /\ PortsTypeOK /\ keys \in Seq(Key) /\ cmd = "INDEX"
      /\ UNCHANGED <<keyVars, nvram, cmd, data_pos, data_len, value, key_info>>
  BY TypeParts DEF DeviceInv, KeysTypeOK, IndexDataWrite
<1>2. read_pos' \in 0..(PosMod - 1)
  BY <1>1, DeviceSizes DEF IndexDataWrite, PortsTypeOK
<1>3. key_index' \in Nat
  <2>1. CASE read_pos < NameLen
    <3>1. Shift[read_pos] \in Nat /\ val \in Nat /\ key_index \in Nat
      <4>1. read_pos \in 0..(NameLen - 1)
        BY <1>1, <2>1, DeviceSizes, PortNumbers
      <4>2. Shift[read_pos] \in Nat
        BY <4>1, PortAssumption
      <4>3. val \in Nat
        BY DeviceSizes DEF Byte
      <4> QED BY <1>1, <4>2, <4>3 DEF PortsTypeOK
    <3>2. key_index' = key_index + val * Shift[read_pos]
      BY <2>1 DEF IndexDataWrite
    <3>3. \A a, b, c \in Nat : a + b * c \in Nat
      OBVIOUS
    <3> QED BY <3>1, <3>2, <3>3
  <2> QED BY <1>1, <2>1 DEF IndexDataWrite, PortsTypeOK
<1>4. key' \in Name /\ status' \in Status /\ status_1e' \in Error
  <2> DEFINE index == key_index'
  <2>1. \/ KeyByIndex(index)
        \/ status' \in {ByteAccepted, status} /\ UNCHANGED <<key, status_1e>>
    BY DEF IndexDataWrite
  <2> HIDE DEF index
  <2>2. index \in Nat
    BY <1>3 DEF index
  <2>3. index < Len(keys) => keys[index + 1] \in Key
    BY <1>1, <2>2, ElementOfSeq
  <2> QED BY <1>1, <2>1, <2>3 DEF KeyByIndex, Report, PortsTypeOK, Status, Error, Key
<1>5. PortsTypeOK'
  BY <1>1, <1>2, <1>3, <1>4 DEF PortsTypeOK
<1> QED BY <1>1, <1>5, StoreUnchanged

LEMMA TypeDataWriteStep ==
  ASSUME DeviceInv, NEW val \in Byte, TypeDataWrite(val)
  PROVE  StoreKeeps /\ PortsTypeOK'
<1>1. /\ PortsTypeOK /\ keys \in Seq(Key) /\ cmd = "TYPE"
      /\ UNCHANGED <<keyVars, nvram, cmd, key_index, value>>
      /\ read_pos' \in 0..(PosMod - 1)
  BY TypeParts, PosAfterIsPosition DEF DeviceInv, KeysTypeOK, TypeDataWrite, PortsTypeOK
<1> DEFINE name == IF read_pos < NameLen THEN [key EXCEPT ![read_pos + 1] = val] ELSE key
<1>2. name \in Name /\ key' = name
  <2>1. read_pos < NameLen => read_pos + 1 \in 1..NameLen
    BY <1>1, DeviceSizes DEF PortsTypeOK
  <2> QED BY <1>1, <2>1 DEF TypeDataWrite, PortsTypeOK, Name
<1>3. \/ /\ data_len' = InfoLen /\ data_pos' = 0 /\ status' = DataReady
         /\ FillInfo(name)
      \/ /\ status' \in {ByteAccepted, status}
         /\ UNCHANGED <<data_len, data_pos, key_info, status_1e>>
  BY DEF TypeDataWrite
<1> HIDE DEF name
<1>4. FillInfo(name) => key_info' \in [1..InfoLen -> Byte] /\ status_1e' \in Error
  <2>1. HasKey(name) => keys[IndexOf(name)] \in Key
    BY <1>1, IndexOfFound, ElementOfSeq
  <2>2. HasKey(name) => <<Len(keys[IndexOf(name)].value)>> \o keys[IndexOf(name)].type \o <<0>>
                          \in [1..InfoLen -> Byte]
    BY <2>1, InfoIsBytes
  <2> QED BY <1>1, <2>2 DEF FillInfo, Report, PortsTypeOK, Error
<1>5. PortsTypeOK'
  <2>1. key_info' \in [1..InfoLen -> Byte] /\ status_1e' \in Error /\ status' \in Status
    BY <1>1, <1>3, <1>4 DEF PortsTypeOK, Status
  <2>2. data_len' \in Byte /\ data_pos' \in 0..data_len'
    BY <1>1, <1>3, DeviceSizes DEF PortsTypeOK
  <2> QED BY <1>1, <1>2, <2>1, <2>2 DEF PortsTypeOK
<1> QED BY <1>1, <1>5, StoreUnchanged

LEMMA DataReadStep ==
  ASSUME DeviceInv, NEW b, DataRead(b)
  PROVE  StoreKeeps /\ PortsTypeOK'
<1>1. /\ PortsTypeOK
      /\ UNCHANGED <<keyVars, nvram, status_1e, cmd, read_pos, key_index, key, data_len>>
  BY TypeParts
     DEF DeviceInv, DataRead, ReadDataRead, WriteDataRead, IndexDataRead, TypeDataRead, bufVars
<1>2. Zeros(ByteMax) \in [1..ByteMax -> Byte] /\ Zeros(InfoLen) \in [1..InfoLen -> Byte]
  BY DeviceSizes, ZerosAreBytes
<1>3. Advance => status' \in {Done, DataReady} /\ data_pos' = data_pos + 1
  BY DEF Advance
<1>4. status' \in {Done, DataReady, status}
  BY <1>3 DEF DataRead, ReadDataRead, WriteDataRead, IndexDataRead, TypeDataRead
<1>5. value' \in {Zeros(ByteMax), value} /\ key_info' \in {Zeros(InfoLen), key_info}
  BY DEF DataRead, ReadDataRead, WriteDataRead, IndexDataRead, TypeDataRead, bufVars,
     ClearedValue
<1>6. data_pos' \in 0..(IF cmd = "INDEX" THEN NameLen ELSE data_len)
  <2>1. \/ data_pos' = data_pos
        \/ cmd # "INDEX" /\ data_pos < data_len /\ data_pos' = data_pos + 1
        \/ cmd = "INDEX" /\ data_pos < NameLen /\ data_pos' = data_pos + 1
    BY <1>3 DEF DataRead, ReadDataRead, WriteDataRead, IndexDataRead, TypeDataRead
  <2> QED BY <1>1, <2>1, DeviceSizes, PortNumbers DEF PortsTypeOK
<1>7. PortsTypeOK'
  BY <1>1, <1>2, <1>4, <1>5, <1>6 DEF PortsTypeOK, Status
<1> QED BY <1>1, <1>7, StoreUnchanged

LEMMA ErrorReadStep ==
  ASSUME DeviceInv, NEW e, ErrorRead(e)
  PROVE  StoreKeeps /\ PortsTypeOK'
<1>1. PortsTypeOK
  BY TypeParts DEF DeviceInv
<1>2. PortsTypeOK'
  BY <1>1 DEF ErrorRead, PortsTypeOK, cmdVars, bufVars, Error
<1> QED BY <1>2, StoreUnchanged DEF ErrorRead

(***************************************************************************)
(* Any access of any host, between any two calls of plug-ins and users.    *)
(***************************************************************************)
LEMMA AccessStep ==
  ASSUME DeviceInv,
         \/ \E c \in Cmd : CmdWrite(c)
         \/ \E val \in Byte : DataWrite(val)
         \/ \E b : DataRead(b)
         \/ \E e : ErrorRead(e)
         \/ PluginStep \/ UserStep
  PROVE  DeviceInv' /\ Extends(keys, keys')
<1>1. StoreKeeps /\ PortsTypeOK' => DeviceInv' /\ Extends(keys, keys')
  <2>1. (TypeOK <=> KeysTypeOK /\ PortsTypeOK /\ NvramTypeOK)'
    BY DEF TypeOK, KeysTypeOK, PortsTypeOK, NvramTypeOK
  <2> QED BY <2>1 DEF StoreKeeps, DeviceInv
<1>2. ASSUME PluginStep \/ UserStep PROVE StoreKeeps /\ PortsTypeOK'
  <2>1. KeysTypeOK /\ PortsTypeOK /\ NvramTypeOK /\ NvramNamesAKey /\ keys \in Seq(Key)
    BY TypeParts DEF DeviceInv, KeysTypeOK
  <2>2. Next /\ UNCHANGED <<portVars, nvram>>
    BY <1>2 DEF PluginStep, UserStep, Next
  <2>3. KeysTypeOK' /\ Extends(keys, keys')
    BY <2>1, <2>2, CallStep
  <2>4. nvram' = nvram /\ PortsTypeOK'
    BY <2>1, <2>2 DEF PortsTypeOK, portVars, cmdVars, bufVars
  <2> QED BY <2>1, <2>3, <2>4, VariablesKeepTheirKeys DEF StoreKeeps, NvramTypeOK
<1>3. ASSUME NEW val \in Byte, DataWrite(val) PROVE StoreKeeps /\ PortsTypeOK'
  BY <1>3, ReadDataWriteStep, WriteDataWriteStep, IndexDataWriteStep,
     TypeDataWriteStep DEF DataWrite
<1> QED BY <1>1, <1>2, <1>3, CmdWriteStep, DataReadStep, ErrorReadStep

(***************************************************************************)
(* The device is what its types say and its NVRAM variables name keys,     *)
(* for any host, any sizes and any plug-ins.                               *)
(***************************************************************************)
LEMMA DeviceInitInv == DeviceInit => DeviceInv
<1> SUFFICES ASSUME DeviceInit PROVE DeviceInv
  OBVIOUS
<1>1. KeysTypeOK
  <2>1. Init => KeysInv
    BY KeysInitInv
  <2> QED BY <2>1 DEF DeviceInit, KeysInv
<1>2. PortsTypeOK
  <2>1. /\ Zeros(ByteMax) \in [1..ByteMax -> Byte] /\ Zeros(InfoLen) \in [1..InfoLen -> Byte]
        /\ Zeros(NameLen) \in [1..NameLen -> Byte]
    BY DeviceSizes, ZerosAreBytes
  <2>2. 0 \in 0..0 /\ 0 \in 0..NameLen /\ 0 \in 0..(PosMod - 1)
    BY DeviceSizes
  <2> QED
    BY <2>1, <2>2, DeviceSizes DEF DeviceInit, PortsTypeOK, Cmd, Status, Error, Name
<1>3. NvramTypeOK /\ NvramNamesAKey
  <2>1. DOMAIN nvram = {}
    BY DEF DeviceInit
  <2> QED BY <2>1 DEF NvramTypeOK, NvramNamesAKey
<1> QED BY <1>1, <1>2, <1>3, TypeParts DEF DeviceInv

THEOREM DeviceInvariant == DeviceSpec => []DeviceInv
<1>1. DeviceInv /\ [DeviceNext]_vars => DeviceInv'
  <2> SUFFICES ASSUME DeviceInv, [DeviceNext]_vars PROVE DeviceInv'
    OBVIOUS
  <2>1. CASE DeviceNext
    <3>1. HostCmds \subseteq Cmd /\ HostBytes \subseteq Byte
      BY PortAssumption DEF Cmd
    <3> QED BY <2>1, <3>1, AccessStep DEF DeviceNext, HostStep
  <2>2. CASE UNCHANGED vars
    BY <2>2 DEF vars, keyVars, portVars, cmdVars, bufVars, DeviceInv, TypeOK, NvramNamesAKey
  <2> QED BY <2>1, <2>2
<1> QED BY <1>1, DeviceInitInv, PTL DEF DeviceSpec

(***************************************************************************)
(* Every index into a buffer of the device stays within it.                *)
(***************************************************************************)
THEOREM DeviceTypeCorrect == DeviceSpec => []TypeOK
  BY DeviceInvariant, PTL DEF DeviceInv

(***************************************************************************)
(* What is saved to NVRAM is saved under the name and type of a key.       *)
(***************************************************************************)
THEOREM VariablesNameKeys == DeviceSpec => []NvramNamesAKey
  BY DeviceInvariant, PTL DEF DeviceInv

=============================================================================
