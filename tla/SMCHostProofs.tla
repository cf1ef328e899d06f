----------------------------- MODULE SMCHostProofs -----------------------------
(***************************************************************************)
(* Proofs that a host which follows the port protocol finds a service      *)
(* behind the ports: for any requests, given up at any point, with plug-ins*)
(* at work between the bytes.                                              *)
(***************************************************************************)
EXTENDS SMCHost, FakeSMCDeviceProofs

\* Bytes the device has to hand out for the request.
AnswerLen ==
  IF request.op = "INDEX" THEN NameLen ELSE IF request.op = "TYPE" THEN InfoLen ELSE data_len

\* The host spells a name or an index: the device has the bytes sent so far.
Spelling ==
  /\ sent \in 0..NameLen /\ sent < Len(Message(request))
  /\ read_pos = sent /\ data_pos = 0
  /\ status = IF sent = 0 THEN CmdAccepted ELSE ByteAccepted
  /\ IF request.op = "INDEX" THEN key_index = IndexBy[sent][request.spell]
     ELSE \A p \in 1..sent : key[p] = request.spell[p]
  /\ received = << >>

\* The host sends the bytes to be written.
Writing ==
  /\ request.op = "WRITE"
  /\ sent \in (NameLen + 1)..(Len(Message(request)) - 1)
  /\ read_pos = sent /\ data_len = request.payload[1] /\ data_pos = sent - NameLen - 1
  /\ status = DataReady
  /\ key = request.spell
  /\ \A p \in 1..data_pos : value[p] = request.payload[p + 1]
  /\ received = << >>

\* The device answers, as long as there are bytes to hand out.
Answering ==
  /\ AllSent
  /\ IF request.op = "WRITE" THEN status = Done /\ received = << >>
     ELSE /\ request.op = "TYPE" => data_len = InfoLen
          /\ \/ status = DataReady /\ data_pos < AnswerLen
             \/ status = Done /\ data_pos = AnswerLen
             \/ status = Done /\ request.op = "INDEX" /\ status_1e # NoError

\* Host and device agree on how far the request is.
InStep ==
  \/ request = NoRequest /\ sent = 0 /\ received = << >>
  \/ /\ request \in Requests /\ cmd = request.op
     /\ (Spelling \/ Writing \/ Answering)

HostInv == DeviceInv /\ received \in Seq(Byte) /\ InStep

-----------------------------------------------------------------------------
(* Requests *)

(***************************************************************************)
(* A function on 1..n is a sequence.                                       *)
(***************************************************************************)
LEMMA FunctionIsSeq ==
  ASSUME NEW S, NEW n \in Nat, NEW s \in [1..n -> S]
  PROVE  s \in Seq(S) /\ Len(s) = n
  OBVIOUS

(***************************************************************************)
(* What a request looks like.                                              *)
(***************************************************************************)
LEMMA RequestForm ==
  ASSUME NEW q \in Requests
  PROVE  /\ q # NoRequest
         /\ q.op \in {"READ", "WRITE", "INDEX", "TYPE"} /\ q.op # OtherCmd /\ q.op \in Cmd
         /\ q.spell \in Name /\ q.payload \in Seq(Byte)
         /\ q.op = "READ" => Len(q.payload) = 1 /\ q.payload[1] \in 1..MaxDataLen
         /\ q.op = "WRITE" => /\ q.spell[1] # 0 /\ q.payload[1] \in 1..MaxDataLen
                              /\ Len(q.payload) = q.payload[1] + 1
         /\ q.op \in {"INDEX", "TYPE"} => q.payload = << >>
<1>1. q \in Request /\ MaxDataLen \in 1..ByteMax /\ ByteMax \in Nat
  BY HostAssumption, DeviceSizes
<1>2. CASE q \in [op : {"READ"}, spell : Name, payload : [1..1 -> 1..MaxDataLen]]
  <2>1. q.op = "READ" /\ q.spell \in Name /\ q.payload \in [1..1 -> 1..MaxDataLen] /\ q # NoRequest
    BY <1>2 DEF NoRequest
  <2>2. q.payload \in [1..1 -> Byte] /\ q.payload[1] \in 1..MaxDataLen
    BY <1>1, <2>1 DEF Byte
  <2>3. q.payload \in Seq(Byte) /\ Len(q.payload) = 1
    BY <2>2, FunctionIsSeq
  <2> QED BY <2>1, <2>2, <2>3, PortAssumption DEF Cmd
<1>3. CASE q \in UNION {[op : {"WRITE"}, spell : {n \in Name : n[1] # 0},
                         payload : {p \in [1..(len + 1) -> Byte] : p[1] = len}] :
                        len \in 1..MaxDataLen}
  <2>1. PICK len \in 1..MaxDataLen :
          q \in [op : {"WRITE"}, spell : {n \in Name : n[1] # 0},
                 payload : {p \in [1..(len + 1) -> Byte] : p[1] = len}]
    BY <1>3
  <2>2. /\ q.op = "WRITE" /\ q.spell \in Name /\ q.spell[1] # 0 /\ q # NoRequest
        /\ q.payload \in [1..(len + 1) -> Byte] /\ q.payload[1] = len
    BY <2>1 DEF NoRequest
  <2>3. len + 1 \in Nat
    BY <1>1
  <2>4. q.payload \in Seq(Byte) /\ Len(q.payload) = len + 1
    BY <2>2, <2>3, FunctionIsSeq
  <2> QED BY <2>2, <2>4, PortAssumption DEF Cmd
<1>4. CASE q \in [op : {"INDEX", "TYPE"}, spell : Name, payload : {<< >>}]
  <2>1. q.op \in {"INDEX", "TYPE"} /\ q.spell \in Name /\ q.payload = << >> /\ q # NoRequest
    BY <1>4 DEF NoRequest
  <2>2. << >> \in Seq(Byte)
    BY EmptySeq
  <2> QED BY <2>1, <2>2, PortAssumption DEF Cmd
<1> QED BY <1>1, <1>2, <1>3, <1>4 DEF Request

(***************************************************************************)
(* A message is the spelling and then the payload; it does not wrap the    *)
(* position.                                                               *)
(***************************************************************************)
LEMMA MessageBytes ==
  ASSUME NEW q \in Requests
  PROVE  /\ Len(Message(q)) = NameLen + Len(q.payload)
         /\ Len(Message(q)) \in Nat /\ Len(Message(q)) <= PosMod
         /\ \A p \in 1..Len(Message(q)) : Message(q)[p] \in Byte
         /\ \A p \in 1..NameLen : Message(q)[p] = q.spell[p]
         /\ \A p \in 1..Len(q.payload) : Message(q)[NameLen + p] = q.payload[p]
<1>1. q.spell \in [1..NameLen -> Byte] /\ q.payload \in Seq(Byte)
  BY RequestForm DEF Name
<1>2. q.spell \in Seq(Byte) /\ Len(q.spell) = NameLen /\ Len(q.payload) \in Nat
  BY <1>1, DeviceSizes, FunctionIsSeq, LenProperties
<1>3. /\ Message(q) \in Seq(Byte) /\ Len(Message(q)) = NameLen + Len(q.payload)
      /\ \A p \in 1..(NameLen + Len(q.payload)) :
           Message(q)[p] = IF p <= NameLen THEN q.spell[p] ELSE q.payload[p - NameLen]
  BY <1>1, <1>2, ConcatProperties DEF Message
<1>4. Len(q.payload) <= MaxDataLen + 1 /\ (q.op # "WRITE" => Len(q.payload) <= 1)
  <2>1. MaxDataLen \in Nat /\ MaxDataLen > 0
    BY HostAssumption, DeviceSizes
  <2>2. CASE q.op = "READ"
    <3>1. Len(q.payload) = 1
      BY <2>2, RequestForm
    <3> QED BY <2>1, <3>1
  <2>3. CASE q.op = "WRITE"
    <3>1. q.payload[1] \in 1..MaxDataLen /\ Len(q.payload) = q.payload[1] + 1
      BY <2>3, RequestForm
    <3> QED BY <2>1, <2>3, <3>1
  <2>4. CASE q.op \in {"INDEX", "TYPE"}
    <3>1. Len(q.payload) = 0
      BY <2>4, RequestForm
    <3> QED BY <2>1, <3>1
  <2> QED BY <2>2, <2>3, <2>4, RequestForm
<1>5. Len(Message(q)) \in Nat /\ Len(Message(q)) <= PosMod
  BY <1>2, <1>3, <1>4, DeviceSizes, HostAssumption, PortAssumption
<1>6. \A p \in 1..Len(Message(q)) : Message(q)[p] \in Byte
  BY <1>3, ElementOfSeq
<1>7. \A p \in 1..NameLen : Message(q)[p] = q.spell[p]
  BY <1>2, <1>3, DeviceSizes
<1>8. ASSUME NEW p \in 1..Len(q.payload) PROVE Message(q)[NameLen + p] = q.payload[p]
  <2>1. NameLen + p \in 1..(NameLen + Len(q.payload)) /\ ~(NameLen + p <= NameLen)
        /\ (NameLen + p) - NameLen = p
    BY <1>2, DeviceSizes
  <2> QED BY <1>3, <2>1
<1> QED BY <1>3, <1>5, <1>6, <1>7, <1>8

(***************************************************************************)
(* The index of a spelling, byte by byte.                                  *)
(***************************************************************************)
LEMMA IndexByBytes ==
  /\ \A s \in Name : IndexBy[0][s] = 0
  /\ \A p \in 1..NameLen, s \in Name : IndexBy[p][s] = IndexBy[p - 1][s] + s[p] * Shift[p - 1]
<1> DEFINE Rec(F, n) ==
             F = [p \in 0..n |-> [s \in Name |-> IF p = 0 THEN 0
                                                 ELSE F[p - 1][s] + s[p] * Shift[p - 1]]]
<1>0. NameLen \in Nat
  BY DeviceSizes
<1>1. ASSUME NEW m \in 1..NameLen, NEW F, Rec(F, m - 1) PROVE \E G : Rec(G, m)
  <2> DEFINE G == [p \in 0..m |-> IF p = m THEN [s \in Name |-> F[m - 1][s] + s[m] * Shift[m - 1]]
                                  ELSE F[p]]
  <2>1. ASSUME NEW p \in 0..m
        PROVE  G[p] = [s \in Name |-> IF p = 0 THEN 0 ELSE G[p - 1][s] + s[p] * Shift[p - 1]]
    <3>1. CASE p = m
      <4>1. p # 0 /\ m - 1 \in 0..m /\ m - 1 # m
        BY <1>0, <3>1
      <4>2. G[p - 1] = F[m - 1]
        BY <3>1, <4>1
      <4>3. G[p] = [s \in Name |-> F[m - 1][s] + s[m] * Shift[m - 1]]
        BY <3>1
      <4> HIDE DEF G
      <4> QED BY <3>1, <4>1, <4>2, <4>3
    <3>2. CASE p # m
      <4>1. p \in 0..(m - 1) /\ (p # 0 => p - 1 \in 0..m /\ p - 1 # m)
        BY <1>0, <3>2
      <4>2. G[p] = F[p] /\ (p # 0 => G[p - 1] = F[p - 1])
        BY <3>2, <4>1
      <4>3. F[p] = [s \in Name |-> IF p = 0 THEN 0 ELSE F[p - 1][s] + s[p] * Shift[p - 1]]
        BY <1>1, <4>1
      <4> HIDE DEF G
      <4> QED BY <4>2, <4>3
    <3> QED BY <3>1, <3>2
  <2>2. G = [p \in 0..m |-> G[p]]
    OBVIOUS
  <2>3. Rec(G, m)
    <3> HIDE DEF G
    <3> QED BY <2>1, <2>2
  <2> QED BY <2>3
<1>2. \E F : Rec(F, 0)
  <2> DEFINE F == [p \in 0..0 |-> [s \in Name |-> 0]]
  <2>1. Rec(F, 0)
    OBVIOUS
  <2> QED BY <2>1
<1> DEFINE Fails == {n \in 1..NameLen : ~\E F : Rec(F, n)}
<1> HIDE DEF Rec
<1>3. Fails = {}
  <2> SUFFICES ASSUME Fails # {} PROVE FALSE
    OBVIOUS
  <2>1. PICK m \in Fails : \A y \in Fails : m <= y
    <3>1. Fails \subseteq 1..NameLen
      OBVIOUS
    <3> HIDE DEF Fails
    <3> QED BY <1>0, <3>1, FirstOf
  <2>2. m \in 1..NameLen /\ (m - 1 = 0 \/ m - 1 \in 1..NameLen) /\ ~(m <= m - 1)
    BY <1>0
  <2>3. \E F : Rec(F, m - 1)
    BY <1>2, <2>1, <2>2
  <2> QED BY <1>1, <2>2, <2>3
<1>4. \E F : Rec(F, NameLen)
  BY <1>3, DeviceSizes
<1>5. Rec(IndexBy, NameLen)
  <2>1. IndexBy = CHOOSE F : Rec(F, NameLen)
    BY DEF IndexBy, Rec
  <2> QED BY <1>4, <2>1
<1>6. \A p \in 0..NameLen :
        IndexBy[p] = [s \in Name |-> IF p = 0 THEN 0 ELSE IndexBy[p - 1][s] + s[p] * Shift[p - 1]]
  BY <1>5 DEF Rec
<1>7. ASSUME NEW s \in Name PROVE IndexBy[0][s] = 0
  <2>1. IndexBy[0] = [n \in Name |-> IF 0 = 0 THEN 0 ELSE IndexBy[0 - 1][n] + n[0] * Shift[0 - 1]]
    BY <1>0, <1>6
  <2> QED BY <2>1
<1>8. ASSUME NEW p \in 1..NameLen, NEW s \in Name
      PROVE  IndexBy[p][s] = IndexBy[p - 1][s] + s[p] * Shift[p - 1]
  <2>1. p \in 0..NameLen /\ p # 0
    BY <1>0
  <2>2. IndexBy[p] = [n \in Name |-> IF p = 0 THEN 0 ELSE IndexBy[p - 1][n] + n[p] * Shift[p - 1]]
    BY <1>6, <2>1
  <2> QED BY <2>1, <2>2
<1> QED BY <1>7, <1>8

(***************************************************************************)
(* How many bytes a request is.                                            *)
(***************************************************************************)
LEMMA RequestSizes ==
  ASSUME NEW q \in Requests
  PROVE  /\ q.op \in {"READ", "WRITE", "INDEX", "TYPE"}
         /\ q.op = "READ" => Len(Message(q)) = NameLen + 1
         /\ q.op = "WRITE" => /\ Len(Message(q)) = NameLen + q.payload[1] + 1
                              /\ Len(q.payload) = q.payload[1] + 1
                              /\ q.payload[1] \in Nat \ {0}
         /\ q.op \in {"INDEX", "TYPE"} => Len(Message(q)) = NameLen
         /\ Len(Message(q)) \in Nat /\ NameLen <= Len(Message(q)) /\ Len(Message(q)) <= PosMod
         /\ NameLen \in Nat \ {0}
<1>1. /\ Len(Message(q)) = NameLen + Len(q.payload) /\ Len(Message(q)) <= PosMod
      /\ NameLen \in Nat \ {0} /\ Len(q.payload) \in Nat
  BY MessageBytes, RequestForm, LenProperties, DeviceSizes
<1>2. q.op = "READ" => Len(q.payload) = 1
  BY RequestForm
<1>3. q.op = "WRITE" => Len(q.payload) = q.payload[1] + 1 /\ q.payload[1] \in Nat \ {0}
  <2>1. \A n \in 1..MaxDataLen : n \in Nat \ {0}
    BY HostAssumption, DeviceSizes
  <2> QED BY <2>1, RequestForm
<1>4. q.op \in {"INDEX", "TYPE"} => Len(q.payload) = 0
  BY RequestForm
<1>5. q.op \in {"READ", "WRITE", "INDEX", "TYPE"}
  BY RequestForm
<1>6. q.op = "READ" => Len(Message(q)) = NameLen + 1
  BY <1>1, <1>2
<1>7. q.op = "WRITE" => Len(Message(q)) = NameLen + q.payload[1] + 1
  <2> SUFFICES ASSUME q.op = "WRITE" PROVE Len(Message(q)) = NameLen + q.payload[1] + 1
    OBVIOUS
  <2> DEFINE n == q.payload[1]
             l == Len(q.payload)
             m == Len(Message(q))
  <2>1. n \in Nat /\ l = n + 1 /\ m = NameLen + l /\ NameLen \in Nat
    BY <1>1, <1>3
  <2> HIDE DEF n, l, m
  <2>2. m = NameLen + n + 1
    BY <2>1
  <2> QED BY <2>2 DEF n, m
<1>8. q.op \in {"INDEX", "TYPE"} => Len(Message(q)) = NameLen
  BY <1>1, <1>4
<1>9. Len(Message(q)) \in Nat /\ NameLen <= Len(Message(q))
  BY <1>1
<1> QED BY <1>1, <1>3, <1>5, <1>6, <1>7, <1>8, <1>9

-----------------------------------------------------------------------------
(* The host sends a byte *)

(***************************************************************************)
(* What every byte sent starts from.                                       *)
(***************************************************************************)
LEMMA SendAccess ==
  ASSUME HostInv, Send
  PROVE  /\ request \in Requests /\ cmd = request.op /\ (Spelling \/ Writing)
         /\ sent \in Nat /\ sent < Len(Message(request))
         /\ Message(request)[sent + 1] \in Byte /\ DataWrite(Message(request)[sent + 1])
         /\ cmd' = cmd /\ request' = request /\ sent' = sent + 1 /\ received' = received
         /\ received = << >> /\ outcome' = outcome
         /\ PortsTypeOK /\ keys \in Seq(Key) /\ DeviceInv'
<1>1. request # NoRequest /\ ~AllSent /\ DataWrite(Message(request)[sent + 1])
      /\ request' = request /\ sent' = sent + 1 /\ received' = received /\ outcome' = outcome
  BY DEF Send
<1>2. request \in Requests /\ cmd = request.op /\ (Spelling \/ Writing)
  BY <1>1 DEF HostInv, InStep, Answering
<1>3. NameLen \in Nat /\ Len(Message(request)) \in Nat
  BY <1>2, MessageBytes, DeviceSizes
<1>4. sent \in Nat /\ sent < Len(Message(request)) /\ received = << >>
  BY <1>2, <1>3 DEF Spelling, Writing
<1>5. sent + 1 \in 1..Len(Message(request))
  BY <1>3, <1>4
<1>6. Message(request)[sent + 1] \in Byte
  <2>1. \A p \in 1..Len(Message(request)) : Message(request)[p] \in Byte
    BY <1>2, MessageBytes
  <2> QED BY <1>5, <2>1
<1>7. cmd' = cmd
  BY <1>1 DEF DataWrite, ReadDataWrite, WriteDataWrite, IndexDataWrite, TypeDataWrite
<1>8. DeviceInv'
  BY <1>1, <1>6, AccessStep DEF HostInv
<1>9. PortsTypeOK /\ keys \in Seq(Key)
  BY TypeParts DEF HostInv, DeviceInv, KeysTypeOK
<1> QED BY <1>1, <1>2, <1>4, <1>6, <1>7, <1>8, <1>9

(***************************************************************************)
(* A byte of the spelling that is not the last of a request.               *)
(***************************************************************************)
LEMMA SendSpells ==
  ASSUME HostInv, Send, Spelling, sent < NameLen, sent + 1 < Len(Message(request))
  PROVE  Spelling' /\ UNCHANGED <<keys, status_1e>>
<1> DEFINE val == Message(request)[sent + 1]
<1>1. /\ request \in Requests /\ cmd = request.op /\ DataWrite(val) /\ PortsTypeOK
      /\ request' = request /\ sent' = sent + 1 /\ received' = << >> /\ sent \in Nat
      /\ val \in Byte /\ read_pos = sent /\ data_pos = 0
  <2>1. read_pos = sent /\ data_pos = 0 /\ (request.op = "INDEX" => key_index = IndexBy[sent][request.spell])
    BY DEF Spelling
  <2> QED BY <2>1, SendAccess
<1>2. sent + 1 \in 1..NameLen /\ sent + 1 \in 0..NameLen /\ NameLen \in Nat
  BY <1>1, DeviceSizes
<1>3. val = request.spell[sent + 1] /\ request.spell \in Name
  BY <1>1, <1>2, MessageBytes, RequestForm
<1>4. PosAfter = sent + 1
  BY <1>1, <1>2, DeviceSizes, PosAfterIsPosition DEF PortsTypeOK
<1> HIDE DEF val
<1>5. /\ read_pos' = sent + 1 /\ data_pos' = 0 /\ status' = ByteAccepted
      /\ UNCHANGED <<keys, status_1e>>
      /\ request.op = "INDEX" => key_index' = key_index + val * Shift[sent]
      /\ request.op # "INDEX" => key' = [key EXCEPT ![sent + 1] = val]
  <2>1. CASE ReadDataWrite(val)
    <3>1. KeyByte(val) /\ UNCHANGED <<keys, status_1e, data_len, data_pos, value>>
      BY <1>1, <1>2, <2>1 DEF ReadDataWrite
    <3> QED BY <1>1, <1>4, <2>1, <3>1 DEF ReadDataWrite, KeyByte
  <2>2. CASE WriteDataWrite(val)
    <3>1. KeyByte(val) /\ UNCHANGED <<keys, nvram, data_len, data_pos, value>>
      BY <1>1, <1>2, <2>2 DEF WriteDataWrite
    <3> QED BY <1>1, <1>4, <2>2, <3>1 DEF WriteDataWrite, KeyByte
  <2>3. CASE IndexDataWrite(val)
    <3>1. request.op = "INDEX" /\ sent + 1 # NameLen
      <4>1. request.op = "INDEX"
        BY <1>1, <2>3 DEF IndexDataWrite
      <4>2. Len(Message(request)) = NameLen
        BY <1>1, <4>1, RequestSizes
      <4> QED BY <1>1, <1>2, <4>1, <4>2
    <3> QED BY <1>1, <1>2, <2>3, <3>1 DEF IndexDataWrite, keyVars
  <2>4. CASE TypeDataWrite(val)
    <3>1. request.op = "TYPE" /\ sent + 1 # NameLen
      <4>1. request.op = "TYPE"
        BY <1>1, <2>4 DEF TypeDataWrite
      <4>2. Len(Message(request)) = NameLen
        BY <1>1, <4>1, RequestSizes
      <4> QED BY <1>1, <1>2, <4>1, <4>2
    <3> QED BY <1>1, <1>2, <1>4, <2>4, <3>1 DEF TypeDataWrite, keyVars
  <2> QED BY <1>1, <2>1, <2>2, <2>3, <2>4 DEF DataWrite
<1>6. request.op = "INDEX" => key_index' = IndexBy[sent + 1][request.spell]
  <2>1. (sent + 1) - 1 = sent
    BY <1>1
  <2>2. request.op = "INDEX" => key_index = IndexBy[sent][request.spell]
    BY DEF Spelling
  <2>3. \A s \in Name : IndexBy[sent + 1][s]
                          = IndexBy[(sent + 1) - 1][s] + s[sent + 1] * Shift[(sent + 1) - 1]
    BY <1>2, IndexByBytes, Zenon
  <2>4. \A s \in Name : IndexBy[sent + 1][s] = IndexBy[sent][s] + s[sent + 1] * Shift[sent]
    BY <2>1, <2>3
  <2> QED BY <1>3, <1>5, <2>2, <2>4
<1>7. request.op # "INDEX" => \A p \in 1..(sent + 1) : key'[p] = request.spell[p]
  <2> SUFFICES ASSUME request.op # "INDEX", NEW p \in 1..(sent + 1) PROVE key'[p] = request.spell[p]
    OBVIOUS
  <2>1. key \in [1..NameLen -> Byte] /\ p \in 1..NameLen /\ (p = sent + 1 \/ p \in 1..sent)
    BY <1>1, <1>2 DEF PortsTypeOK, Name
  <2>2. p \in 1..sent => key[p] = request.spell[p]
    BY DEF Spelling
  <2>3. key'[p] = IF p = sent + 1 THEN val ELSE key[p]
    BY <1>2, <1>5, <2>1
  <2> QED BY <1>3, <2>1, <2>2, <2>3
<1> QED BY <1>1, <1>2, <1>5, <1>6, <1>7 DEF Spelling

(***************************************************************************)
(* The bytes sent are all of the name.                                     *)
(***************************************************************************)
LEMMA NameIsSpelt ==
  ASSUME HostInv, request \in Requests, request.op # "INDEX", Spelling, sent = NameLen
  PROVE  key = request.spell
<1>1. key \in [1..NameLen -> Byte] /\ request.spell \in [1..NameLen -> Byte]
  BY RequestForm, TypeParts DEF HostInv, DeviceInv, PortsTypeOK, Name
<1> QED BY <1>1 DEF Spelling

(***************************************************************************)
(* The last byte of an index: the key there is looked up.                  *)
(***************************************************************************)
LEMMA SendLooksUp ==
  ASSUME HostInv, Send, Spelling, request.op = "INDEX", sent + 1 = NameLen
  PROVE  /\ Answering' /\ keys' = keys /\ data_pos' = 0
         /\ LET index == IndexBy[NameLen][request.spell]
            IN  /\ index \in Nat
                /\ IF index < Len(keys) THEN key' = keys[index + 1].name /\ status_1e' = status_1e
                   ELSE status_1e' # NoError
<1> DEFINE val == Message(request)[sent + 1]
<1>1. /\ request \in Requests /\ cmd = request.op /\ DataWrite(val) /\ PortsTypeOK
      /\ request' = request /\ sent' = sent + 1 /\ sent \in Nat
      /\ read_pos = sent /\ data_pos = 0 /\ DeviceInv'
      /\ key_index = IndexBy[sent][request.spell]
  <2>1. read_pos = sent /\ data_pos = 0 /\ (request.op = "INDEX" => key_index = IndexBy[sent][request.spell])
    BY DEF Spelling
  <2> QED BY <2>1, SendAccess
<1>2. sent + 1 \in 1..NameLen /\ NameLen \in Nat /\ sent < NameLen
  BY <1>1, DeviceSizes
<1>3. val = request.spell[sent + 1] /\ request.spell \in Name
  BY <1>1, <1>2, MessageBytes, RequestForm
<1>4. Len(Message(request)) = NameLen
  BY <1>1, RequestSizes
<1> HIDE DEF val
<1> DEFINE index == IndexBy[NameLen][request.spell]
<1>5. index = key_index + val * Shift[sent]
  <2>1. NameLen - 1 = sent /\ NameLen \in 1..NameLen
    BY <1>1, <1>2
  <2> QED BY <1>1, <1>3, <2>1, IndexByBytes
<1>6. IndexDataWrite(val)
  BY <1>1 DEF DataWrite, ReadDataWrite, WriteDataWrite, TypeDataWrite
<1> HIDE DEF index
<1>7. KeyByIndex(index) /\ key_index' = index
  BY <1>1, <1>2, <1>5, <1>6 DEF IndexDataWrite
<1>8. keys' = keys /\ data_pos' = 0
  BY <1>1, <1>6 DEF IndexDataWrite, keyVars
<1>9. index \in Nat
  BY <1>1, <1>7, TypeParts DEF DeviceInv, TypeOK
<1>10. Answering'
  BY <1>1, <1>2, <1>4, <1>7, <1>8, DeviceSizes
     DEF Answering, AllSent, AnswerLen, KeyByIndex, Report, NoError, IndexNotFound
<1> QED BY <1>7, <1>8, <1>9, <1>10 DEF index, KeyByIndex, Report, NoError, IndexNotFound

(***************************************************************************)
(* The last byte of a name whose type is asked for.                        *)
(***************************************************************************)
LEMMA SendAsksType ==
  ASSUME HostInv, Send, Spelling, request.op = "TYPE", sent + 1 = NameLen
  PROVE  Answering' /\ keys' = keys /\ data_pos' = 0 /\ FillInfo(request.spell)
<1> DEFINE val == Message(request)[sent + 1]
<1>1. /\ request \in Requests /\ cmd = request.op /\ DataWrite(val) /\ PortsTypeOK
      /\ request' = request /\ sent' = sent + 1 /\ sent \in Nat
      /\ read_pos = sent /\ data_pos = 0
  <2>1. read_pos = sent /\ data_pos = 0 /\ (request.op = "INDEX" => key_index = IndexBy[sent][request.spell])
    BY DEF Spelling
  <2> QED BY <2>1, SendAccess
<1>2. sent + 1 \in 1..NameLen /\ NameLen \in Nat /\ sent < NameLen
  BY <1>1, DeviceSizes
<1>3. val = request.spell[sent + 1] /\ request.spell \in [1..NameLen -> Byte]
  BY <1>1, <1>2, MessageBytes, RequestForm DEF Name
<1>4. Len(Message(request)) = NameLen
  BY <1>1, RequestSizes
<1>5. PosAfter = sent + 1
  BY <1>1, <1>2, DeviceSizes, PosAfterIsPosition DEF PortsTypeOK
<1> HIDE DEF val
<1>6. [key EXCEPT ![sent + 1] = val] = request.spell
  <2>1. key \in [1..NameLen -> Byte] /\ \A p \in 1..sent : key[p] = request.spell[p]
    BY <1>1 DEF PortsTypeOK, Name, Spelling
  <2>2. \A p \in 1..NameLen : p = sent + 1 \/ p \in 1..sent
    BY <1>1, <1>2
  <2>3. \A p \in 1..NameLen : [key EXCEPT ![sent + 1] = val][p] = request.spell[p]
    BY <1>2, <1>3, <2>1, <2>2
  <2>4. [key EXCEPT ![sent + 1] = val] = [p \in 1..NameLen |-> [key EXCEPT ![sent + 1] = val][p]]
    BY <2>1
  <2>5. request.spell = [p \in 1..NameLen |-> request.spell[p]]
    BY <1>3
  <2> QED BY <2>3, <2>4, <2>5
<1>7. TypeDataWrite(val)
  BY <1>1 DEF DataWrite, ReadDataWrite, WriteDataWrite, IndexDataWrite
<1>8. /\ data_len' = InfoLen /\ data_pos' = 0 /\ status' = DataReady
      /\ FillInfo(request.spell) /\ keys' = keys
  BY <1>1, <1>2, <1>5, <1>6, <1>7 DEF TypeDataWrite, keyVars
<1>9. Answering'
  BY <1>1, <1>4, <1>8, DeviceSizes DEF Answering, AllSent, AnswerLen
<1> QED BY <1>8, <1>9

(***************************************************************************)
(* The length byte of a read: the value of the key goes to the buffer.     *)
(***************************************************************************)
LEMMA SendReads ==
  ASSUME HostInv, Send, Spelling, request.op = "READ", sent = NameLen
  PROVE  /\ Answering' /\ data_pos' = 0 /\ data_len' = request.payload[1]
         /\ key = request.spell /\ FillData
<1> DEFINE val == Message(request)[sent + 1]
<1>1. /\ request \in Requests /\ cmd = request.op /\ DataWrite(val) /\ PortsTypeOK
      /\ request' = request /\ sent' = sent + 1 /\ sent \in Nat
      /\ read_pos = sent /\ data_pos = 0
  <2>1. read_pos = sent /\ data_pos = 0 /\ (request.op = "INDEX" => key_index = IndexBy[sent][request.spell])
    BY DEF Spelling
  <2> QED BY <2>1, SendAccess
<1>2. key = request.spell
  BY <1>1, NameIsSpelt
<1>3. /\ val = request.payload[1] /\ Len(Message(request)) = NameLen + 1
      /\ val \in 1..MaxDataLen
  <2>1. Len(request.payload) = 1 /\ request.payload[1] \in 1..MaxDataLen
    BY <1>1, RequestForm
  <2>2. Message(request)[NameLen + 1] = request.payload[1]
    BY <1>1, <2>1, MessageBytes
  <2>3. Len(Message(request)) = NameLen + 1
    BY <1>1, RequestSizes
  <2> QED BY <2>1, <2>2, <2>3
<1>4. ReadDataWrite(val)
  BY <1>1 DEF DataWrite, WriteDataWrite, IndexDataWrite, TypeDataWrite
<1> HIDE DEF val
<1>5. data_len' = val /\ data_pos' = 0 /\ status' = DataReady /\ FillData
  BY <1>1, <1>4, DeviceSizes DEF ReadDataWrite
<1>6. Answering'
  BY <1>1, <1>3, <1>5, HostAssumption, DeviceSizes DEF Answering, AllSent, AnswerLen
<1> QED BY <1>2, <1>3, <1>5, <1>6

(***************************************************************************)
(* The length byte of a write, and the bytes of the value but the last.    *)
(***************************************************************************)
LEMMA SendWrites ==
  ASSUME HostInv, Send, request.op = "WRITE", sent >= NameLen, sent + 1 < Len(Message(request))
  PROVE  Writing' /\ UNCHANGED <<keys, status_1e>>
<1> DEFINE val == Message(request)[sent + 1]
<1>1. /\ request \in Requests /\ cmd = request.op /\ DataWrite(val) /\ PortsTypeOK
      /\ request' = request /\ sent' = sent + 1 /\ sent \in Nat /\ received' = << >>
      /\ val \in Byte /\ read_pos = sent /\ (Spelling \/ Writing)
  <2>1. Spelling \/ Writing => read_pos = sent
    BY DEF Spelling, Writing
  <2> QED BY <2>1, SendAccess
<1>2. /\ Len(Message(request)) = NameLen + request.payload[1] + 1
      /\ Len(request.payload) = request.payload[1] + 1
      /\ Len(Message(request)) \in Nat /\ Len(Message(request)) <= PosMod /\ NameLen \in Nat
      /\ request.payload[1] \in Nat
  BY <1>1, RequestSizes, DeviceSizes
<1>3. sent + 1 \in (NameLen + 1)..(Len(Message(request)) - 1)
  BY <1>1, <1>2
<1>4. PosAfter = sent + 1
  BY <1>1, <1>2, <1>3, DeviceSizes, PosAfterIsPosition DEF PortsTypeOK
<1>5. WriteDataWrite(val)
  BY <1>1 DEF DataWrite, ReadDataWrite, IndexDataWrite, TypeDataWrite
<1>6. CASE sent = NameLen
  <2>1. Spelling
    BY <1>1, <1>2, <1>6 DEF Writing
  <2>2. key = request.spell
    BY <1>1, <1>6, <2>1, NameIsSpelt
  <2>3. val = request.payload[1]
    BY <1>1, <1>2, <1>6, MessageBytes
  <2> HIDE DEF val
  <2>4. /\ data_len' = val /\ data_pos' = 0 /\ status' = DataReady /\ read_pos' = sent + 1
        /\ UNCHANGED <<keys, key, status_1e>>
    BY <1>1, <1>2, <1>4, <1>5, <1>6 DEF WriteDataWrite
  <2>5. data_pos' = sent' - NameLen - 1 /\ \A p \in 1..data_pos' : FALSE
    BY <1>1, <1>2, <1>6, <2>4
  <2>6. sent' \in (NameLen + 1)..(Len(Message(request')) - 1) /\ read_pos' = sent'
        /\ data_len' = request'.payload[1] /\ key' = request'.spell /\ request'.op = "WRITE"
    BY <1>1, <1>3, <2>2, <2>3, <2>4
  <2> QED BY <1>1, <2>4, <2>5, <2>6 DEF Writing
<1>7. CASE sent # NameLen
  <2>1. /\ data_len = request.payload[1] /\ data_pos = sent - NameLen - 1 /\ key = request.spell
        /\ \A p \in 1..data_pos : value[p] = request.payload[p + 1]
        /\ sent > NameLen
    <3>1. sent > NameLen
      BY <1>1, <1>2, <1>7
    <3>2. Writing
      BY <1>1, <1>2, <3>1 DEF Spelling
    <3> QED BY <3>1, <3>2 DEF Writing
  <2>2. data_pos \in Nat /\ data_pos < data_len /\ data_pos + 1 # data_len
        /\ data_pos + 2 \in 1..Len(request.payload) /\ NameLen + (data_pos + 2) = sent + 1
    <3> DEFINE n == request.payload[1]
               m == Len(Message(request))
               l == Len(request.payload)
    <3>1. /\ n \in Nat /\ m = NameLen + n + 1 /\ l = n + 1 /\ NameLen \in Nat /\ sent \in Nat
          /\ sent + 1 < m /\ sent > NameLen /\ data_len = n /\ data_pos = sent - NameLen - 1
      BY <1>1, <1>2, <2>1
    <3> HIDE DEF n, m, l
    <3>2. data_pos \in Nat /\ data_pos < data_len /\ data_pos + 1 # data_len
          /\ data_pos + 2 \in 1..l /\ NameLen + (data_pos + 2) = sent + 1
      BY <3>1
    <3> QED BY <3>2 DEF l
  <2>3. val = request.payload[data_pos + 2]
    BY <1>1, <2>2, MessageBytes
  <2> HIDE DEF val
  <2>4. /\ data_pos' = data_pos + 1 /\ status' = DataReady /\ read_pos' = sent + 1
        /\ value' = [value EXCEPT ![data_pos + 1] = val]
        /\ UNCHANGED <<keys, key, status_1e, data_len>>
    <3>1. read_pos > NameLen /\ data_pos < data_len /\ data_pos + 1 # data_len /\ ~(data_pos >= data_len)
      BY <1>1, <1>2, <2>1, <2>2
    <3>2. /\ data_pos' = data_pos + 1 /\ status' = DataReady
          /\ value' = [value EXCEPT ![data_pos + 1] = val]
          /\ UNCHANGED <<keys, key, data_len>>
      BY <3>1, <1>5, <1>2, <1>1 DEF WriteDataWrite, LastByte
    <3>3. read_pos' = PosAfter /\ UNCHANGED status_1e
      BY <1>5 DEF WriteDataWrite
    <3> QED BY <1>4, <3>2, <3>3
  <2>5. \A p \in 1..(data_pos + 1) : value'[p] = request.payload[p + 1]
    <3> SUFFICES ASSUME NEW p \in 1..(data_pos + 1) PROVE value'[p] = request.payload[p + 1]
      OBVIOUS
    <3>1. value \in [1..ByteMax -> Byte] /\ data_pos + 1 \in 1..ByteMax /\ p \in 1..ByteMax
      <4>1. value \in [1..ByteMax -> Byte] /\ data_len \in Nat /\ data_len <= ByteMax /\ ByteMax \in Nat
        BY <1>1, PortNumbers, DeviceSizes DEF PortsTypeOK
      <4> QED BY <2>2, <4>1
    <3>2. value'[p] = IF p = data_pos + 1 THEN val ELSE value[p]
      BY <2>4, <3>1
    <3>3. p = data_pos + 1 \/ p \in 1..data_pos
      BY <2>2
    <3>4. p = data_pos + 1 => p + 1 = data_pos + 2
      BY <2>2
    <3> QED BY <2>1, <2>3, <3>2, <3>3, <3>4
  <2>6. data_pos' = (sent + 1) - NameLen - 1
    BY <1>1, <1>2, <2>1, <2>4
  <2>7. sent' \in (NameLen + 1)..(Len(Message(request')) - 1) /\ read_pos' = sent'
        /\ data_len' = request'.payload[1] /\ key' = request'.spell /\ request'.op = "WRITE"
        /\ data_pos' = sent' - NameLen - 1
    BY <1>1, <1>3, <2>1, <2>4, <2>6
  <2> QED BY <1>1, <2>4, <2>5, <2>7 DEF Writing
<1> QED BY <1>6, <1>7

(***************************************************************************)
(* The last byte of a write stores the bytes of the request.               *)
(***************************************************************************)
LEMMA SendStores ==
  ASSUME HostInv, Send, request.op = "WRITE", sent + 1 = Len(Message(request))
  PROVE  /\ Answering' /\ status_1e' = status_1e /\ key = request.spell
         /\ data_len = request.payload[1] /\ data_len \in 1..ByteMax
         /\ \E buf \in [1..ByteMax -> Byte] :
              StoreValue(buf) /\ \A p \in 1..data_len : buf[p] = request.payload[p + 1]
<1> DEFINE val == Message(request)[sent + 1]
<1>1. /\ request \in Requests /\ cmd = request.op /\ DataWrite(val) /\ PortsTypeOK
      /\ request' = request /\ sent' = sent + 1 /\ sent \in Nat /\ received' = << >>
      /\ val \in Byte /\ (Spelling \/ Writing)
  <2>1. Spelling \/ Writing => read_pos = sent
    BY DEF Spelling, Writing
  <2> QED BY <2>1, SendAccess
<1>2. /\ Len(Message(request)) = NameLen + request.payload[1] + 1
      /\ Len(request.payload) = request.payload[1] + 1
      /\ NameLen \in Nat /\ request.payload[1] \in Nat /\ request.payload[1] > 0
  BY <1>1, RequestSizes, DeviceSizes
<1>3. sent > NameLen
  BY <1>1, <1>2
<1>4. /\ data_len = request.payload[1] /\ data_pos = sent - NameLen - 1 /\ key = request.spell
      /\ \A p \in 1..data_pos : value[p] = request.payload[p + 1]
      /\ read_pos = sent
  BY <1>1, <1>2, <1>3 DEF Writing, Spelling
<1>5. data_pos \in Nat /\ data_pos < data_len /\ data_pos + 1 = data_len
      /\ data_pos + 2 \in 1..Len(request.payload) /\ NameLen + (data_pos + 2) = sent + 1
  BY <1>1, <1>2, <1>3, <1>4
<1>6. val = request.payload[data_pos + 2]
  BY <1>1, <1>5, MessageBytes
<1>7. WriteDataWrite(val)
  BY <1>1 DEF DataWrite, ReadDataWrite, IndexDataWrite, TypeDataWrite
<1> HIDE DEF val
<1> DEFINE buf == [value EXCEPT ![data_pos + 1] = val]
<1>8. StoreValue(buf) /\ status_1e' = status_1e
  BY <1>1, <1>2, <1>3, <1>4, <1>5, <1>7 DEF WriteDataWrite, LastByte
<1>9. value \in [1..ByteMax -> Byte] /\ data_len \in 1..ByteMax /\ data_pos + 1 \in 1..ByteMax
  BY <1>1, <1>5, PortNumbers, DeviceSizes DEF PortsTypeOK
<1>10. buf \in [1..ByteMax -> Byte]
  BY <1>1, <1>9
<1>11. \A p \in 1..data_len : buf[p] = request.payload[p + 1]
  <2> SUFFICES ASSUME NEW p \in 1..data_len PROVE buf[p] = request.payload[p + 1]
    OBVIOUS
  <2>1. p \in 1..ByteMax /\ (p = data_pos + 1 \/ p \in 1..data_pos)
        /\ (p = data_pos + 1 => p + 1 = data_pos + 2)
    BY <1>5, <1>9, DeviceSizes
  <2>2. buf[p] = IF p = data_pos + 1 THEN val ELSE value[p]
    BY <1>9, <2>1
  <2> QED BY <1>4, <1>6, <2>1, <2>2
<1>12. Answering'
  BY <1>1, <1>8 DEF Answering, AllSent, StoreValue
<1> QED BY <1>4, <1>8, <1>9, <1>10, <1>11, <1>12

-----------------------------------------------------------------------------
(* Steps of the host *)

LEMMA SendStep ==
  ASSUME HostInv, Send
  PROVE  HostInv' /\ (sent' # Len(Message(request)) => UNCHANGED <<keys, status_1e>>)
<1>1. /\ request \in Requests /\ cmd' = cmd /\ cmd = request.op /\ request' = request
      /\ (Spelling \/ Writing)
      /\ sent \in Nat /\ sent < Len(Message(request)) /\ sent' = sent + 1
      /\ received' = << >> /\ DeviceInv'
  BY SendAccess
<1>2. /\ request.op \in {"READ", "WRITE", "INDEX", "TYPE"}
      /\ request.op = "READ" => Len(Message(request)) = NameLen + 1
      /\ request.op \in {"INDEX", "TYPE"} => Len(Message(request)) = NameLen
      /\ request.op = "WRITE" => Len(Message(request)) > NameLen + 1
      /\ NameLen \in Nat /\ Len(Message(request)) \in Nat
  <2>1. request.op = "WRITE" => Len(Message(request)) > NameLen + 1
    <3> SUFFICES ASSUME request.op = "WRITE" PROVE Len(Message(request)) > NameLen + 1
      OBVIOUS
    <3> DEFINE n == request.payload[1]
    <3>1. n \in Nat /\ n # 0 /\ Len(Message(request)) = NameLen + n + 1 /\ NameLen \in Nat
      BY <1>1, RequestSizes
    <3> HIDE DEF n
    <3> QED BY <3>1
  <2> QED BY <1>1, <2>1, RequestSizes
<1>3. << >> \in Seq(Byte)
  BY EmptySeq
<1>4. CASE sent + 1 < Len(Message(request))
  <2>1. CASE sent < NameLen
    <3>1. Spelling
      BY <1>1, <1>2, <2>1 DEF Writing
    <3>2. Spelling' /\ UNCHANGED <<keys, status_1e>>
      BY <1>4, <2>1, <3>1, SendSpells
    <3> QED BY <1>1, <1>3, <3>2 DEF HostInv, InStep
  <2>2. CASE ~(sent < NameLen)
    <3>1. request.op = "WRITE"
      BY <1>1, <1>2, <1>4, <2>2
    <3>2. Writing' /\ UNCHANGED <<keys, status_1e>>
      BY <1>1, <1>2, <1>4, <2>2, <3>1, SendWrites
    <3> QED BY <1>1, <1>3, <3>2 DEF HostInv, InStep
  <2> QED BY <2>1, <2>2
<1>5. CASE sent + 1 = Len(Message(request))
  <2>1. request.op # "WRITE" => Spelling
    BY <1>1 DEF Writing
  <2>2. CASE request.op \in {"INDEX", "TYPE"}
    <3>1. Spelling /\ sent + 1 = NameLen
      BY <1>2, <1>5, <2>1, <2>2
    <3>2. Answering'
      BY <2>2, <3>1, SendLooksUp, SendAsksType
    <3> QED BY <1>1, <1>3, <1>5, <3>2 DEF HostInv, InStep
  <2>3. CASE request.op = "READ"
    <3>1. Spelling /\ sent = NameLen
      BY <1>1, <1>2, <1>5, <2>1, <2>3
    <3>2. Answering'
      BY <2>3, <3>1, SendReads
    <3> QED BY <1>1, <1>3, <1>5, <3>2 DEF HostInv, InStep
  <2>4. CASE request.op = "WRITE"
    <3>1. Answering'
      BY <1>5, <2>4, SendStores
    <3> QED BY <1>1, <1>3, <1>5, <3>1 DEF HostInv, InStep
  <2> QED BY <1>2, <2>2, <2>3, <2>4
<1> QED BY <1>1, <1>2, <1>4, <1>5

LEMMA AskStep ==
  ASSUME HostInv, NEW q \in Requests, Ask(q)
  PROVE  HostInv' /\ keys' = keys /\ status_1e' = status_1e
<1>1. q.op \in Cmd /\ q.op # OtherCmd /\ q.spell \in Name
  BY RequestForm
<1>2. CmdWrite(q.op) /\ request' = q /\ sent' = 0 /\ received' = << >>
  BY DEF Ask
<1>3. DeviceInv'
  BY <1>1, <1>2, AccessStep DEF HostInv
<1>4. cmd' = q.op /\ status' = CmdAccepted /\ read_pos' = 0 /\ data_pos' = 0 /\ key_index' = 0
      /\ keys' = keys /\ status_1e' = status_1e
  BY <1>1, <1>2 DEF CmdWrite, CmdStatus, keyVars
<1>5. 0 \in 0..NameLen /\ 0 < Len(Message(q)) /\ 1..0 = {}
  BY MessageBytes, DeviceSizes, RequestForm, LenProperties
<1>6. Spelling'
  BY <1>1, <1>2, <1>4, <1>5, IndexByBytes DEF Spelling
<1>7. << >> \in Seq(Byte)
  BY EmptySeq
<1> QED BY <1>2, <1>3, <1>4, <1>6, <1>7 DEF HostInv, InStep

(***************************************************************************)
(* A byte read: it is the next of the answer, and the rest stays.          *)
(***************************************************************************)
LEMMA ReceiveStep ==
  ASSUME HostInv, Receive
  PROVE  /\ HostInv' /\ keys' = keys /\ sent' = sent /\ request' = request
         /\ status_1e' = status_1e /\ outcome' = outcome
         /\ request \in Requests /\ Answering /\ Answering'
         /\ \E b \in Byte : DataRead(b) /\ received' = Append(received, b)
<1>1. /\ request # NoRequest /\ AllSent /\ status = DataReady
      /\ request' = request /\ sent' = sent /\ outcome' = outcome
  BY DEF Receive
<1>2. PICK b \in Byte : DataRead(b) /\ received' = Append(received, b)
  BY DEF Receive
<1>3. request \in Requests /\ cmd = request.op /\ PortsTypeOK
  BY <1>1, TypeParts DEF HostInv, DeviceInv, InStep
<1>4. Answering
  <2>1. Len(Message(request)) \in Nat
    BY <1>3, MessageBytes
  <2> QED BY <1>1, <2>1 DEF HostInv, InStep, Spelling, Writing, AllSent
<1>5. request.op # "WRITE" /\ data_pos < AnswerLen /\ (request.op = "TYPE" => data_len = InfoLen)
  BY <1>1, <1>4 DEF Answering, DataReady, Done
<1>6. /\ data_pos \in Nat /\ data_len \in Nat /\ AnswerLen \in Nat
  BY <1>3, PortNumbers, DeviceSizes DEF AnswerLen
<1>7. received' \in Seq(Byte)
  BY <1>2, AppendProperties DEF HostInv
<1>8. DeviceInv'
  BY <1>2, AccessStep DEF HostInv
<1>9. UNCHANGED <<keyVars, nvram, status_1e, cmd, data_len>>
  BY <1>2 DEF DataRead, ReadDataRead, WriteDataRead, IndexDataRead, TypeDataRead, bufVars
<1>10. /\ data_pos' = data_pos + 1
       /\ status' = IF data_pos + 1 = AnswerLen THEN Done ELSE DataReady
  <2>1. CASE ReadDataRead(b)
    BY <1>3, <1>5, <2>1 DEF ReadDataRead, Advance, LastByte, AnswerLen
  <2>2. CASE IndexDataRead(b)
    BY <1>1, <1>3, <1>5, <2>2 DEF IndexDataRead, AnswerLen, DataReady, Done
  <2>3. CASE TypeDataRead(b)
    BY <1>3, <1>5, <2>3 DEF TypeDataRead, Advance, LastByte, AnswerLen
  <2> QED BY <1>2, <1>3, <1>5, <2>1, <2>2, <2>3 DEF DataRead, WriteDataRead
<1>11. Answering'
  <2>1. AnswerLen' = AnswerLen
    BY <1>1, <1>9 DEF AnswerLen
  <2>2. AllSent' /\ request'.op # "WRITE" /\ (request'.op = "TYPE" => data_len' = InfoLen)
    BY <1>1, <1>5, <1>9 DEF AllSent
  <2>3. \/ status' = DataReady /\ data_pos' < AnswerLen'
        \/ status' = Done /\ data_pos' = AnswerLen'
    BY <1>5, <1>6, <1>10, <2>1
  <2> QED BY <2>2, <2>3 DEF Answering
<1>12. HostInv'
  BY <1>1, <1>3, <1>7, <1>8, <1>9, <1>11 DEF HostInv, InStep
<1> QED BY <1>1, <1>2, <1>3, <1>4, <1>9, <1>11, <1>12 DEF keyVars

LEMMA FinishStep ==
  ASSUME HostInv, Finish
  PROVE  HostInv' /\ keys' = keys
<1>1. request' = NoRequest /\ sent' = 0 /\ received' = << >> /\ ErrorRead(status_1e)
  BY DEF Finish
<1>2. DeviceInv' /\ keys' = keys
  BY <1>1, AccessStep DEF HostInv, ErrorRead, keyVars
<1>3. << >> \in Seq(Byte)
  BY EmptySeq
<1> QED BY <1>1, <1>2, <1>3 DEF HostInv, InStep

LEMMA PluginsStep ==
  ASSUME HostInv, PluginStep, UNCHANGED hostVars
  PROVE  HostInv' /\ Extends(keys, keys')
<1>1. DeviceInv' /\ Extends(keys, keys')
  BY AccessStep DEF HostInv
<1>2. UNCHANGED <<portVars, hostVars>>
  BY DEF PluginStep
<1> QED BY <1>1, <1>2 DEF HostInv, InStep, Spelling, Writing, Answering, AnswerLen, AllSent,
           portVars, cmdVars, bufVars, hostVars

LEMMA HostInitInv == HostInit => HostInv
<1>1. << >> \in Seq(Byte)
  BY EmptySeq
<1> QED BY <1>1, DeviceInitInv DEF HostInit, HostInv, InStep

LEMMA HostStutters ==
  ASSUME HostInv, UNCHANGED allVars
  PROVE  HostInv'
<1>1. DeviceInv'
  BY DEF allVars, vars, keyVars, portVars, cmdVars, bufVars, HostInv, DeviceInv, TypeOK,
     NvramNamesAKey
<1>2. UNCHANGED <<portVars, hostVars>>
  BY DEF allVars, vars
<1> QED BY <1>1, <1>2 DEF HostInv, InStep, Spelling, Writing, Answering, AnswerLen, AllSent,
           portVars, cmdVars, bufVars, hostVars

(***************************************************************************)
(* Host and device agree on where a request stands, wherever the last one  *)
(* was given up.                                                           *)
(***************************************************************************)
THEOREM HostInvariant == HostSpec => []HostInv
<1>1. HostInv /\ [HostNext]_allVars => HostInv'
  BY SendStep, AskStep, ReceiveStep, FinishStep, PluginsStep, HostStutters DEF HostNext, Access
<1> QED BY <1>1, HostInitInv, PTL DEF HostSpec

(***************************************************************************)
(* A host that waits for "data ready" reads within the bytes of the answer.*)
(***************************************************************************)
THEOREM ReadsStayWithin == HostSpec => []ReadsWithinBuffers
<1>1. HostInv => ReadsWithinBuffers
  <2> SUFFICES ASSUME HostInv, request # NoRequest, AllSent, status = DataReady
               PROVE  data_pos < (CASE cmd = "INDEX" -> NameLen [] cmd = "TYPE" -> InfoLen
                                    [] OTHER -> data_len)
    BY DEF ReadsWithinBuffers
  <2>1. request \in Requests /\ cmd = request.op
    BY DEF HostInv, InStep
  <2>2. Answering
    <3>1. Len(Message(request)) \in Nat
      BY <2>1, MessageBytes
    <3> QED BY <3>1 DEF HostInv, InStep, Spelling, Writing, AllSent
  <2>3. data_pos < AnswerLen
    BY <2>2 DEF Answering, DataReady, Done
  <2> QED BY <2>1, <2>3 DEF AnswerLen
<1> QED BY <1>1, HostInvariant, PTL

(***************************************************************************)
(* A request acts on the keys in the access that sends its last byte.      *)
(***************************************************************************)
THEOREM RequestsActAtOnce == HostSpec => RequestsActOnce
<1>1. HostInv /\ [HostNext]_allVars =>
        [(keys' # keys /\ sent' # sent) => sent' = Len(Message(request))]_allVars
  <2> SUFFICES ASSUME HostInv, HostNext, keys' # keys, sent' # sent
               PROVE  sent' = Len(Message(request))
    OBVIOUS
  <2>1. UNCHANGED hostVars => sent' = sent
    BY DEF hostVars
  <2> QED BY <2>1, SendStep, AskStep, ReceiveStep, FinishStep DEF HostNext, Access
<1> QED BY <1>1, HostInvariant, PTL DEF HostSpec, RequestsActOnce

-----------------------------------------------------------------------------
(* The service behind the ports: the list of keys *)

LEMMA EntryFields ==
  ASSUME NEW k
  PROVE  /\ EntryOf(k).name = k.name /\ EntryOf(k).type = k.type /\ EntryOf(k).value = k.value
         /\ EntryOf(k).served <=> k.handler # NoHandler
<1>1. EntryOf(k).name = k.name /\ EntryOf(k).type = k.type /\ EntryOf(k).value = k.value
  BY DEF EntryOf
<1>2. EntryOf(k).served = (k.handler # NoHandler)
  BY DEF EntryOf
<1> QED BY <1>1, <1>2

LEMMA EntriesAre ==
  ASSUME NEW ks \in Seq(Key)
  PROVE  /\ DOMAIN EntriesOf(ks) = 1..Len(ks) /\ Len(EntriesOf(ks)) = Len(ks) /\ Len(ks) \in Nat
         /\ DOMAIN ks = 1..Len(ks)
         /\ \A i \in 1..Len(ks) : EntriesOf(ks)[i] = EntryOf(ks[i]) /\ ks[i] \in Key
<1>1. DOMAIN ks = 1..Len(ks) /\ Len(ks) \in Nat /\ \A i \in 1..Len(ks) : ks[i] \in Key
  BY LenProperties, ElementOfSeq
<1> QED BY <1>1 DEF EntriesOf

(***************************************************************************)
(* The service knows the names the store has, at their places.             *)
(***************************************************************************)
LEMMA ServiceKnows ==
  ASSUME keys \in Seq(Key), NEW n
  PROVE  /\ Service!Known(n) <=> HasKey(n)
         /\ HasKey(n) => Service!Entry(n) = IndexOf(n)
<1>1. /\ DOMAIN EntriesOf(keys) = DOMAIN keys /\ DOMAIN keys = 1..Len(keys) /\ Len(keys) \in Nat
      /\ \A i \in DOMAIN keys : EntriesOf(keys)[i].name = keys[i].name
  BY EntriesAre, EntryFields
<1>2. Service!Known(n) <=> HasKey(n)
  BY <1>1 DEF Service!Known, HasKey
<1>3. ASSUME HasKey(n) PROVE Service!Entry(n) = IndexOf(n)
  <2> DEFINE e == Service!Entry(n)
             i == IndexOf(n)
  <2>1. i \in DOMAIN keys /\ keys[i].name = n /\ \A j \in 1..(i - 1) : keys[j].name # n
    BY <1>3, IndexOfFound
  <2> HIDE DEF i
  <2>2. \A j \in 1..(i - 1) : j \in DOMAIN keys
    BY <1>1, <2>1
  <2>3. i \in DOMAIN EntriesOf(keys) /\ EntriesOf(keys)[i].name = n
        /\ \A j \in 1..(i - 1) : EntriesOf(keys)[j].name # n
    BY <1>1, <2>1, <2>2
  <2>4. e \in DOMAIN EntriesOf(keys) /\ EntriesOf(keys)[e].name = n
        /\ \A j \in 1..(e - 1) : EntriesOf(keys)[j].name # n
    BY <2>3 DEF Service!Entry
  <2> HIDE DEF e
  <2>5. e \in Nat /\ i \in Nat /\ e >= 1 /\ i >= 1
    BY <1>1, <2>1, <2>4
  <2>6. ~(e < i) /\ ~(i < e)
    <3>1. e < i => e \in 1..(i - 1)
      BY <2>5
    <3>2. i < e => i \in 1..(e - 1)
      BY <2>5
    <3> QED BY <2>3, <2>4, <3>1, <3>2
  <2>7. e = i
    BY <2>5, <2>6
  <2> QED BY <2>7 DEF e, i
<1> QED BY <1>2, <1>3

(***************************************************************************)
(* A key given another value is an entry given another value.              *)
(***************************************************************************)
Follows(ks, i, v) ==
  /\ [ks EXCEPT ![i].value = v] \in Seq(Key)
  /\ EntriesOf([ks EXCEPT ![i].value = v]) = [EntriesOf(ks) EXCEPT ![i].value = v]

LEMMA EntriesExcept ==
  ASSUME NEW ks \in Seq(Key), NEW i \in DOMAIN ks, NEW v \in Value
  PROVE  Follows(ks, i, v)
<1> DEFINE kt == [ks EXCEPT ![i].value = v]
           es == EntriesOf(ks)
           et == EntriesOf(kt)
<1>1. /\ kt \in Seq(Key) /\ Len(kt) = Len(ks)
      /\ \A j \in 1..Len(ks) : /\ kt[j].name = ks[j].name /\ kt[j].type = ks[j].type
                               /\ kt[j].handler = ks[j].handler
                               /\ kt[j].value = IF j = i THEN v ELSE ks[j].value
  BY NewValueIsKey
<1> HIDE DEF kt
<1>2. /\ DOMAIN es = 1..Len(ks) /\ DOMAIN et = 1..Len(ks) /\ i \in 1..Len(ks)
      /\ \A j \in 1..Len(ks) : es[j] = EntryOf(ks[j]) /\ et[j] = EntryOf(kt[j])
  BY <1>1, EntriesAre
<1>3. es = [j \in 1..Len(ks) |-> es[j]] /\ et = [j \in 1..Len(ks) |-> et[j]]
  BY <1>2 DEF EntriesOf
<1> HIDE DEF es, et
<1>4. ASSUME NEW j \in 1..Len(ks) PROVE et[j] = [es EXCEPT ![i].value = v][j]
  <2>1. [es EXCEPT ![i].value = v][j] = IF j = i THEN [es[j] EXCEPT !.value = v] ELSE es[j]
    BY <1>2, <1>3
  <2>2. et[j] = [name |-> ks[j].name, type |-> ks[j].type,
                 value |-> IF j = i THEN v ELSE ks[j].value, served |-> ks[j].handler # NoHandler]
    BY <1>1, <1>2 DEF EntryOf
  <2>3. es[j] = [name |-> ks[j].name, type |-> ks[j].type,
                 value |-> ks[j].value, served |-> ks[j].handler # NoHandler]
    BY <1>2 DEF EntryOf
  <2> QED BY <2>1, <2>2, <2>3
<1>5. [es EXCEPT ![i].value = v] = [j \in 1..Len(ks) |-> [es EXCEPT ![i].value = v][j]]
  BY <1>2
<1>6. et = [es EXCEPT ![i].value = v]
  BY <1>3, <1>4, <1>5
<1> QED BY <1>1, <1>6 DEF et, es, kt, Follows

(***************************************************************************)
(* A value read into a key is one its entry may be measured at.            *)
(***************************************************************************)
LEMMA EntriesMeasured ==
  ASSUME NEW ks \in Seq(Key), NEW i \in DOMAIN ks, NEW v \in Readings(ks[i]),
         keys' = [ks EXCEPT ![i].value = v]
  PROVE  Service!Measured(EntriesOf(ks), i) /\ EntriesOf(keys')[i].value = v
<1>1. /\ DOMAIN EntriesOf(ks) = 1..Len(ks) /\ i \in 1..Len(ks) /\ ks[i] \in Key
      /\ EntriesOf(ks)[i] = EntryOf(ks[i])
  BY EntriesAre
<1>2. v \in Value /\ Len(v) = Len(ks[i].value) /\ (ks[i].handler = NoHandler => v = ks[i].value)
  BY <1>1, ReadingsAreValues
<1>3. EntriesOf(keys') = [EntriesOf(ks) EXCEPT ![i].value = v]
  <2>1. Follows(ks, i, v)
    BY <1>2, EntriesExcept
  <2> QED BY <2>1 DEF Follows
<1> DEFINE es == EntriesOf(ks)
<1>4. DOMAIN EntriesOf(keys') = DOMAIN es
  BY <1>3
<1>5. EntriesOf(keys')[i].value = v /\ es[i].value = ks[i].value
      /\ (es[i].served <=> ks[i].handler # NoHandler)
  <2>1. EntriesOf(keys')[i] = [es[i] EXCEPT !.value = v]
    BY <1>1, <1>3
  <2>2. EntriesOf(keys')[i].value = v
    <3>1. "value" \in DOMAIN es[i]
      BY <1>1 DEF EntryOf
    <3> QED BY <2>1, <3>1
  <2> QED BY <1>1, <2>2, EntryFields
<1> HIDE DEF es
<1>6. EntriesOf(keys') = [es EXCEPT ![i].value = EntriesOf(keys')[i].value]
  BY <1>3, <1>5 DEF es
<1>7. Len(EntriesOf(keys')[i].value) = Len(es[i].value)
      /\ (es[i].served \/ EntriesOf(keys')[i].value = es[i].value)
  BY <1>2, <1>5
<1>8. EntriesOf(keys)' = EntriesOf(keys')
  BY DEF EntriesOf, EntryOf
<1>9. Service!Measured(es, i)
  BY <1>4, <1>6, <1>7, <1>8 DEF Service!Measured
<1> QED BY <1>5, <1>9 DEF es

(***************************************************************************)
(* A key added to the list is an entry added, and #KEY counts it.          *)
(***************************************************************************)
LEMMA EntriesPushed ==
  ASSUME keys \in Seq(Key), Len(keys) > 0, NEW k \in Key
  PROVE  /\ PushKey(k) \in Seq(Key)
         /\ EntriesOf(PushKey(k)) = [Append(EntriesOf(keys), EntryOf(k))
                                       EXCEPT ![1].value = SharpValue(Len(keys) + 1)]
         /\ Len(EntriesOf(PushKey(k))) = Len(keys) + 1
<1> DEFINE kt == Append(keys, k)
<1>1. kt \in Seq(Key) /\ Len(kt) = Len(keys) + 1 /\ Len(keys) \in Nat
      /\ kt[Len(keys) + 1] = k /\ \A j \in 1..Len(keys) : kt[j] = keys[j]
  BY AppendProperties, LenProperties
<1>2. 1 \in DOMAIN kt /\ SharpValue(Len(keys) + 1) \in Value
  BY <1>1, SharpValueIsValue
<1> HIDE DEF kt
<1>3. /\ [kt EXCEPT ![1].value = SharpValue(Len(keys) + 1)] \in Seq(Key)
      /\ EntriesOf([kt EXCEPT ![1].value = SharpValue(Len(keys) + 1)]) =
           [EntriesOf(kt) EXCEPT ![1].value = SharpValue(Len(keys) + 1)]
  <2>1. Follows(kt, 1, SharpValue(Len(keys) + 1))
    BY <1>1, <1>2, EntriesExcept
  <2> QED BY <2>1 DEF Follows
<1>4. PushKey(k) = [kt EXCEPT ![1].value = SharpValue(Len(keys) + 1)]
  BY DEF PushKey, kt
<1>5. EntriesOf(kt) = Append(EntriesOf(keys), EntryOf(k))
  <2> DEFINE S == {EntryOf(j) : j \in Key}
             s == EntriesOf(kt)
             t == Append(EntriesOf(keys), EntryOf(k))
  <2>1. /\ DOMAIN EntriesOf(keys) = 1..Len(keys) /\ Len(EntriesOf(keys)) = Len(keys)
        /\ \A i \in 1..Len(keys) : EntriesOf(keys)[i] = EntryOf(keys[i]) /\ keys[i] \in Key
    BY EntriesAre
  <2>2. /\ DOMAIN s = 1..(Len(keys) + 1) /\ Len(s) = Len(keys) + 1
        /\ \A i \in 1..(Len(keys) + 1) : s[i] = EntryOf(kt[i]) /\ kt[i] \in Key
    BY <1>1, EntriesAre
  <2>3. EntriesOf(keys) = [i \in 1..Len(keys) |-> EntriesOf(keys)[i]]
        /\ s = [i \in 1..(Len(keys) + 1) |-> s[i]]
    BY <2>1, <2>2 DEF EntriesOf
  <2>4. EntriesOf(keys) \in Seq(S) /\ EntryOf(k) \in S /\ s \in Seq(S)
    <3>1. EntriesOf(keys) \in [1..Len(keys) -> S] /\ s \in [1..(Len(keys) + 1) -> S]
      BY <2>1, <2>2, <2>3
    <3>2. Len(keys) \in Nat /\ Len(keys) + 1 \in Nat
      BY <1>1
    <3> QED BY <3>1, <3>2, FunctionIsSeq
  <2> HIDE DEF S, s
  <2>5. /\ t \in Seq(S) /\ Len(t) = Len(keys) + 1 /\ t[Len(keys) + 1] = EntryOf(k)
        /\ \A i \in 1..Len(keys) : t[i] = EntriesOf(keys)[i]
    BY <2>1, <2>4, AppendProperties
  <2> HIDE DEF t
  <2>6. ASSUME NEW i \in 1..(Len(keys) + 1) PROVE s[i] = t[i]
    <3>1. i \in 1..Len(keys) \/ i = Len(keys) + 1
      BY <1>1
    <3> QED BY <1>1, <2>1, <2>2, <2>5, <3>1
  <2>7. s = t
    BY <2>2, <2>4, <2>5, <2>6, SeqEqual
  <2> QED BY <2>7 DEF s, t
<1>6. Len(EntriesOf(PushKey(k))) = Len(keys) + 1
  BY EntriesAre, PushKeyPushes
<1> QED BY <1>3, <1>4, <1>5, <1>6

(***************************************************************************)
(* What is saved to NVRAM was read back: a key shows a value it may.       *)
(***************************************************************************)
LEMMA SavedIsRead ==
  ASSUME NEW ks \in Seq(Key), NEW i \in DOMAIN ks, SaveKeyToNVRAM(ks, i)
  PROVE  \E v \in Readings(ks[i]) : keys' = [ks EXCEPT ![i].value = v]
<1>1. CASE HasNvram
  BY <1>1 DEF SaveKeyToNVRAM
<1>2. CASE ~HasNvram
  <2>1. keys' = ks /\ ks[i].value \in Readings(ks[i])
    BY <1>2 DEF SaveKeyToNVRAM, Readings
  <2>2. ks[i] \in Key /\ ks = [j \in DOMAIN ks |-> ks[j]]
    BY EntriesAre
  <2>3. [ks EXCEPT ![i].value = ks[i].value] = ks
    <3>1. [ks[i] EXCEPT !.value = ks[i].value] = ks[i]
      BY <2>2 DEF Key
    <3> QED BY <2>2, <3>1
  <2> QED BY <2>1, <2>3
<1> QED BY <1>1, <1>2

-----------------------------------------------------------------------------
(* The service behind the ports: carrying out a request *)

\* A reply that carries d, unless a failure is latched.
Carries(d) ==
  Reply' = IF status_1e' # NoError THEN [ok |-> FALSE, data |-> << >>]
                                   ELSE [ok |-> TRUE, data |-> d]

(***************************************************************************)
(* The reply to a request all of whose bytes were sent.                    *)
(***************************************************************************)
LEMMA ReplyIs ==
  ASSUME HostInv, Send, sent' = Len(Message(request)), NEW d, d \in Seq(Byte), Rest' = d
  PROVE  Carries(d)
<1>1. request \in Requests /\ request # NoRequest /\ request' = request /\ received' = << >>
  BY SendAccess, RequestForm
<1>2. Answered'
  BY <1>1 DEF Answered, AllSent
<1>3. << >> \o d = d
  BY ConcatEmptySeq
<1> QED BY <1>1, <1>2, <1>3 DEF Reply, Carries

(***************************************************************************)
(* The first bytes of a buffer.                                            *)
(***************************************************************************)
LEMMA FirstBytes ==
  ASSUME NEW n \in Nat, NEW m \in 1..n, NEW s \in [1..n -> Byte]
  PROVE  /\ SubSeq(s, 1, m) \in Seq(Byte) /\ Len(SubSeq(s, 1, m)) = m
         /\ \A p \in 1..m : SubSeq(s, 1, m)[p] = s[p]
<1>1. \A i \in 1..m : s[i] \in Byte
  OBVIOUS
<1>2. m \in Int /\ 1 \in Int /\ m - 1 + 1 = m /\ 1 <= m /\ \A p \in 1..m : 1 + p - 1 = p
  OBVIOUS
<1> DEFINE d == SubSeq(s, 1, m)
<1>3. /\ d \in Seq(Byte) /\ Len(d) = (IF 1 <= m THEN m - 1 + 1 ELSE 0)
      /\ \A p \in 1..(m - 1 + 1) : d[p] = s[1 + p - 1]
  BY <1>1, <1>2, SubSeqProperties
<1> HIDE DEF d
<1>4. d \in Seq(Byte) /\ Len(d) = m /\ \A p \in 1..m : d[p] = s[p]
  BY <1>2, <1>3
<1> QED BY <1>4 DEF d

(***************************************************************************)
(* A read: bytes of one value the key had, or a failure.                   *)
(***************************************************************************)
LEMMA ActRead ==
  ASSUME HostInv, Send, Spelling, request.op = "READ", sent = NameLen
  PROVE  Service!Read
<1>1. /\ data_pos' = 0 /\ data_len' = request.payload[1] /\ key = request.spell /\ FillData
  BY SendReads
<1>2. /\ request \in Requests /\ request' = request /\ keys \in Seq(Key) /\ DeviceInv'
      /\ sent' = sent + 1
  BY SendAccess
<1>3. sent' = Len(Message(request))
  BY <1>2, RequestSizes
<1>4. /\ value' \in [1..ByteMax -> Byte] /\ data_len' \in 1..ByteMax /\ ByteMax \in Nat
  <2>1. data_len' \in 1..MaxDataLen
    BY <1>1, <1>2, RequestForm
  <2> QED BY <1>2, <2>1, HostAssumption, DeviceSizes DEF DeviceInv, TypeOK
<1> DEFINE d == SubSeq(value', 1, data_len')
<1>5. d \in Seq(Byte) /\ Len(d) = data_len' /\ \A p \in 1..data_len' : d[p] = value'[p]
  BY <1>4, FirstBytes
<1> HIDE DEF d
<1>6. Carries(d)
  <2>1. Rest' = d
    <3>1. Rest' = SubSeq(value', data_pos' + 1, data_len')
      BY <1>2 DEF Rest
    <3>2. data_pos' + 1 = 1
      BY <1>1
    <3> QED BY <3>1, <3>2 DEF d
  <2> QED BY <1>3, <1>5, <2>1, ReplyIs
<1>7. /\ Service!Known(request.spell) <=> HasKey(key)
      /\ HasKey(key) => Service!Entry(request.spell) = IndexOf(key)
  BY <1>1, <1>2, ServiceKnows
<1>8. CASE HasKey(key)
  <2> DEFINE i == IndexOf(key)
  <2>1. i \in DOMAIN keys
    BY <1>2, <1>8, IndexOfFound
  <2>2. PICK v \in Readings(keys[i]) :
          /\ keys' = [keys EXCEPT ![i].value = v]
          /\ value' = [p \in DOMAIN value |-> IF p <= Len(v) THEN v[p] ELSE value[p]]
    BY <1>1, <1>8 DEF FillData
  <2>3. status_1e' = status_1e
    BY <1>1, <1>8 DEF FillData, Report
  <2> HIDE DEF i
  <2>4. Service!Measured(EntriesOf(keys), i) /\ EntriesOf(keys')[i].value = v
    BY <1>2, <2>1, <2>2, EntriesMeasured
  <2>5. EntriesOf(keys)' = EntriesOf(keys')
    BY DEF EntriesOf, EntryOf
  <2>6. Service!Agrees(d, request.payload[1], v)
    <3>1. \A p \in 1..data_len' : p <= Len(v) => value'[p] = v[p]
      <4>1. DOMAIN value = 1..ByteMax
        BY TypeParts DEF HostInv, DeviceInv, PortsTypeOK
      <4>2. \A p \in 1..data_len' : p \in 1..ByteMax
        BY <1>4
      <4> QED BY <2>2, <4>1, <4>2
    <3> QED BY <1>1, <1>5, <3>1 DEF Service!Agrees
  <2>7. CASE status_1e # NoError
    <3>1. Reply' = Service!Failure
      BY <1>6, <2>3, <2>7 DEF Carries, Service!Failure
    <3> QED BY <1>7, <1>8, <2>3, <2>4, <2>7, <3>1 DEF Service!Read, i
  <2>8. CASE status_1e = NoError
    <3>1. Reply' = [ok |-> TRUE, data |-> d]
      BY <1>6, <2>3, <2>8 DEF Carries
    <3>2. Reply'.ok /\ Reply'.data = d
      BY <3>1
    <3> QED BY <1>7, <1>8, <2>3, <2>4, <2>5, <2>6, <2>8, <3>2 DEF Service!Read, i
  <2> QED BY <2>7, <2>8
<1>9. CASE ~HasKey(key)
  <2>1. status_1e' # NoError /\ keys' = keys
    BY <1>1, <1>9 DEF FillData, Report, NoError, KeyNotFound
  <2>2. EntriesOf(keys)' = EntriesOf(keys)
    BY <2>1 DEF EntriesOf, EntryOf
  <2>3. Reply' = Service!Failure
    BY <1>6, <2>1 DEF Carries, Service!Failure
  <2>4. Service!Fail
    BY <2>1, <2>2, <2>3 DEF Service!Fail
  <2> QED BY <1>7, <1>9, <2>4 DEF Service!Read
<1> QED BY <1>8, <1>9

(***************************************************************************)
(* A write: all the bytes of the request, at once, in the key or a new one.*)
(***************************************************************************)
LEMMA ActWrite ==
  ASSUME HostInv, Send, request.op = "WRITE", sent + 1 = Len(Message(request))
  PROVE  Service!Write
<1>1. /\ request \in Requests /\ request' = request /\ keys \in Seq(Key) /\ sent' = sent + 1
      /\ Len(keys) > 0
  BY SendAccess DEF HostInv, DeviceInv, TypeOK
<1>2. /\ status_1e' = status_1e /\ key = request.spell
      /\ data_len = request.payload[1] /\ data_len \in 1..ByteMax
  BY SendStores
<1>3. PICK buf \in [1..ByteMax -> Byte] :
        StoreValue(buf) /\ \A p \in 1..data_len : buf[p] = request.payload[p + 1]
  BY SendStores
<1> DEFINE data == Tail(request.payload)
           v == [p \in 1..data_len |-> buf[p]]
<1>4. v = data /\ v \in Value /\ Len(v) = data_len
  <2>1. request.payload \in Seq(Byte) /\ Len(request.payload) = data_len + 1 /\ data_len \in Nat
        /\ ByteMax \in Nat
    BY <1>1, <1>2, RequestSizes, RequestForm, DeviceSizes
  <2>2. request.payload # << >>
    BY <2>1
  <2>3. data \in Seq(Byte) /\ Len(data) = data_len /\ \A p \in 1..data_len : data[p] = request.payload[p + 1]
    BY <2>1, <2>2, HeadTailProperties
  <2>4. v \in [1..data_len -> Byte] /\ \A p \in 1..data_len : v[p] = buf[p]
    BY <1>2, <2>1
  <2>5. v \in Seq(Byte) /\ Len(v) = data_len
    BY <2>1, <2>4, FunctionIsSeq
  <2>6. \A p \in 1..data_len : v[p] = data[p]
    BY <1>3, <2>3, <2>4
  <2> HIDE DEF v, data
  <2>7. v = data
    BY <2>3, <2>5, <2>6, SeqEqual
  <2> QED BY <1>2, <2>5, <2>7 DEF Value
<1>5. Service!Answer(<< >>)
  <2>1. Rest' = << >>
    BY <1>1 DEF Rest
  <2>2. << >> \in Seq(Byte)
    BY EmptySeq
  <2>3. Carries(<< >>)
    BY <1>1, <2>1, <2>2, ReplyIs
  <2> QED BY <1>2, <2>3 DEF Carries, Service!Answer, Service!Failure
<1>6. /\ Service!Known(request.spell) <=> HasKey(key)
      /\ HasKey(key) => Service!Entry(request.spell) = IndexOf(key)
  BY <1>1, <1>2, ServiceKnows
<1>7. CASE HasKey(key)
  <2> DEFINE i == IndexOf(key)
             ks == [keys EXCEPT ![i].value = v]
  <2>1. i \in DOMAIN keys
    BY <1>1, <1>7, IndexOfFound
  <2>2. SaveKeyToNVRAM(ks, i)
    BY <1>3, <1>7 DEF StoreValue
  <2> HIDE DEF i, v, data
  <2>3. Follows(keys, i, v)
    BY <1>1, <1>4, <2>1, EntriesExcept
  <2>4. ks \in Seq(Key) /\ EntriesOf(ks) = [EntriesOf(keys) EXCEPT ![i].value = v] /\ i \in DOMAIN ks
    BY <2>1, <2>3 DEF Follows
  <2> HIDE DEF ks
  <2>5. PICK w \in Readings(ks[i]) : keys' = [ks EXCEPT ![i].value = w]
    BY <2>2, <2>4, SavedIsRead
  <2>6. Service!Measured(EntriesOf(ks), i)
    BY <2>4, <2>5, EntriesMeasured
  <2>7. Service!Stored(data) = EntriesOf(ks)
    BY <1>4, <1>6, <1>7, <2>4 DEF Service!Stored, i
  <2> QED BY <1>2, <1>5, <1>6, <1>7, <2>6, <2>7 DEF Service!Write, data, i
<1>8. CASE ~HasKey(key)
  <2> DEFINE k == NewKey(key, DefaultType[data_len], v, NoHandler)
             i == Len(keys) + 1
             ks == PushKey(k)
  <2>1. Named(key) /\ key \in Name
    BY <1>1, <1>2, RequestForm DEF Named
  <2>2. SaveKeyToNVRAM(ks, i) /\ Len(keys) < MaxKeys
    BY <1>3, <1>8, <2>1 DEF StoreValue
  <2> HIDE DEF v, data
  <2>3. k \in Key /\ k.name = CopySymbol(key) /\ k.value = v /\ k.handler = NoHandler
        /\ k.type = CopySymbol(DefaultType[data_len])
    BY <1>2, <1>4, <2>1, NewKeyIsKey, NamesAssumption DEF NewKey
  <2> HIDE DEF k
  <2>4. /\ ks \in Seq(Key) /\ Len(EntriesOf(ks)) = i
        /\ EntriesOf(ks) = [Append(EntriesOf(keys), EntryOf(k)) EXCEPT ![1].value = SharpValue(i)]
    BY <1>1, <2>3, EntriesPushed
  <2>5. i \in DOMAIN ks /\ Len(keys) \in Nat
    BY <1>1, <2>3, PushKeyPushes, LenProperties
  <2> HIDE DEF ks
  <2>6. PICK w \in Readings(ks[i]) : keys' = [ks EXCEPT ![i].value = w]
    BY <2>2, <2>4, <2>5, SavedIsRead
  <2>7. Service!Measured(EntriesOf(ks), i)
    BY <2>4, <2>5, <2>6, EntriesMeasured
  <2>8. EntryOf(k) = [name |-> CopySymbol(key), type |-> CopySymbol(DefaultType[data_len]),
                      value |-> v, served |-> FALSE]
    BY <2>3 DEF EntryOf
  <2>9. Service!Stored(data) = EntriesOf(ks)
    <3>1. Len(EntriesOf(keys)) + 1 = i
      BY <1>1, EntriesAre
    <3>2. [n \in Name |-> CopySymbol(n)][request.spell] = CopySymbol(key)
      BY <1>2, <2>1
    <3>3. [n \in 1..ByteMax |-> CopySymbol(DefaultType[n])][Len(data)] = CopySymbol(DefaultType[data_len])
      BY <1>2, <1>4
    <3>4. [n \in 1..(MaxKeys + 1) |-> SharpValue(n)][i] = SharpValue(i)
      BY <2>2, <2>5, SizesAssumption
    <3> QED BY <1>4, <1>6, <1>8, <2>4, <2>8, <3>1, <3>2, <3>3, <3>4 DEF Service!Stored
  <2>10. i = Len(EntriesOf(ks))
    BY <2>4
  <2> QED BY <1>2, <1>5, <1>6, <1>8, <2>7, <2>9, <2>10 DEF Service!Write, data
<1> QED BY <1>7, <1>8

(***************************************************************************)
(* An index: the name of the key there, or a failure.                      *)
(***************************************************************************)
LEMMA ActIndex ==
  ASSUME HostInv, Send, Spelling, request.op = "INDEX", sent + 1 = NameLen
  PROVE  Service!NameAt
<1> DEFINE index == IndexBy[NameLen][request.spell]
<1>1. /\ keys' = keys /\ data_pos' = 0 /\ index \in Nat
      /\ IF index < Len(keys) THEN key' = keys[index + 1].name /\ status_1e' = status_1e
         ELSE status_1e' # NoError
  BY SendLooksUp
<1>2. request \in Requests /\ request' = request /\ sent' = sent + 1 /\ keys \in Seq(Key)
  BY SendAccess
<1>3. sent' = Len(Message(request))
  BY <1>2, RequestSizes
<1>4. EntriesOf(keys)' = EntriesOf(keys)
  BY <1>1 DEF EntriesOf, EntryOf
<1>5. DOMAIN EntriesOf(keys) = 1..Len(keys) /\ Len(keys) \in Nat
      /\ \A i \in 1..Len(keys) : EntriesOf(keys)[i].name = keys[i].name /\ keys[i] \in Key
  BY <1>2, EntriesAre, EntryFields
<1> HIDE DEF index
<1>6. CASE index < Len(keys)
  <2>1. index + 1 \in 1..Len(keys)
    BY <1>1, <1>5, <1>6
  <2>2. key' = keys[index + 1].name /\ key' \in [1..NameLen -> Byte]
    BY <1>1, <1>5, <1>6, <2>1 DEF Key, Name
  <2>3. key' \in Seq(Byte) /\ Len(key') = NameLen
    BY <2>2, DeviceSizes, FunctionIsSeq
  <2>4. Rest' = key'
    <3>1. SubSeq(key', 1, NameLen) = key'
      BY <2>3, SubSeqFull
    <3> QED BY <1>1, <1>2, <3>1 DEF Rest
  <2>5. Carries(key')
    BY <1>3, <2>3, <2>4, ReplyIs
  <2>6. Service!Answer(EntriesOf(keys)[index + 1].name)
    BY <1>1, <1>5, <1>6, <2>1, <2>2, <2>5 DEF Carries, Service!Answer, Service!Failure
  <2> QED BY <1>1, <1>4, <1>5, <1>6, <2>1, <2>6 DEF Service!NameAt, index
<1>7. CASE ~(index < Len(keys))
  <2>1. index + 1 \notin 1..Len(keys)
    BY <1>1, <1>5, <1>7
  <2>2. status_1e' # NoError
    BY <1>1, <1>7
  <2>3. Reply' = Service!Failure
    <3>1. Answered'
      BY <1>2, <1>3, RequestForm DEF Answered, AllSent
    <3> QED BY <2>2, <3>1 DEF Reply, Service!Failure
  <2>4. Service!Fail
    BY <1>4, <2>2, <2>3 DEF Service!Fail
  <2> QED BY <1>5, <2>1, <2>4 DEF Service!NameAt, index
<1> QED BY <1>6, <1>7

(***************************************************************************)
(* A type: size and type of the key, or a failure.                         *)
(***************************************************************************)
LEMMA ActType ==
  ASSUME HostInv, Send, Spelling, request.op = "TYPE", sent + 1 = NameLen
  PROVE  Service!Info
<1>1. keys' = keys /\ data_pos' = 0 /\ FillInfo(request.spell)
  BY SendAsksType
<1>2. request \in Requests /\ request' = request /\ sent' = sent + 1 /\ keys \in Seq(Key) /\ DeviceInv'
  BY SendAccess
<1>3. sent' = Len(Message(request))
  BY <1>2, RequestSizes
<1>4. EntriesOf(keys)' = EntriesOf(keys)
  BY <1>1 DEF EntriesOf, EntryOf
<1>5. /\ Service!Known(request.spell) <=> HasKey(request.spell)
      /\ HasKey(request.spell) => Service!Entry(request.spell) = IndexOf(request.spell)
  BY <1>2, ServiceKnows
<1>6. CASE HasKey(request.spell)
  <2> DEFINE i == IndexOf(request.spell)
             info == <<Len(keys[i].value)>> \o keys[i].type \o <<0>>
  <2>1. i \in 1..Len(keys)
    BY <1>2, <1>6, IndexOfFound, EntriesAre
  <2>2. EntriesOf(keys)[i].value = keys[i].value /\ EntriesOf(keys)[i].type = keys[i].type
    BY <1>2, <2>1, EntriesAre, EntryFields
  <2>3. key_info' = info /\ status_1e' = status_1e
    BY <1>1, <1>6 DEF FillInfo, Report
  <2>4. key_info' \in Seq(Byte) /\ Len(key_info') = InfoLen
    <3>1. key_info' \in [1..InfoLen -> Byte]
      BY <1>2 DEF DeviceInv, TypeOK
    <3> QED BY <3>1, DeviceSizes, FunctionIsSeq
  <2>5. Rest' = key_info'
    <3>1. SubSeq(key_info', 1, InfoLen) = key_info'
      BY <2>4, SubSeqFull
    <3> QED BY <1>1, <1>2, <3>1 DEF Rest
  <2>6. Carries(key_info')
    BY <1>3, <2>4, <2>5, ReplyIs
  <2>7. Service!Answer(<<Len(EntriesOf(keys)[i].value)>> \o EntriesOf(keys)[i].type \o <<0>>)
    BY <2>2, <2>3, <2>6 DEF Carries, Service!Answer, Service!Failure
  <2> QED BY <1>4, <1>5, <1>6, <2>3, <2>7 DEF Service!Info
<1>7. CASE ~HasKey(request.spell)
  <2>1. status_1e' # NoError
    BY <1>1, <1>7 DEF FillInfo, Report, NoError, KeyNotFound
  <2>2. Reply' = Service!Failure
    <3>1. Answered'
      BY <1>2, <1>3, RequestForm DEF Answered, AllSent
    <3> QED BY <2>1, <3>1 DEF Reply, Service!Failure
  <2>3. Service!Fail
    BY <1>4, <2>1, <2>2 DEF Service!Fail
  <2> QED BY <1>5, <1>7, <2>3 DEF Service!Info
<1> QED BY <1>6, <1>7

-----------------------------------------------------------------------------
(* The service behind the ports: steps *)

LEMMA AskIsAsk ==
  ASSUME HostInv, NEW q \in Requests, Ask(q)
  PROVE  Service!Ask
<1>1. request' = q /\ q # NoRequest /\ sent' = 0 /\ outcome' = outcome
  BY RequestForm DEF Ask
<1>2. keys' = keys /\ status_1e' = status_1e
  BY AskStep
<1>3. ~AllSent'
  BY <1>1, RequestSizes DEF AllSent
<1>4. Phase' = "asked" /\ Reply' = NoRequest
  BY <1>1, <1>3 DEF Phase, Reply, Answered
<1>5. EntriesOf(keys)' = EntriesOf(keys)
  BY <1>2 DEF EntriesOf, EntryOf
<1> QED BY <1>1, <1>2, <1>4, <1>5 DEF Service!Ask, Service!Nothing, NoRequest

(***************************************************************************)
(* A byte that is not the last of the request is not noticed; the last one *)
(* carries it out.                                                         *)
(***************************************************************************)
LEMMA SendActs ==
  ASSUME HostInv, Send
  PROVE  Service!Act \/ UNCHANGED Service!serviceVars
<1>1. /\ request \in Requests /\ request # NoRequest /\ request' = request /\ outcome' = outcome
      /\ sent' = sent + 1 /\ sent \in Nat /\ sent < Len(Message(request))
      /\ (Spelling \/ Writing)
  BY SendAccess, RequestForm
<1>2. ~AllSent
  BY <1>1, RequestSizes DEF AllSent
<1>3. Phase = "asked" /\ Reply = NoRequest
  BY <1>1, <1>2 DEF Phase, Reply, Answered
<1>4. CASE sent' # Len(Message(request))
  <2>1. UNCHANGED <<keys, status_1e>>
    BY <1>4, SendStep
  <2>2. EntriesOf(keys)' = EntriesOf(keys)
    BY <2>1 DEF EntriesOf, EntryOf
  <2>3. Phase' = "asked" /\ Reply' = NoRequest
    BY <1>1, <1>4 DEF Phase, Reply, Answered, AllSent
  <2> QED BY <1>1, <1>3, <2>1, <2>2, <2>3 DEF Service!serviceVars
<1>5. CASE sent' = Len(Message(request))
  <2>1. Phase' = "answered"
    BY <1>1, <1>5 DEF Phase, AllSent
  <2>2. Service!Read \/ Service!Write \/ Service!NameAt \/ Service!Info
    <3>1. request.op # "WRITE" => Spelling
      BY <1>1 DEF Writing
    <3>2. CASE request.op = "READ"
      <4>1. sent = NameLen
        BY <1>1, <1>5, <3>2, RequestSizes
      <4> QED BY <3>1, <3>2, <4>1, ActRead
    <3>3. CASE request.op = "WRITE"
      BY <1>1, <1>5, <3>3, ActWrite
    <3>4. CASE request.op \in {"INDEX", "TYPE"}
      <4>1. sent + 1 = NameLen
        BY <1>1, <1>5, <3>4, RequestSizes
      <4> QED BY <3>1, <3>4, <4>1, ActIndex, ActType
    <3> QED BY <1>1, <3>2, <3>3, <3>4, RequestSizes
  <2> QED BY <1>1, <1>3, <2>1, <2>2 DEF Service!Act
<1> QED BY <1>4, <1>5

(***************************************************************************)
(* A byte handed out moves from the rest to what was received.             *)
(***************************************************************************)
LEMMA NextByte ==
  ASSUME NEW r \in Seq(Byte), NEW n \in Nat, NEW s \in [1..n -> Byte], NEW t \in [1..n -> Byte],
         NEW m \in Nat, NEW l \in 0..n, m < l, m + 1 # l => t = s
  PROVE  Append(r, s[m + 1]) \o SubSeq(t, m + 2, l) = r \o SubSeq(s, m + 1, l)
<1>1. /\ s \in Seq(Byte) /\ Len(s) = n /\ m + 1 \in 1..n /\ l \in (m + 1)..n /\ s[m + 1] \in Byte
      /\ (m + 1) + 1 = m + 2
  BY FunctionIsSeq
<1>2. SubSeq(s, m + 1, l) = <<s[m + 1]>> \o SubSeq(s, m + 2, l)
  BY <1>1, SubSeqRecursiveFirst
<1>3. SubSeq(t, m + 2, l) = SubSeq(s, m + 2, l)
  <2>1. CASE m + 1 = l
    <3>1. l < m + 2 /\ m + 2 \in Int /\ l \in Int
      BY <2>1
    <3>2. SubSeq(t, m + 2, l) = << >> /\ SubSeq(s, m + 2, l) = << >>
      BY <3>1, SubSeqEmpty
    <3> QED BY <3>2
  <2>2. CASE m + 1 # l
    BY <2>2
  <2> QED BY <2>1, <2>2
<1> DEFINE rest == SubSeq(s, m + 2, l)
           b == s[m + 1]
<1>4. rest \in Seq(Byte)
  <2>1. m + 2 \in Int /\ l \in Int /\ \A i \in (m + 2)..l : s[i] \in Byte
    BY <1>1
  <2> QED BY <2>1, SubSeqProperties
<1> HIDE DEF rest, b
<1>5. b \in Byte /\ <<b>> \in Seq(Byte)
  BY <1>1 DEF b
<1>6. Append(r, b) \o rest = (r \o <<b>>) \o rest
  BY <1>5, AppendIsConcat
<1>7. (r \o <<b>>) \o rest = r \o (<<b>> \o rest)
  BY <1>4, <1>5, ConcatAssociative
<1> QED BY <1>2, <1>3, <1>6, <1>7 DEF rest, b

LEMMA ReceiveStutters ==
  ASSUME HostInv, Receive
  PROVE  UNCHANGED Service!serviceVars
<1>1. /\ keys' = keys /\ sent' = sent /\ request' = request /\ status_1e' = status_1e
      /\ outcome' = outcome /\ request \in Requests /\ Answering
  BY ReceiveStep
<1>2. PICK b \in Byte : DataRead(b) /\ received' = Append(received, b)
  BY ReceiveStep
<1>3. /\ PortsTypeOK /\ request # NoRequest /\ cmd = request.op /\ DeviceInv' /\ received \in Seq(Byte)
      /\ status = DataReady
  BY <1>1, RequestForm, ReceiveStep, TypeParts DEF HostInv, DeviceInv, InStep, Receive
<1>4. request.op # "WRITE" /\ data_pos < AnswerLen /\ (request.op = "TYPE" => data_len = InfoLen)
  BY <1>1, <1>3 DEF Answering, DataReady, Done
<1>5. EntriesOf(keys)' = EntriesOf(keys) /\ Phase' = Phase
  BY <1>1 DEF EntriesOf, EntryOf, Phase, AllSent
<1>6. data_pos \in Nat /\ data_pos + 1 + 1 = data_pos + 2
  BY <1>3, PortNumbers
<1>7. received' \o Rest' = received \o Rest
  <2>1. CASE request.op = "READ"
    <3>1. /\ data_pos < data_len /\ b = value[data_pos + 1] /\ data_pos' = data_pos + 1
          /\ data_len' = data_len /\ value' = IF data_pos + 1 = data_len THEN ClearedValue ELSE value
      BY <1>2, <1>3, <1>4, <2>1
         DEF DataRead, ReadDataRead, WriteDataRead, IndexDataRead, TypeDataRead, AnswerLen,
         Advance,
             LastByte
    <3>2. /\ value \in [1..ByteMax -> Byte] /\ value' \in [1..ByteMax -> Byte]
          /\ data_len \in 0..ByteMax /\ ByteMax \in Nat
      BY <1>3, DeviceSizes DEF PortsTypeOK, DeviceInv, TypeOK, Byte
    <3>3. Append(received, value[data_pos + 1]) \o SubSeq(value', data_pos + 2, data_len) =
            received \o SubSeq(value, data_pos + 1, data_len)
      BY <1>3, <1>6, <3>1, <3>2, NextByte
    <3> QED BY <1>1, <1>2, <1>6, <2>1, <3>1, <3>3 DEF Rest
  <2>2. CASE request.op = "INDEX"
    <3>1. b = key[data_pos + 1] /\ data_pos' = data_pos + 1 /\ key' = key /\ data_pos < NameLen
      BY <1>2, <1>3, <1>4, <2>2
         DEF DataRead, ReadDataRead, WriteDataRead, IndexDataRead, TypeDataRead, AnswerLen,
         bufVars,
             DataReady, Done
    <3>2. key \in [1..NameLen -> Byte] /\ NameLen \in Nat /\ NameLen \in 0..NameLen
      BY <1>3, DeviceSizes DEF PortsTypeOK, Name
    <3>3. Append(received, key[data_pos + 1]) \o SubSeq(key, data_pos + 2, NameLen) =
            received \o SubSeq(key, data_pos + 1, NameLen)
      BY <1>3, <1>6, <3>1, <3>2, NextByte
    <3> QED BY <1>1, <1>2, <1>6, <2>2, <3>1, <3>3 DEF Rest
  <2>3. CASE request.op = "TYPE"
    <3>1. /\ data_pos < InfoLen /\ b = key_info[data_pos + 1] /\ data_pos' = data_pos + 1
          /\ data_pos + 1 # InfoLen => key_info' = key_info
      BY <1>2, <1>3, <1>4, <2>3
         DEF DataRead, ReadDataRead, WriteDataRead, IndexDataRead, TypeDataRead, AnswerLen,
         Advance,
             LastByte
    <3>2. /\ key_info \in [1..InfoLen -> Byte] /\ key_info' \in [1..InfoLen -> Byte]
          /\ InfoLen \in Nat /\ InfoLen \in 0..InfoLen
      BY <1>3, DeviceSizes DEF PortsTypeOK, DeviceInv, TypeOK
    <3>3. Append(received, key_info[data_pos + 1]) \o SubSeq(key_info', data_pos + 2, InfoLen) =
            received \o SubSeq(key_info, data_pos + 1, InfoLen)
      BY <1>3, <1>6, <3>1, <3>2, NextByte
    <3> QED BY <1>1, <1>2, <1>6, <2>3, <3>1, <3>3 DEF Rest
  <2> QED BY <1>1, <1>4, <2>1, <2>2, <2>3, RequestForm
<1>8. Reply' = Reply
  BY <1>1, <1>7 DEF Reply, Answered, AllSent
<1> QED BY <1>1, <1>5, <1>8 DEF Service!serviceVars

(***************************************************************************)
(* The host takes the reply: all of it was received.                       *)
(***************************************************************************)
LEMMA FinishTakes ==
  ASSUME HostInv, Finish
  PROVE  Service!Take
<1>1. /\ request # NoRequest /\ AllSent /\ status = Done /\ request' = NoRequest
      /\ outcome' = (IF status_1e = NoError THEN [ok |-> TRUE, data |-> received]
                                            ELSE [ok |-> FALSE, data |-> << >>])
      /\ ErrorRead(status_1e)
  BY DEF Finish
<1>2. status_1e' = NoError /\ keys' = keys
  BY <1>1 DEF ErrorRead, keyVars
<1>3. /\ request \in Requests /\ PortsTypeOK /\ received \in Seq(Byte)
  BY <1>1, TypeParts DEF HostInv, DeviceInv, InStep
<1>4. Answering
  <2>1. Len(Message(request)) \in Nat
    BY <1>3, RequestSizes
  <2> QED BY <1>1, <2>1 DEF HostInv, InStep, Spelling, Writing, AllSent
<1>5. ASSUME status_1e = NoError PROVE received \o Rest = received
  <2>1. request.op # "WRITE" => data_pos = AnswerLen
    BY <1>1, <1>4, <1>5 DEF Answering, DataReady, Done
  <2>2. data_pos \in Nat /\ NameLen \in Nat /\ InfoLen \in Nat /\ data_len \in Nat
    BY <1>3, PortNumbers, DeviceSizes
  <2>3. Rest = << >>
    <3>1. CASE request.op = "READ"
      <4>1. data_len < data_pos + 1 /\ data_pos + 1 \in Int /\ data_len \in Int
        BY <2>1, <2>2, <3>1 DEF AnswerLen
      <4> QED BY <3>1, <4>1, SubSeqEmpty DEF Rest
    <3>2. CASE request.op = "TYPE"
      <4>1. InfoLen < data_pos + 1 /\ data_pos + 1 \in Int /\ InfoLen \in Int
        BY <2>1, <2>2, <3>2 DEF AnswerLen
      <4> QED BY <3>2, <4>1, SubSeqEmpty DEF Rest
    <3>3. CASE request.op = "INDEX"
      <4>1. NameLen < data_pos + 1 /\ data_pos + 1 \in Int /\ NameLen \in Int
        BY <2>1, <2>2, <3>3 DEF AnswerLen
      <4> QED BY <3>3, <4>1, SubSeqEmpty DEF Rest
    <3>4. CASE request.op = "WRITE"
      BY <3>4 DEF Rest
    <3> QED BY <1>3, <3>1, <3>2, <3>3, <3>4, RequestForm
  <2> QED BY <1>3, <2>3, ConcatEmptySeq
<1>6. outcome' = Reply
  BY <1>1, <1>5 DEF Reply, Answered
<1>7. Phase = "answered" /\ Phase' = "idle" /\ Reply' = NoRequest
  BY <1>1 DEF Phase, Reply, Answered
<1>8. EntriesOf(keys)' = EntriesOf(keys)
  BY <1>2 DEF EntriesOf, EntryOf
<1> QED BY <1>1, <1>2, <1>6, <1>7, <1>8 DEF Service!Take, Service!Nothing, NoRequest

(***************************************************************************)
(* What plug-ins do to the keys changes no name, no type and no reply.     *)
(***************************************************************************)
LEMMA PluginsMayChange ==
  ASSUME HostInv, PluginStep, UNCHANGED hostVars
  PROVE  Service!PluginsChange
<1>1. Extends(keys, keys') /\ keys \in Seq(Key)
  BY PluginsStep, TypeParts DEF HostInv, DeviceInv, KeysTypeOK
<1>2. UNCHANGED <<portVars, hostVars>>
  BY DEF PluginStep
<1>3. UNCHANGED <<Phase, Reply, status_1e, request, outcome>>
  BY <1>2 DEF portVars, cmdVars, bufVars, hostVars, Phase, Reply, Answered, AllSent, Rest
<1>4. keys' \in Seq(Key) /\ EntriesOf(keys)' = EntriesOf(keys')
  BY <1>1 DEF Extends, EntriesOf, EntryOf
<1>5. ASSUME NEW i \in DOMAIN EntriesOf(keys)
      PROVE  /\ i \in DOMAIN EntriesOf(keys')
             /\ EntriesOf(keys')[i].name = EntriesOf(keys)[i].name
             /\ EntriesOf(keys')[i].type = EntriesOf(keys)[i].type
  <2>1. i \in 1..Len(keys) /\ i \in 1..Len(keys') /\ keys'[i].name = keys[i].name
        /\ keys'[i].type = keys[i].type
    BY <1>1, <1>4, <1>5, EntriesAre DEF Extends
  <2> QED BY <1>1, <1>4, <2>1, EntriesAre, EntryFields
<1> QED BY <1>3, <1>4, <1>5 DEF Service!PluginsChange

(***************************************************************************)
(* Driven byte by byte, with requests given up anywhere and plug-ins at    *)
(* work between the bytes, the device is the service of SMCService.        *)
(***************************************************************************)
THEOREM DeviceIsAService == HostSpec => IsAService
<1>1. HostInit => Service!ServiceInit
  <2> SUFFICES ASSUME HostInit PROVE Service!ServiceInit
    OBVIOUS
  <2>1. keys \in Seq(Key) /\ Len(keys) = 1
    <3>1. keys \in Seq(Key)
      BY DeviceInitInv, TypeParts DEF HostInit, DeviceInv, KeysTypeOK
    <3>2. Len(keys) = 1
      BY DEF HostInit, DeviceInit, Init
    <3> QED BY <3>1, <3>2
  <2>2. Len(EntriesOf(keys)) = 1
    BY <2>1, EntriesAre
  <2>3. request = NoRequest /\ outcome = NoRequest /\ status_1e = NoError
    BY DEF HostInit, DeviceInit
  <2>4. Phase = "idle" /\ Reply = NoRequest
    BY <2>3 DEF Phase, Reply, Answered
  <2> QED BY <2>2, <2>3, <2>4 DEF Service!ServiceInit, Service!Nothing, NoRequest
<1>2. HostInv /\ [HostNext]_allVars => [Service!ServiceNext]_(Service!serviceVars)
  <2> SUFFICES ASSUME HostInv, [HostNext]_allVars
               PROVE  Service!ServiceNext \/ UNCHANGED Service!serviceVars
    OBVIOUS
  <2>1. CASE UNCHANGED allVars
    <3>1. UNCHANGED <<keys, portVars, hostVars>>
      BY <2>1 DEF allVars, vars, keyVars
    <3>2. UNCHANGED <<Phase, Reply, status_1e, request, outcome>>
      BY <3>1 DEF portVars, cmdVars, bufVars, hostVars, Phase, Reply, Answered, AllSent, Rest
    <3>3. EntriesOf(keys)' = EntriesOf(keys)
      BY <3>1 DEF EntriesOf, EntryOf
    <3> QED BY <3>2, <3>3 DEF Service!serviceVars
  <2>2. CASE HostNext
    BY <2>2, AskIsAsk, SendActs, ReceiveStutters, FinishTakes, PluginsMayChange
       DEF HostNext, Access, Service!ServiceNext
  <2> QED BY <2>1, <2>2
<1> QED BY <1>1, <1>2, HostInvariant, PTL DEF HostSpec, IsAService, Service!ServiceSpec

=============================================================================
