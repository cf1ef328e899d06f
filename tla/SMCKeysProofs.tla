---------------------------- MODULE SMCKeysProofs ----------------------------
(***************************************************************************)
(* Proofs about the key store, and the lemmas about its operators that the *)
(* proofs of the modules built on it use as well.                          *)
(***************************************************************************)
EXTENDS SMCKeys, SequenceTheorems, FiniteSetTheorems, TLAPS

(***************************************************************************)
(* A nonempty set of positions has a first one.                            *)
(***************************************************************************)
LEMMA FirstOf ==
  ASSUME NEW n \in Nat, NEW T, T \subseteq 1..n, T # {}
  PROVE  \E x \in T : \A y \in T : x <= y
<1> DEFINE U == {1..x : x \in T}
           R == StrictSubsetOrdering(1..n)
<1>1. IsWellFoundedOn(R, FiniteSubsetsOf(1..n))
  BY FS_StrictSubsetOrderingWellFounded
<1>2. U \subseteq FiniteSubsetsOf(1..n) /\ U # {}
  <2>1. \A x \in T : IsFiniteSet(1..x) /\ 1..x \subseteq 1..n
    BY FS_Interval
  <2> QED BY <2>1 DEF FiniteSubsetsOf
<1>3. PICK u \in U : \A w \in U : <<w, u>> \notin R
  <2> HIDE DEF U, R
  <2> QED BY <1>1, <1>2, WFMin
<1>4. PICK x \in T : u = 1..x
  OBVIOUS
<1>5. ASSUME NEW y \in T, y < x PROVE FALSE
  <2>1. 1..y \in U
    OBVIOUS
  <2>2. 1..y \subseteq 1..x /\ x \in 1..x /\ x \notin 1..y /\ 1..x \subseteq 1..n
    BY <1>5
  <2>3. <<1..y, u>> \in R
    BY <1>4, <2>2 DEF StrictSubsetOrdering
  <2> QED BY <1>3, <2>1, <2>3
<1> QED
  BY <1>5

(***************************************************************************)
(* And a last one.                                                         *)
(***************************************************************************)
LEMMA LastOf ==
  ASSUME NEW n \in Nat, NEW T, T \subseteq 1..n, T # {}
  PROVE  \E x \in T : \A y \in T : y <= x
<1> DEFINE U == {i \in 1..n : n + 1 - i \in T}
<1>1. \A x \in T : n + 1 - x \in U
  OBVIOUS
<1>2. U \subseteq 1..n /\ U # {}
  BY <1>1
<1>3. PICK u \in U : \A w \in U : u <= w
  <2> HIDE DEF U
  <2> QED BY <1>2, FirstOf
<1>4. n + 1 - u \in T /\ \A y \in T : u <= n + 1 - y
  BY <1>1, <1>3
<1>5. \A y \in T : y <= n + 1 - u
  BY <1>4
<1> QED BY <1>4, <1>5

-----------------------------------------------------------------------------
(* Operators *)

(***************************************************************************)
(* The symbol made of a name is a name, the same one when it has no NUL.   *)
(***************************************************************************)
LEMMA CopySymbolIsName ==
  ASSUME NEW n \in Name
  PROVE  /\ CopySymbol(n) \in Name
         /\ (\A p \in 1..NameLen : n[p] # 0) => CopySymbol(n) = n
         /\ n[1] # 0 => CopySymbol(n)[1] # 0
<1>1. \A p \in 1..NameLen : n[p] \in Byte /\ 0 \in Byte /\ 1 \in 1..NameLen
  BY SizesAssumption DEF Name, Byte
<1>2. CopySymbol(n) \in Name
  BY <1>1 DEF Name, CopySymbol
<1>3. ASSUME \A p \in 1..NameLen : n[p] # 0 PROVE CopySymbol(n) = n
  <2>1. \A p \in 1..NameLen : ~ \E q \in 1..p : n[q] = 0
    BY <1>3, SizesAssumption
  <2> QED BY <2>1 DEF CopySymbol, Name
<1>4. n[1] # 0 => CopySymbol(n)[1] # 0
  <2>1. CopySymbol(n)[1] = IF \E q \in 1..1 : n[q] = 0 THEN 0 ELSE n[1]
    <3>1. 1 \in 1..NameLen
      BY SizesAssumption
    <3> QED BY <3>1 DEF CopySymbol
  <2>2. \A q \in 1..1 : q = 1
    OBVIOUS
  <2> QED BY <2>1, <2>2
<1> QED BY <1>2, <1>3, <1>4

(***************************************************************************)
(* What updateSharpKey stores is a value of CountLen bytes whose last byte *)
(* is the low byte of the count.                                           *)
(***************************************************************************)
LEMMA SharpValueIsValue ==
  ASSUME NEW c \in Nat
  PROVE  /\ SharpValue(c) \in Value
         /\ Len(SharpValue(c)) = CountLen
         /\ \A p \in 1..(CountLen - 1) : SharpValue(c)[p] = 0
         /\ SharpValue(c)[CountLen] = c % (ByteMax + 1)
<1>1. c % (ByteMax + 1) \in Byte /\ 0 \in Byte /\ CountLen \in 1..ByteMax /\ CountLen \in Nat
  BY SizesAssumption DEF Byte
<1>2. SharpValue(c) \in [1..CountLen -> Byte]
  BY <1>1 DEF SharpValue
<1>3. SharpValue(c) \in Seq(Byte) /\ Len(SharpValue(c)) = CountLen
  BY <1>1, <1>2
<1>4. SharpValue(c) \in Value
  BY <1>1, <1>3 DEF Value
<1>5. \A p \in 1..CountLen : SharpValue(c)[p] = IF p = CountLen THEN c % (ByteMax + 1) ELSE 0
  BY DEF SharpValue
<1> QED BY <1>1, <1>3, <1>4, <1>5

(***************************************************************************)
(* IndexOf finds a key of the name, the first one.                         *)
(***************************************************************************)
LEMMA IndexOfFound ==
  ASSUME NEW n, keys \in Seq(Key), HasKey(n)
  PROVE  /\ IndexOf(n) \in DOMAIN keys
         /\ keys[IndexOf(n)].name = n
         /\ \A j \in 1..(IndexOf(n) - 1) : keys[j].name # n
<1> DEFINE T == {i \in DOMAIN keys : keys[i].name = n}
<1>1. T \subseteq 1..Len(keys) /\ T # {} /\ Len(keys) \in Nat
  BY DEF HasKey
<1>2. PICK x \in T : \A y \in T : x <= y
  BY <1>1, FirstOf
<1>3. x \in DOMAIN keys /\ keys[x].name = n /\ \A j \in 1..(x - 1) : keys[j].name # n
  <2>1. \A j \in 1..(x - 1) : j \in DOMAIN keys /\ ~(x <= j)
    BY <1>1
  <2> QED BY <1>2, <2>1
<1> QED BY <1>3 DEF IndexOf

\* The same, in every state: what a name is found at after a step.
NamesAreFound ==
  keys \in Seq(Key) =>
    \A n : HasKey(n) => /\ IndexOf(n) \in DOMAIN keys
                       /\ keys[IndexOf(n)].name = n
                       /\ \A j \in 1..(IndexOf(n) - 1) : keys[j].name # n

LEMMA FoundNext == NamesAreFound'
<1>1. NamesAreFound
  BY IndexOfFound DEF NamesAreFound
<1> QED BY <1>1, PTL

(***************************************************************************)
(* Giving the key at a position another value changes nothing else.        *)
(***************************************************************************)
LEMMA NewValueIsKey ==
  ASSUME NEW s \in Seq(Key), NEW i \in DOMAIN s, NEW v \in Value
  PROVE  LET ks == [s EXCEPT ![i].value = v]
         IN  /\ ks \in Seq(Key)
             /\ Len(ks) = Len(s)
             /\ \A j \in 1..Len(s) :
                  /\ ks[j].name = s[j].name
                  /\ ks[j].type = s[j].type
                  /\ ks[j].handler = s[j].handler
                  /\ ks[j].value = IF j = i THEN v ELSE s[j].value
<1> DEFINE e == [s[i] EXCEPT !.value = v]
           ks == [s EXCEPT ![i] = e]
<1>1. s[i] \in Key /\ i \in 1..Len(s) /\ DOMAIN s = 1..Len(s)
  BY ElementOfSeq
<1>2. e \in Key /\ e.name = s[i].name /\ e.type = s[i].type
      /\ e.handler = s[i].handler /\ e.value = v
  BY <1>1 DEF Key
<1>3. /\ ks \in Seq(Key) /\ Len(ks) = Len(s)
      /\ \A j \in 1..Len(s) : ks[j] = IF j = i THEN e ELSE s[j]
  <2> HIDE DEF e
  <2> QED BY <1>1, <1>2, ExceptSeq
<1>4. ks = [s EXCEPT ![i].value = v]
  OBVIOUS
<1> HIDE DEF e, ks
<1> QED BY <1>1, <1>2, <1>3, <1>4

(***************************************************************************)
(* So does handing it to another handler.                                  *)
(***************************************************************************)
LEMMA NewHandlerIsKey ==
  ASSUME NEW s \in Seq(Key), NEW i \in DOMAIN s, NEW h \in Handlers
  PROVE  LET ks == [s EXCEPT ![i].handler = h]
         IN  /\ ks \in Seq(Key)
             /\ Len(ks) = Len(s)
             /\ \A j \in 1..Len(s) :
                  /\ ks[j].name = s[j].name
                  /\ ks[j].type = s[j].type
                  /\ ks[j].value = s[j].value
                  /\ ks[j].handler = IF j = i THEN h ELSE s[j].handler
<1> DEFINE e == [s[i] EXCEPT !.handler = h]
           ks == [s EXCEPT ![i] = e]
<1>1. s[i] \in Key /\ i \in 1..Len(s) /\ DOMAIN s = 1..Len(s)
  BY ElementOfSeq
<1>2. e \in Key /\ e.name = s[i].name /\ e.type = s[i].type
      /\ e.value = s[i].value /\ e.handler = h
  BY <1>1 DEF Key
<1>3. /\ ks \in Seq(Key) /\ Len(ks) = Len(s)
      /\ \A j \in 1..Len(s) : ks[j] = IF j = i THEN e ELSE s[j]
  <2> HIDE DEF e
  <2> QED BY <1>1, <1>2, ExceptSeq
<1>4. ks = [s EXCEPT ![i].handler = h]
  OBVIOUS
<1> HIDE DEF e, ks
<1> QED BY <1>1, <1>2, <1>3, <1>4

(***************************************************************************)
(* A pushed key comes last; of the others only the value of #KEY changes.  *)
(***************************************************************************)
LEMMA PushKeyPushes ==
  ASSUME keys \in Seq(Key), Len(keys) > 0, NEW k \in Key
  PROVE  /\ PushKey(k) \in Seq(Key)
         /\ Len(PushKey(k)) = Len(keys) + 1
         /\ \A j \in 1..Len(keys) :
              /\ PushKey(k)[j].name = keys[j].name
              /\ PushKey(k)[j].type = keys[j].type
              /\ PushKey(k)[j].handler = keys[j].handler
              /\ PushKey(k)[j].value =
                   IF j = 1 THEN SharpValue(Len(keys) + 1) ELSE keys[j].value
         /\ PushKey(k)[Len(keys) + 1].name = k.name
         /\ PushKey(k)[Len(keys) + 1].type = k.type
         /\ PushKey(k)[Len(keys) + 1].value = k.value
         /\ PushKey(k)[Len(keys) + 1].handler = k.handler
<1> DEFINE a == Append(keys, k)
           v == SharpValue(Len(keys) + 1)
<1>1. /\ a \in Seq(Key) /\ Len(a) = Len(keys) + 1 /\ Len(keys) \in Nat
      /\ \A j \in 1..Len(keys) : a[j] = keys[j]
      /\ a[Len(keys) + 1] = k
  BY AppendProperties
<1>2. 1 \in DOMAIN a /\ v \in Value
  BY <1>1, SharpValueIsValue
<1>3. PushKey(k) = [a EXCEPT ![1].value = v]
  BY DEF PushKey
<1> HIDE DEF a, v
<1>4. /\ PushKey(k) \in Seq(Key) /\ Len(PushKey(k)) = Len(a)
      /\ \A j \in 1..Len(a) :
           /\ PushKey(k)[j].name = a[j].name
           /\ PushKey(k)[j].type = a[j].type
           /\ PushKey(k)[j].handler = a[j].handler
           /\ PushKey(k)[j].value = IF j = 1 THEN v ELSE a[j].value
  BY <1>1, <1>2, <1>3, NewValueIsKey
<1>5. Len(keys) + 1 \in 1..Len(a) /\ Len(keys) + 1 # 1 /\ 1..Len(keys) \subseteq 1..Len(a)
  BY <1>1
<1> QED BY <1>1, <1>4, <1>5 DEF v

(***************************************************************************)
(* Values read from a key are values, of its size; a key without a handler *)
(* reads as it is.                                                         *)
(***************************************************************************)
LEMMA ReadingsAreValues ==
  ASSUME NEW k \in Key, NEW v \in Readings(k)
  PROVE  /\ v \in Value /\ Len(v) = Len(k.value)
         /\ k.handler = NoHandler => v = k.value
<1>1. k.value \in Seq(Byte) /\ Len(k.value) \in 1..ByteMax /\ k.value \in Value
  BY DEF Key, Value
<1>2. CASE v = k.value
  BY <1>1, <1>2
<1>3. CASE v # k.value
  <2>1. v \in [1..Len(k.value) -> SensorBytes] /\ k.handler # NoHandler
    BY <1>3 DEF Readings
  <2>2. v \in [1..Len(k.value) -> Byte]
    BY <2>1, NamesAssumption
  <2>3. v \in Seq(Byte) /\ Len(v) = Len(k.value)
    BY <1>1, <2>2
  <2> QED BY <1>1, <2>1, <2>3 DEF Value
<1> QED BY <1>2, <1>3

(***************************************************************************)
(* What AddKeyWithValue and AddKeyWithHandler push is a key.               *)
(***************************************************************************)
LEMMA NewKeyIsKey ==
  ASSUME NEW n \in Name, NEW t \in Name, NEW v \in Value,
         NEW h \in Handlers \cup {NoHandler}
  PROVE  /\ NewKey(n, t, v, h) \in Key
         /\ NewKey(n, t, v, h).name = CopySymbol(n)
         /\ NewKey(n, t, v, h).value = v
         /\ NewKey(n, t, v, h).handler = h
  BY CopySymbolIsName DEF NewKey, Key

LEMMA ZeroedIsValue ==
  ASSUME NEW size \in 1..ByteMax
  PROVE  [p \in 1..size |-> 0] \in Value /\ Len([p \in 1..size |-> 0]) = size
<1>1. 0 \in Byte /\ size \in Nat
  BY SizesAssumption DEF Byte
<1>2. [p \in 1..size |-> 0] \in Seq(Byte) /\ Len([p \in 1..size |-> 0]) = size
  BY <1>1
<1> QED BY <1>2 DEF Value

-----------------------------------------------------------------------------
(* Steps of the key store *)

\* t is s with other values and handlers, and perhaps with more keys.
Extends(s, t) ==
  /\ t \in Seq(Key)
  /\ Len(s) <= Len(t)
  /\ \A j \in 1..Len(s) : t[j].name = s[j].name /\ t[j].type = s[j].type

\* #KEY is the first key, nobody serves it, and once there is another key its
\* value is the count.
SharpOK ==
  /\ keys[1].name = SharpName
  /\ keys[1].handler = NoHandler
  /\ Len(keys) > 1 => keys[1].value = SharpValue(Len(keys))

(***************************************************************************)
(* A name that was found is found again at the same position.              *)
(***************************************************************************)
LEMMA PositionsAreKept ==
  ASSUME keys \in Seq(Key), Extends(keys, keys'), NEW n, HasKey(n)
  PROVE  HasKey(n)' /\ IndexOf(n)' = IndexOf(n)
<1>1. /\ IndexOf(n) \in DOMAIN keys /\ keys[IndexOf(n)].name = n
      /\ \A j \in 1..(IndexOf(n) - 1) : keys[j].name # n
  BY IndexOfFound
<1>2. DOMAIN keys = 1..Len(keys) /\ DOMAIN keys' = 1..Len(keys') /\ 1..Len(keys) \subseteq 1..Len(keys')
      /\ Len(keys) \in Nat /\ Len(keys') \in Nat
  BY DEF Extends
<1>3. IndexOf(n) \in DOMAIN keys' /\ keys'[IndexOf(n)].name = n
  BY <1>1, <1>2 DEF Extends
<1>4. HasKey(n)'
  BY <1>3 DEF HasKey
<1>5. /\ IndexOf(n)' \in DOMAIN keys' /\ keys'[IndexOf(n)'].name = n
      /\ \A j \in 1..(IndexOf(n)' - 1) : keys'[j].name # n
  BY <1>4, FoundNext DEF NamesAreFound, Extends
<1>6. IndexOf(n)' = IndexOf(n)
  <2> DEFINE a == IndexOf(n)
             b == IndexOf(n)'
  <2>1. a \in 1..Len(keys) /\ b \in 1..Len(keys')
    BY <1>1, <1>2, <1>5
  <2>2. ~(a < b)
    BY <1>3, <1>5, <2>1
  <2>3. ASSUME b < a PROVE FALSE
    <3>1. b \in 1..Len(keys) /\ b \in 1..(a - 1)
      BY <1>2, <2>1, <2>3
    <3>2. keys'[b].name = keys[b].name
      BY <3>1 DEF Extends
    <3> QED BY <1>1, <1>5, <3>1, <3>2
  <2> HIDE DEF a, b
  <2>4. a = b
    BY <1>2, <2>1, <2>2, <2>3
  <2> QED BY <2>4 DEF a, b
<1> QED BY <1>4, <1>6

(***************************************************************************)
(* A store to which a key is pushed extends the one before, and its count  *)
(* is right.                                                               *)
(***************************************************************************)
LEMMA PushKeyExtends ==
  ASSUME keys \in Seq(Key), Len(keys) > 0, NEW k \in Key, keys' = PushKey(k)
  PROVE  /\ Extends(keys, keys')
         /\ \A j \in 1..Len(keys) :
              /\ keys'[j].handler = keys[j].handler
              /\ j # 1 => keys'[j].value = keys[j].value
         /\ SharpOK => SharpOK'
<1> DEFINE t == keys'
<1>1. /\ t \in Seq(Key) /\ Len(t) = Len(keys) + 1
      /\ \A j \in 1..Len(keys) :
           /\ t[j].name = keys[j].name
           /\ t[j].type = keys[j].type
           /\ t[j].handler = keys[j].handler
           /\ t[j].value = IF j = 1 THEN SharpValue(Len(keys) + 1) ELSE keys[j].value
  BY PushKeyPushes
<1>2. Len(keys) \in Nat /\ 1 \in 1..Len(keys)
  OBVIOUS
<1> HIDE DEF t
<1>3. Len(keys) <= Len(t)
  BY <1>1, <1>2
<1>4. Extends(keys, t)
  BY <1>1, <1>3 DEF Extends
<1>5. \A j \in 1..Len(keys) :
        /\ t[j].handler = keys[j].handler
        /\ j # 1 => t[j].value = keys[j].value
  BY <1>1
<1>6. t[1].name = keys[1].name /\ t[1].handler = keys[1].handler
      /\ t[1].value = SharpValue(Len(keys) + 1)
  BY <1>1, <1>2
<1>7. SharpOK => SharpOK'
  BY <1>1, <1>2, <1>6 DEF SharpOK, t
<1> QED BY <1>4, <1>5, <1>7 DEF t

(***************************************************************************)
(* addKeyWithValue and addKeyWithHandler.                                  *)
(***************************************************************************)
LEMMA AddKeyWithValueStep ==
  ASSUME KeysTypeOK, NEW n \in Name, NEW t \in Name, NEW v \in Value,
         AddKeyWithValue(n, t, v)
  PROVE  /\ Extends(keys, keys')
         /\ \A j \in 1..Len(keys) :
              /\ keys'[j].handler = keys[j].handler
              /\ j # 1 /\ keys[j].name # n => keys'[j].value = keys[j].value
         /\ SharpOK /\ n # SharpName => SharpOK'
<1>1. keys \in Seq(Key) /\ Len(keys) \in Nat \ {0} /\ DOMAIN keys = 1..Len(keys)
  BY DEF KeysTypeOK
<1>2. CASE HasKey(n)
  <2> DEFINE i == IndexOf(n)
  <2>1. i \in DOMAIN keys /\ keys[i].name = n
    BY <1>1, <1>2, IndexOfFound
  <2>2. keys' = [keys EXCEPT ![i].value = v]
    BY <1>2 DEF AddKeyWithValue
  <2> HIDE DEF i
  <2>3. /\ keys' \in Seq(Key) /\ Len(keys') = Len(keys)
        /\ \A j \in 1..Len(keys) :
             /\ keys'[j].name = keys[j].name
             /\ keys'[j].type = keys[j].type
             /\ keys'[j].handler = keys[j].handler
             /\ keys'[j].value = IF j = i THEN v ELSE keys[j].value
    BY <1>1, <2>1, <2>2, NewValueIsKey
  <2> QED BY <1>1, <2>1, <2>3 DEF Extends, SharpOK
<1>3. CASE ~HasKey(n) /\ Named(n)
  <2> DEFINE k == NewKey(n, t, v, NoHandler)
  <2>1. k \in Key /\ keys' = PushKey(k)
    BY <1>3, NewKeyIsKey DEF AddKeyWithValue
  <2> HIDE DEF k
  <2>2. /\ Extends(keys, keys')
        /\ SharpOK => SharpOK'
        /\ \A j \in 1..Len(keys) :
             /\ keys'[j].handler = keys[j].handler
             /\ j # 1 => keys'[j].value = keys[j].value
    BY <1>1, <2>1, PushKeyExtends
  <2> QED BY <2>2
<1>4. CASE ~HasKey(n) /\ ~Named(n)
  BY <1>1, <1>4 DEF AddKeyWithValue, Extends, SharpOK
<1> QED BY <1>2, <1>3, <1>4

LEMMA AddKeyWithHandlerStep ==
  ASSUME KeysTypeOK, NEW n \in Name, NEW t \in Name, NEW size \in 1..ByteMax,
         NEW h \in Handlers, AddKeyWithHandler(n, t, size, h)
  PROVE  /\ Extends(keys, keys')
         /\ \A j \in 1..Len(keys) :
              /\ keys[j].name # n => keys'[j].handler = keys[j].handler
              /\ j # 1 => keys'[j].value = keys[j].value
         /\ (\A p \in 1..NameLen : n[p] # 0) => HasKey(n)' /\ keys'[IndexOf(n)'].handler = h
         /\ SharpOK /\ n # SharpName => SharpOK'
<1>1. keys \in Seq(Key) /\ Len(keys) \in Nat \ {0} /\ DOMAIN keys = 1..Len(keys)
  BY DEF KeysTypeOK
<1>2. CASE HasKey(n)
  <2> DEFINE i == IndexOf(n)
  <2>1. i \in DOMAIN keys /\ keys[i].name = n
    BY <1>1, <1>2, IndexOfFound
  <2>2. keys' = [keys EXCEPT ![i].handler = h]
    BY <1>2 DEF AddKeyWithHandler
  <2> HIDE DEF i
  <2>3. /\ keys' \in Seq(Key) /\ Len(keys') = Len(keys)
        /\ \A j \in 1..Len(keys) :
             /\ keys'[j].name = keys[j].name
             /\ keys'[j].type = keys[j].type
             /\ keys'[j].value = keys[j].value
             /\ keys'[j].handler = IF j = i THEN h ELSE keys[j].handler
    BY <1>1, <2>1, <2>2, NewHandlerIsKey
  <2>4. Extends(keys, keys')
    BY <1>1, <2>3 DEF Extends
  <2>5. HasKey(n)' /\ IndexOf(n)' = i
    BY <1>1, <1>2, <2>4, PositionsAreKept DEF i
  <2> QED BY <1>1, <2>1, <2>3, <2>4, <2>5 DEF SharpOK
<1>3. CASE ~HasKey(n) /\ Named(n)
  <2> DEFINE z == [p \in 1..size |-> 0]
             k == NewKey(n, t, z, h)
  <2>1. z \in Value
    BY ZeroedIsValue
  <2>2. keys' = PushKey(k)
    BY <1>3 DEF AddKeyWithHandler
  <2> HIDE DEF z
  <2>3. k \in Key /\ k.name = CopySymbol(n) /\ k.handler = h
    BY <2>1, NewKeyIsKey
  <2> HIDE DEF k
  <2>4. (\A p \in 1..NameLen : n[p] # 0) => k.name = n
    BY <2>3, CopySymbolIsName
  <2>5. /\ Extends(keys, keys')
        /\ SharpOK => SharpOK'
        /\ \A j \in 1..Len(keys) :
             /\ keys'[j].handler = keys[j].handler
             /\ j # 1 => keys'[j].value = keys[j].value
    BY <1>1, <2>2, <2>3, PushKeyExtends
  <2>6. ASSUME k.name = n PROVE HasKey(n)' /\ keys'[IndexOf(n)'].handler = h
    <3>1. /\ keys' \in Seq(Key) /\ Len(keys') = Len(keys) + 1
          /\ keys'[Len(keys) + 1].name = n /\ keys'[Len(keys) + 1].handler = h
      BY <1>1, <2>2, <2>3, <2>6, PushKeyPushes
    <3>2. Len(keys) + 1 \in DOMAIN keys' /\ DOMAIN keys' = 1..(Len(keys) + 1)
      BY <1>1, <3>1
    <3>3. HasKey(n)'
      BY <3>1, <3>2 DEF HasKey
    <3>4. IndexOf(n)' \in DOMAIN keys' /\ keys'[IndexOf(n)'].name = n
      BY <3>1, <3>3, FoundNext DEF NamesAreFound
    <3>5. \A j \in 1..Len(keys) : keys'[j].name # n
      BY <1>1, <1>3, <2>5 DEF HasKey, Extends
    <3>6. IndexOf(n)' = Len(keys) + 1
      BY <1>1, <3>2, <3>4, <3>5
    <3> QED BY <3>1, <3>3, <3>6
  <2>7. (\A p \in 1..NameLen : n[p] # 0) => HasKey(n)' /\ keys'[IndexOf(n)'].handler = h
    BY <2>4, <2>6
  <2> QED BY <2>5, <2>7
<1>4. CASE ~HasKey(n) /\ ~Named(n)
  <2>1. ~ \A p \in 1..NameLen : n[p] # 0
    BY <1>4, SizesAssumption DEF Named
  <2> QED BY <1>1, <1>4, <2>1 DEF AddKeyWithHandler, Extends, SharpOK
<1> QED BY <1>2, <1>3, <1>4

(***************************************************************************)
(* The remaining calls of plug-ins.                                        *)
(***************************************************************************)
LEMMA SetKeyValueStep ==
  ASSUME KeysTypeOK, NEW n \in Name, NEW v \in Value, SetKeyValue(n, v)
  PROVE  /\ Extends(keys, keys')
         /\ keys'[IndexOf(n)].value = v
         /\ \A j \in 1..Len(keys) : keys'[j].handler = keys[j].handler
         /\ SharpOK /\ n # SharpName => SharpOK'
<1>1. keys \in Seq(Key) /\ Len(keys) \in Nat \ {0} /\ DOMAIN keys = 1..Len(keys)
  BY DEF KeysTypeOK
<1> DEFINE i == IndexOf(n)
<1>2. i \in DOMAIN keys /\ keys[i].name = n
  BY <1>1, IndexOfFound DEF SetKeyValue
<1>3. keys' = [keys EXCEPT ![i].value = v]
  BY DEF SetKeyValue
<1> HIDE DEF i
<1>4. /\ keys' \in Seq(Key) /\ Len(keys') = Len(keys)
      /\ \A j \in 1..Len(keys) :
           /\ keys'[j].name = keys[j].name
           /\ keys'[j].type = keys[j].type
           /\ keys'[j].handler = keys[j].handler
           /\ keys'[j].value = IF j = i THEN v ELSE keys[j].value
  BY <1>1, <1>2, <1>3, NewValueIsKey
<1>5. keys'[i].value = v
  BY <1>1, <1>2, <1>4
<1>6. Extends(keys, keys')
  BY <1>1, <1>4 DEF Extends
<1>7. SharpOK /\ n # SharpName => SharpOK'
  BY <1>1, <1>2, <1>4 DEF SharpOK
<1> QED BY <1>4, <1>5, <1>6, <1>7 DEF i

LEMMA GetKeyValueStep ==
  ASSUME KeysTypeOK, NEW n \in Name, GetKeyValue(n)
  PROVE  /\ Extends(keys, keys')
         /\ SharpOK => SharpOK'
<1>1. keys \in Seq(Key) /\ Len(keys) \in Nat \ {0} /\ DOMAIN keys = 1..Len(keys)
  BY DEF KeysTypeOK
<1> DEFINE i == IndexOf(n)
<1>2. i \in DOMAIN keys /\ keys[i] \in Key
  BY <1>1, IndexOfFound, ElementOfSeq DEF GetKeyValue
<1>3. PICK v \in Readings(keys[i]) : keys' = [keys EXCEPT ![i].value = v]
  BY DEF GetKeyValue
<1> HIDE DEF i
<1>4. v \in Value /\ (keys[i].handler = NoHandler => v = keys[i].value)
  BY <1>2, ReadingsAreValues
<1>5. /\ keys' \in Seq(Key) /\ Len(keys') = Len(keys)
      /\ \A j \in 1..Len(keys) :
           /\ keys'[j].name = keys[j].name
           /\ keys'[j].type = keys[j].type
           /\ keys'[j].handler = keys[j].handler
           /\ keys'[j].value = IF j = i THEN v ELSE keys[j].value
  BY <1>1, <1>2, <1>3, <1>4, NewValueIsKey
<1>6. Extends(keys, keys')
  BY <1>1, <1>5 DEF Extends
<1>7. SharpOK => SharpOK'
  BY <1>1, <1>4, <1>5 DEF SharpOK
<1> QED BY <1>6, <1>7

\* setHandler refuses NULL: no key changes.
LEMMA RemoveKeyHandlerStep ==
  ASSUME KeysTypeOK, NEW h, RemoveKeyHandler(h)
  PROVE  keys' = keys
<1>1. keys = [i \in DOMAIN keys |-> keys[i]]
  BY DEF KeysTypeOK
<1> QED BY <1>1 DEF RemoveKeyHandler, SetHandler

(***************************************************************************)
(* setProperties: the keys shown change their value to one they may read   *)
(* as, and the published values are values.                                *)
(***************************************************************************)
LEMMA PublishStep ==
  ASSUME KeysTypeOK, NEW I, I \subseteq DOMAIN keys, NEW r, Publish(I, r)
  PROVE  /\ KeysTypeOK'
         /\ Extends(keys, keys')
         /\ SharpOK => SharpOK'
         /\ \A n \in DOMAIN values' : (n \in DOMAIN values => values'[n] # values[n]) =>
              \E i \in DOMAIN keys' : keys'[i].name = n /\ keys'[i].value = values'[n]
<1>1. keys \in Seq(Key) /\ Len(keys) \in Nat \ {0} /\ DOMAIN keys = 1..Len(keys)
      /\ \A i \in DOMAIN keys : keys[i] \in Key /\ keys[i].name \in Name
  <2>1. keys \in Seq(Key) /\ Len(keys) \in Nat \ {0} /\ DOMAIN keys = 1..Len(keys)
    BY DEF KeysTypeOK
  <2>2. \A i \in DOMAIN keys : keys[i] \in Key
    BY <2>1, ElementOfSeq
  <2> QED BY <2>1, <2>2 DEF Key
<1>2. \A i \in I : r[i] \in Value /\ (keys[i].handler = NoHandler => r[i] = keys[i].value)
  BY <1>1, ReadingsAreValues DEF Publish
<1> DEFINE new(i) == IF i \in I THEN [keys[i] EXCEPT !.value = r[i]] ELSE keys[i]
<1>3. \A i \in DOMAIN keys :
        /\ new(i) \in Key
        /\ new(i).name = keys[i].name /\ new(i).type = keys[i].type
        /\ new(i).handler = keys[i].handler
        /\ new(i).value = IF i \in I THEN r[i] ELSE keys[i].value
  BY <1>1, <1>2 DEF Key
<1>4. keys' = [i \in 1..Len(keys) |-> new(i)]
  BY <1>1 DEF Publish
<1> HIDE DEF new
<1>5. keys' \in Seq(Key) /\ Len(keys') = Len(keys)
  BY <1>1, <1>3, <1>4
<1>6. \A i \in 1..Len(keys) : keys'[i] = new(i)
  BY <1>4
<1>7. Extends(keys, keys')
  BY <1>1, <1>3, <1>5, <1>6 DEF Extends
<1>8. SharpOK => SharpOK'
  BY <1>1, <1>2, <1>3, <1>5, <1>6 DEF SharpOK
<1>9. /\ DOMAIN values' \subseteq Name /\ \A n \in DOMAIN values' : values'[n] \in Value
      /\ \A n \in DOMAIN values' : (n \in DOMAIN values => values'[n] # values[n]) =>
           \E i \in DOMAIN keys' : keys'[i].name = n /\ keys'[i].value = values'[n]
  <2> DEFINE shown == {keys[i].name : i \in I}
  <2>1. values' = [n \in DOMAIN values \cup shown |->
                     IF n \in shown THEN r[LastAt(I, n)] ELSE values[n]]
    BY DEF Publish
  <2>2. shown \subseteq Name /\ DOMAIN values \subseteq Name
    BY <1>1 DEF KeysTypeOK
  <2>3. ASSUME NEW n \in shown
        PROVE  /\ r[LastAt(I, n)] \in Value
               /\ \E i \in DOMAIN keys' : keys'[i].name = n /\ keys'[i].value = r[LastAt(I, n)]
    <3> DEFINE T == {i \in I : keys[i].name = n}
    <3>1. T \subseteq 1..Len(keys) /\ T # {}
      BY <1>1
    <3>2. PICK x \in T : \A y \in T : y <= x
      <4> HIDE DEF T
      <4> QED BY <1>1, <3>1, LastOf
    <3>3. x \in I /\ keys[x].name = n /\ \A j \in I : keys[j].name = n => j <= x
      BY <3>2
    <3>4. LastAt(I, n) \in I /\ keys[LastAt(I, n)].name = n
      BY <3>3 DEF LastAt
    <3>5. /\ LastAt(I, n) \in 1..Len(keys) /\ DOMAIN keys' = 1..Len(keys)
          /\ keys'[LastAt(I, n)].name = n
          /\ keys'[LastAt(I, n)].value = r[LastAt(I, n)]
      BY <1>1, <1>3, <1>5, <1>6, <3>4
    <3> QED BY <1>2, <3>4, <3>5
  <2>4. \A n \in DOMAIN values : values[n] \in Value
    BY DEF KeysTypeOK
  <2> HIDE DEF shown
  <2> QED BY <2>1, <2>2, <2>3, <2>4
<1> QED BY <1>1, <1>5, <1>7, <1>8, <1>9 DEF KeysTypeOK

-----------------------------------------------------------------------------
(* The key store *)

KeysInv == KeysTypeOK /\ SharpOK

PublishesCurrent ==
  \A n \in DOMAIN values' : (n \in DOMAIN values => values'[n] # values[n]) =>
    \E i \in DOMAIN keys' : keys'[i].name = n /\ keys'[i].value = values'[n]

(***************************************************************************)
(* Every call keeps the types, the positions of the keys and the count,    *)
(* and what it publishes is current.                                       *)
(***************************************************************************)
LEMMA CallStep ==
  ASSUME KeysTypeOK, Next
  PROVE  /\ KeysTypeOK' /\ Extends(keys, keys')
         /\ SharpOK => SharpOK'
         /\ PublishesCurrent
<1> DEFINE Keeps == KeysTypeOK' /\ Extends(keys, keys') /\ (SharpOK => SharpOK')
<1>1. /\ PluginNames \subseteq Name /\ SharpName \notin PluginNames
      /\ PluginTypes \subseteq Name /\ PluginValues \subseteq Value
  BY NamesAssumption
<1>2. ASSUME values' = values, Extends(keys, keys') PROVE KeysTypeOK'
  BY <1>2 DEF KeysTypeOK, Extends
<1>3. ASSUME NEW n \in PluginNames, NEW v \in PluginValues, SetKeyValue(n, v) PROVE Keeps
  BY <1>1, <1>2, <1>3, SetKeyValueStep DEF SetKeyValue
<1>4. ASSUME NEW n \in PluginNames, NEW t \in PluginTypes, NEW v \in PluginValues,
             NEW h \in Handlers, AddKeyHandler(n, t, Len(v), h)
      PROVE  Keeps
  <2>1. Len(v) \in 1..ByteMax
    BY <1>1 DEF Value
  <2> QED BY <1>1, <1>2, <1>4, <2>1, AddKeyWithHandlerStep DEF AddKeyHandler
<1>5. ASSUME NEW n \in PluginNames, NEW t \in PluginTypes, NEW v \in PluginValues,
             AddKeyValue(n, t, v)
      PROVE  Keeps
  BY <1>1, <1>2, <1>5, AddKeyWithValueStep DEF AddKeyValue
<1>6. ASSUME NEW n \in PluginNames, GetKeyValue(n) PROVE Keeps
  BY <1>1, <1>2, <1>6, GetKeyValueStep DEF GetKeyValue
<1>7. ASSUME NEW h \in Handlers, RemoveKeyHandler(h) PROVE Keeps
  <2>1. keys' = keys /\ values' = values
    BY <1>7, RemoveKeyHandlerStep DEF RemoveKeyHandler
  <2> QED BY <2>1 DEF KeysTypeOK, SharpOK, Extends
<1>8. ASSUME NEW I, I \subseteq DOMAIN keys, NEW r, Publish(I, r) PROVE Keeps /\ PublishesCurrent
  BY <1>8, PublishStep DEF PublishesCurrent
<1>9. CASE PluginCall
  <2>1. values' = values
    BY <1>9 DEF PluginCall, SetKeyValue, AddKeyHandler, AddKeyValue, GetKeyValue, RemoveKeyHandler
  <2>2. PublishesCurrent
    BY <2>1 DEF PublishesCurrent
  <2> QED BY <2>2, <1>3, <1>4, <1>5, <1>6, <1>7, <1>9 DEF PluginCall
<1>10. ASSUME UserCall PROVE \E I \in SUBSET DOMAIN keys : \E r : Publish(I, r)
  <2>1. \A n : HasKey(n) => IndexOf(n) \in DOMAIN keys
    BY IndexOfFound DEF KeysTypeOK
  <2>2. ASSUME NEW n \in PluginNames, UpdateKeyValue(n)
        PROVE  \E I \in SUBSET DOMAIN keys : \E r : Publish(I, r)
    BY <2>1, <2>2 DEF UpdateKeyValue
  <2>3. ASSUME NEW S \in SUBSET PluginNames, PopulateList(S)
        PROVE  \E I \in SUBSET DOMAIN keys : \E r : Publish(I, r)
    BY <2>1, <2>3 DEF PopulateList
  <2>4. ASSUME PopulateValues
        PROVE  \E I \in SUBSET DOMAIN keys : \E r : Publish(I, r)
    <3>1. keys \in Seq(Key)
      BY DEF KeysTypeOK
    <3>2. PICK m \in 1..Len(keys) : \E r \in ReadingsAt(1..m) : Publish(1..m, r)
      BY <2>4 DEF PopulateValues
    <3>3. 1..m \in SUBSET DOMAIN keys
      BY <3>1, <3>2
    <3> QED BY <3>2, <3>3
  <2> QED BY <1>10, <2>2, <2>3, <2>4 DEF UserCall
<1>11. CASE UserCall
  BY <1>8, <1>10, <1>11
<1> QED BY <1>9, <1>11 DEF Next

LEMMA KeysStep ==
  ASSUME KeysInv, Next
  PROVE  KeysInv' /\ Extends(keys, keys') /\ PublishesCurrent
  BY CallStep DEF KeysInv

LEMMA KeysInitInv == Init => KeysInv
<1> SUFFICES ASSUME Init PROVE KeysInv
  OBVIOUS
<1>1. PICK v \in FirstSharpValue :
          keys = << [name |-> SharpName, type |-> SharpType, value |-> v, handler |-> NoHandler] >>
  BY DEF Init
<1>2. v \in Value
  BY SizesAssumption DEF FirstSharpValue, Value
<1>3. [name |-> SharpName, type |-> SharpType, value |-> v, handler |-> NoHandler] \in Key
  BY <1>2, NamesAssumption DEF Key
<1>4. keys \in Seq(Key) /\ Len(keys) = 1
  BY <1>1, <1>3
<1>5. DOMAIN values = {}
  BY DEF Init
<1>6. KeysTypeOK
  BY <1>4, <1>5 DEF KeysTypeOK
<1>7. SharpOK
  BY <1>1, <1>4 DEF SharpOK
<1> QED BY <1>6, <1>7 DEF KeysInv

(***************************************************************************)
(* The invariant holds: the store is well typed, and #KEY stands first and *)
(* holds the count.                                                        *)
(***************************************************************************)
THEOREM KeysInvariant == Spec => []KeysInv
<1>1. KeysInv /\ [Next]_keyVars => KeysInv'
  <2>1. KeysInv /\ UNCHANGED keyVars => KeysInv'
    BY DEF KeysInv, KeysTypeOK, SharpOK, keyVars
  <2> QED BY <2>1, KeysStep
<1> QED BY <1>1, KeysInitInv, PTL DEF Spec

(***************************************************************************)
(* The store holds keys of the right types, for any names and sizes.       *)
(***************************************************************************)
THEOREM KeysTypeCorrect == Spec => []KeysTypeOK
<1>1. KeysInv => KeysTypeOK
  BY DEF KeysInv
<1> QED BY <1>1, KeysInvariant, PTL

(***************************************************************************)
(* A client that lists the keys by index, as many as #KEY tells, never     *)
(* asks for a key that is not there, and misses none up to ByteMax keys.   *)
(***************************************************************************)
THEOREM EnumerationComplete == Spec => []EnumerationIsComplete
<1>1. KeysInv => EnumerationIsComplete
  <2> SUFFICES ASSUME KeysInv, Len(keys) > 1 PROVE EnumerationIsComplete
    BY DEF EnumerationIsComplete
  <2> DEFINE c == Len(keys)
  <2>1. c \in Nat /\ keys[1].value = SharpValue(c)
    BY DEF KeysInv, KeysTypeOK, SharpOK
  <2> HIDE DEF c
  <2>2. /\ \A p \in 1..(CountLen - 1) : keys[1].value[p] = 0
        /\ keys[1].value[CountLen] = c % (ByteMax + 1)
    BY <2>1, SharpValueIsValue
  <2>3. c % (ByteMax + 1) <= c /\ (c <= ByteMax => c % (ByteMax + 1) = c)
    BY <2>1, SizesAssumption
  <2> QED BY <2>2, <2>3 DEF EnumerationIsComplete, c
<1> QED BY <1>1, KeysInvariant, PTL

(***************************************************************************)
(* No call of a plug-in or of user space removes, renames, retypes or      *)
(* moves a key.                                                            *)
(***************************************************************************)
THEOREM KeysStable == Spec => KeysAreStable
<1> DEFINE Stable == \A i \in DOMAIN keys :
                       /\ i \in DOMAIN keys'
                       /\ keys'[i].name = keys[i].name
                       /\ keys'[i].type = keys[i].type
<1>1. KeysInv /\ [Next]_keyVars => [Stable]_keys
  <2>1. KeysInv /\ Extends(keys, keys') => Stable
    BY DEF KeysInv, KeysTypeOK, Extends
  <2>2. UNCHANGED keyVars => UNCHANGED keys
    BY DEF keyVars
  <2> QED BY <2>1, <2>2, KeysStep
<1>2. [][Stable]_keys => KeysAreStable
  BY DEF KeysAreStable
<1> HIDE DEF Stable
<1> QED BY <1>1, <1>2, KeysInvariant, PTL DEF Spec

(***************************************************************************)
(* A value that appears in the published snapshot is one the key of that   *)
(* name holds when it is published.                                        *)
(***************************************************************************)
THEOREM PublishedCurrent == Spec => PublishedIsCurrent
<1>1. KeysInv /\ [Next]_keyVars => [PublishesCurrent]_keyVars
  BY KeysStep
<1>2. [][PublishesCurrent]_keyVars => PublishedIsCurrent
  BY DEF PublishesCurrent, PublishedIsCurrent
<1> QED BY <1>1, <1>2, KeysInvariant, PTL DEF Spec

-----------------------------------------------------------------------------
(* Names *)

(***************************************************************************)
(* Sequences with the same positions have the same length.                 *)
(***************************************************************************)
LEMMA SamePositions ==
  ASSUME NEW s \in Seq(Key), NEW t \in Seq(Key), DOMAIN s = DOMAIN t
  PROVE  Len(s) = Len(t)
<1> DEFINE a == Len(s)
           b == Len(t)
<1>1. a \in Nat /\ b \in Nat /\ 1..a = 1..b
  BY LenProperties
<1> HIDE DEF a, b
<1>2. a < b => b \in 1..b /\ b \notin 1..a
  BY <1>1
<1>3. b < a => a \in 1..a /\ a \notin 1..b
  BY <1>1
<1>4. a = b
  BY <1>1, <1>2, <1>3
<1> QED BY <1>4 DEF a, b

\* A step leaves the number of keys, or pushes one under a name that was not found.
GrowsByName ==
  \/ Len(keys') = Len(keys)
  \/ \E n \in Name : /\ ~HasKey(n)
                     /\ Len(keys') = Len(keys) + 1
                     /\ keys'[Len(keys) + 1].name = CopySymbol(n)

(***************************************************************************)
(* A key pushed for a name that has no NUL has this name, which no other   *)
(* key has; a name cut at a NUL has one still.                             *)
(***************************************************************************)
LEMMA NamesStayUnique ==
  ASSUME keys \in Seq(Key), UniqueNames, Extends(keys, keys'), GrowsByName
  PROVE  UniqueNames'
<1>1. /\ Len(keys) \in Nat /\ DOMAIN keys = 1..Len(keys) /\ DOMAIN keys' = 1..Len(keys')
      /\ \A j \in 1..Len(keys) : keys'[j].name = keys[j].name
  BY DEF Extends
<1>2. CASE Len(keys') = Len(keys)
  BY <1>1, <1>2 DEF UniqueNames
<1>3. ASSUME NEW n \in Name, ~HasKey(n), Len(keys') = Len(keys) + 1,
             keys'[Len(keys) + 1].name = CopySymbol(n)
      PROVE  UniqueNames'
  <2> DEFINE c == Len(keys) + 1
  <2>1. \A j \in 1..Len(keys) : keys[j].name # n
    BY <1>1, <1>3 DEF HasKey
  <2>2. CASE \A p \in 1..NameLen : n[p] # 0
    <3>1. keys'[c].name = n
      BY <1>3, <2>2, CopySymbolIsName
    <3> HIDE DEF c
    <3>2. \A j \in 1..Len(keys) : keys'[j].name # keys'[c].name
      BY <1>1, <2>1, <3>1
    <3>3. \A j \in 1..Len(keys') : j \in 1..Len(keys) \/ j = c
      BY <1>1, <1>3 DEF c
    <3> QED BY <1>1, <3>2, <3>3 DEF UniqueNames
  <2>3. CASE \E p \in 1..NameLen : n[p] = 0
    <3>1. PICK p \in 1..NameLen : n[p] = 0
      BY <2>3
    <3>2. p \in 1..p
      BY SizesAssumption
    <3>3. CopySymbol(n)[p] = 0
      BY <3>1, <3>2 DEF CopySymbol
    <3>4. keys'[c].name[p] = 0
      BY <1>3, <3>3
    <3> HIDE DEF c
    <3>5. \A j \in 1..Len(keys') : j \in 1..Len(keys) \/ j = c
      BY <1>1, <1>3 DEF c
    <3>6. \A i, j \in DOMAIN keys' : (keys'[i].name = keys'[j].name /\ i # j) =>
            \/ i \in 1..Len(keys) /\ j \in 1..Len(keys)
            \/ keys'[i].name[p] = 0
      BY <1>1, <3>4, <3>5
    <3> QED BY <1>1, <3>1, <3>6 DEF UniqueNames
  <2> QED BY <2>2, <2>3
<1> QED BY <1>2, <1>3 DEF GrowsByName

(***************************************************************************)
(* The two calls that create keys push one for a name they did not find.   *)
(***************************************************************************)
LEMMA AddedKeyIsNamed ==
  ASSUME KeysTypeOK, NEW n \in Name, NEW t \in Name
  PROVE  /\ \A v \in Value : AddKeyWithValue(n, t, v) => GrowsByName
         /\ \A size \in 1..ByteMax, h \in Handlers : AddKeyWithHandler(n, t, size, h) => GrowsByName
<1>1. keys \in Seq(Key) /\ Len(keys) \in Nat \ {0} /\ DOMAIN keys = 1..Len(keys)
  BY DEF KeysTypeOK
<1>2. HasKey(n) => IndexOf(n) \in DOMAIN keys
  BY <1>1, IndexOfFound
<1>3. ASSUME NEW v \in Value, NEW h \in Handlers \cup {NoHandler}, ~HasKey(n),
             keys' = PushKey(NewKey(n, t, v, h))
      PROVE  GrowsByName
  <2> DEFINE k == NewKey(n, t, v, h)
  <2>1. k \in Key /\ k.name = CopySymbol(n)
    BY NewKeyIsKey
  <2>2. keys' = PushKey(k)
    BY <1>3
  <2> HIDE DEF k
  <2>3. Len(PushKey(k)) = Len(keys) + 1 /\ PushKey(k)[Len(keys) + 1].name = k.name
    BY <1>1, <2>1, PushKeyPushes
  <2> QED BY <1>3, <2>1, <2>2, <2>3 DEF GrowsByName
<1>4. ASSUME NEW v \in Value, AddKeyWithValue(n, t, v) PROVE GrowsByName
  <2>1. CASE HasKey(n)
    <3>1. keys' = [keys EXCEPT ![IndexOf(n)].value = v]
      BY <1>4, <2>1 DEF AddKeyWithValue
    <3>2. Len(keys') = Len(keys)
      BY <1>1, <1>2, <2>1, <3>1, NewValueIsKey
    <3> QED BY <3>2 DEF GrowsByName
  <2>2. CASE ~HasKey(n) /\ Named(n)
    BY <1>3, <1>4, <2>2 DEF AddKeyWithValue
  <2>3. CASE ~HasKey(n) /\ ~Named(n)
    BY <1>4, <2>3 DEF AddKeyWithValue, GrowsByName
  <2> QED BY <2>1, <2>2, <2>3
<1>5. ASSUME NEW size \in 1..ByteMax, NEW h \in Handlers, AddKeyWithHandler(n, t, size, h)
      PROVE  GrowsByName
  <2>1. CASE HasKey(n)
    <3>1. keys' = [keys EXCEPT ![IndexOf(n)].handler = h]
      BY <1>5, <2>1 DEF AddKeyWithHandler
    <3>2. Len(keys') = Len(keys)
      BY <1>1, <1>2, <2>1, <3>1, NewHandlerIsKey
    <3> QED BY <3>2 DEF GrowsByName
  <2>2. CASE ~HasKey(n) /\ Named(n)
    <3>1. keys' = PushKey(NewKey(n, t, [p \in 1..size |-> 0], h))
      BY <1>5, <2>2 DEF AddKeyWithHandler
    <3>2. [p \in 1..size |-> 0] \in Value
      BY ZeroedIsValue
    <3> QED BY <1>3, <2>2, <3>1, <3>2
  <2>3. CASE ~HasKey(n) /\ ~Named(n)
    BY <1>5, <2>3 DEF AddKeyWithHandler, GrowsByName
  <2> QED BY <2>1, <2>2, <2>3
<1> QED BY <1>4, <1>5

(***************************************************************************)
(* A name without a NUL belongs to one key, whatever plug-ins add, set and *)
(* hand over.                                                              *)
(***************************************************************************)
THEOREM NamesAreUnique == Spec => []UniqueNames
<1>1. Init => UniqueNames
  <2>1. Init => Len(keys) = 1 /\ DOMAIN keys = 1..1
    BY DEF Init
  <2> QED BY <2>1 DEF UniqueNames
<1>2. KeysInv /\ UniqueNames /\ [Next]_keyVars => UniqueNames'
  <2> SUFFICES ASSUME KeysInv, UniqueNames, Next PROVE UniqueNames'
    BY DEF keyVars, UniqueNames
  <2>1. /\ PluginNames \subseteq Name /\ PluginTypes \subseteq Name
        /\ PluginValues \subseteq Value /\ \A v \in Value : Len(v) \in 1..ByteMax
    BY NamesAssumption DEF Value
  <2>2. KeysTypeOK /\ keys \in Seq(Key) /\ DOMAIN keys = 1..Len(keys)
    BY DEF KeysInv, KeysTypeOK
  <2>3. \A n : HasKey(n) => IndexOf(n) \in DOMAIN keys
    BY <2>2, IndexOfFound
  <2>4. ASSUME NEW n \in PluginNames, NEW v, keys' = [keys EXCEPT ![IndexOf(n)].value = v]
        PROVE  GrowsByName
    <3>1. DOMAIN keys' = DOMAIN keys /\ keys' \in Seq(Key)
      BY <2>4, KeysStep DEF Extends
    <3> QED BY <2>2, <3>1, SamePositions DEF GrowsByName
  <2>5. ASSUME NEW h, RemoveKeyHandler(h) PROVE GrowsByName
    BY <2>2, <2>5, RemoveKeyHandlerStep DEF GrowsByName
  <2>6. ASSUME NEW I, NEW r, Publish(I, r) PROVE GrowsByName
    <3>1. DOMAIN keys' = DOMAIN keys /\ keys' \in Seq(Key)
      BY <2>6, KeysStep DEF Publish, Extends
    <3> QED BY <2>2, <3>1, SamePositions DEF GrowsByName
  <2>7. ASSUME PluginCall PROVE GrowsByName
    <3>1. ASSUME NEW n \in PluginNames, NEW v \in PluginValues, SetKeyValue(n, v)
          PROVE  GrowsByName
      BY <3>1, <2>4 DEF SetKeyValue
    <3>2. ASSUME NEW n \in PluginNames, GetKeyValue(n) PROVE GrowsByName
      BY <3>2, <2>4 DEF GetKeyValue
    <3>3. ASSUME NEW n \in PluginNames, NEW t \in PluginTypes, NEW v \in PluginValues,
                 NEW h \in Handlers, AddKeyHandler(n, t, Len(v), h)
          PROVE  GrowsByName
      BY <2>1, <2>2, <3>3, AddedKeyIsNamed DEF AddKeyHandler
    <3>4. ASSUME NEW n \in PluginNames, NEW t \in PluginTypes, NEW v \in PluginValues,
                 AddKeyValue(n, t, v)
          PROVE  GrowsByName
      BY <2>1, <2>2, <3>4, AddedKeyIsNamed DEF AddKeyValue
    <3> QED BY <2>5, <2>7, <3>1, <3>2, <3>3, <3>4 DEF PluginCall
  <2>8. ASSUME UserCall PROVE GrowsByName
    BY <2>6, <2>8 DEF UserCall, UpdateKeyValue, PopulateList, PopulateValues
  <2>9. GrowsByName
    BY <2>7, <2>8 DEF Next
  <2> QED BY <2>2, <2>9, KeysStep, NamesStayUnique
<1> QED BY <1>1, <1>2, KeysInvariant, PTL DEF Spec
=============================================================================
