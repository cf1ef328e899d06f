------------------------------- MODULE SMCKeys -------------------------------
(***************************************************************************)
(* The key store of FakeSMC: the OSArray of FakeSMCKey objects that a      *)
(* FakeSMCDevice keeps, the calls plug-ins make on it through              *)
(* callPlatformFunction, and the snapshot setProperties publishes.         *)
(*                                                                         *)
(* A key is a four character name, a four character type, a value buffer   *)
(* and, when a plug-in serves it, a handler.  getValue() asks the handler  *)
(* to refresh the buffer; setValueFromBuffer() replaces it.                *)
(*                                                                         *)
(* Every operation is one step here.  The code takes no lock               *)
(* (FakeSMCDevice.cpp:844, 965 are commented out): what its finer steps    *)
(* interleave to is the subject of other modules.                          *)
(*                                                                         *)
(* A definition whose name ends in _Something is a plausible slip of the   *)
(* one that follows it, which the specification does not use: it shows     *)
(* that some property would notice.                                        *)
(***************************************************************************)
EXTENDS Integers, Sequences, FiniteSets

CONSTANTS
  NameLen,      (* bytes of a key name and of a type: 4 in the code         *)
  ByteMax,      (* largest value of a byte: 255 in the code                 *)
  CountLen,     (* bytes of the value of #KEY: 4 in the code                *)
  SharpName,    (* the name "#KEY"                                          *)
  SharpType,    (* its type "ui32"                                          *)
  DefaultType,  (* type given to a key by the size of its value when the    *)
                (* creator names none: ui8, ui16, ui32 or ch8*              *)
  Handlers,     (* plug-ins that may serve keys                             *)
  NoHandler,    (* the NULL handler                                         *)
  PluginNames,  (* names plug-ins register, read and set                    *)
  PluginTypes,  (* types they register them with                            *)
  PluginValues, (* values they store in them                                *)
  SensorBytes,  (* bytes a handler may put into the buffer it serves        *)
  MaxKeys       (* bound on the number of keys, for TLC                     *)

Byte == 0..ByteMax

Name == [1..NameLen -> Byte]

\* A value buffer holds 1 to ByteMax bytes: its size is an unsigned char.
Value == {v \in Seq(Byte) : Len(v) \in 1..ByteMax}

Key == [name : Name, type : Name, value : Value, handler : Handlers \cup {NoHandler}]

ASSUME SizesAssumption ==
  /\ NameLen \in Nat \ {0}
  /\ ByteMax \in Nat \ {0}
  /\ CountLen \in 1..ByteMax
  /\ MaxKeys \in Nat

ASSUME NamesAssumption ==
  /\ SharpName \in Name /\ \A p \in 1..NameLen : SharpName[p] # 0
  /\ SharpType \in Name
  /\ DefaultType \in [1..ByteMax -> Name]
  /\ PluginNames \subseteq {n \in Name : n[1] # 0} \ {SharpName}
  /\ PluginTypes \subseteq Name
  /\ PluginValues \subseteq Value
  /\ SensorBytes \subseteq Byte
  /\ NoHandler \notin Handlers

VARIABLES
  keys,    (* the OSArray of keys, in the order they were added             *)
  values   (* the "Values" property last published, a partial map by name   *)

keyVars == <<keys, values>>

-----------------------------------------------------------------------------
(* FakeSMCKey *)

\* What copySymbol leaves in a 4 byte symbol: strlen stops at the first NUL.
CopySymbol(s) ==
  [p \in 1..NameLen |-> IF \E q \in 1..p : s[q] = 0 THEN 0 ELSE s[p]]

NewKey(n, t, v, h) ==
  [name |-> CopySymbol(n), type |-> CopySymbol(t), value |-> v, handler |-> h]

\* Values the buffer of key k may hold after getValue(): a handler fills it or
\* reports an error, which is only logged and leaves the previous value.
Readings(k) ==
  {k.value} \cup IF k.handler = NoHandler
                 THEN {}
                 ELSE [1..Len(k.value) -> SensorBytes]

-----------------------------------------------------------------------------
(* Look-up *)

HasKey_MissesLast(n) == \E i \in DOMAIN keys : i < Len(keys) /\ keys[i].name = n

HasKey(n) == \E i \in DOMAIN keys : keys[i].name = n

\* getKey(name): the first key whose four name bytes are equal.
IndexOf(n) ==
  CHOOSE i \in DOMAIN keys :
    /\ keys[i].name = n
    /\ \A j \in 1..(i - 1) : keys[j].name # n

SharpValue_Wide(count) == [p \in 1..CountLen |-> IF p = CountLen THEN count ELSE 0]

\* updateSharpKey: (char)(count << 24), << 16 and << 8 are 0, so only the low
\* byte of the count is stored.
SharpValue(count) ==
  [p \in 1..CountLen |-> IF p = CountLen THEN count % (ByteMax + 1) ELSE 0]

PushKey_AtFront(k) == [<<k>> \o keys EXCEPT ![1].value = SharpValue(Len(keys) + 1)]

PushKey_CountsBefore(k) == [Append(keys, k) EXCEPT ![1].value = SharpValue(Len(keys))]

\* keys->setObject(key) followed by updateSharpKey().
PushKey(k) == [Append(keys, k) EXCEPT ![1].value = SharpValue(Len(keys) + 1)]

\* Creation fails for a name whose first byte is NUL (init: strlen(aName) == 0).
Named(n) == n[1] # 0

AddKeyWithValue_KeepsOld(n, t, v) ==
  IF HasKey(n) THEN UNCHANGED keys
  ELSE IF Named(n) THEN /\ Len(keys) < MaxKeys
                        /\ keys' = PushKey(NewKey(n, t, v, NoHandler))
  ELSE UNCHANGED keys

\* addKeyWithValue: an existing key keeps its name, type and handler.
AddKeyWithValue(n, t, v) ==
  IF HasKey(n) THEN keys' = [keys EXCEPT ![IndexOf(n)].value = v]
  ELSE IF Named(n) THEN /\ Len(keys) < MaxKeys
                        /\ keys' = PushKey(NewKey(n, t, v, NoHandler))
  ELSE UNCHANGED keys

\* addKeyWithHandler: an existing key only changes hands; a new one is zeroed.
AddKeyWithHandler(n, t, size, h) ==
  IF HasKey(n) THEN keys' = [keys EXCEPT ![IndexOf(n)].handler = h]
  ELSE IF Named(n) THEN /\ Len(keys) < MaxKeys
                        /\ keys' = PushKey(NewKey(n, t, [p \in 1..size |-> 0], h))
  ELSE UNCHANGED keys

-----------------------------------------------------------------------------
(* callPlatformFunction, called by plug-ins *)

SetKeyValue(n, v) ==
  /\ HasKey(n)
  /\ keys' = [keys EXCEPT ![IndexOf(n)].value = v]
  /\ UNCHANGED values

AddKeyHandler(n, t, size, h) ==
  /\ AddKeyWithHandler(n, t, size, h)
  /\ UNCHANGED values

AddKeyValue(n, t, v) ==
  /\ AddKeyWithValue(n, t, v)
  /\ UNCHANGED values

\* The caller gets a pointer to the buffer; what changes is the refresh.
GetKeyValue(n) ==
  /\ HasKey(n)
  /\ \E v \in Readings(keys[IndexOf(n)]) : keys' = [keys EXCEPT ![IndexOf(n)].value = v]
  /\ UNCHANGED values

\* setHandler(aHandler): a NULL handler is refused and the old one stays.
SetHandler(k, h) == IF h = NoHandler THEN k ELSE [k EXCEPT !.handler = h]

\* kFakeSMCRemoveKeyHandler: setHandler(NULL) on every key h serves.
RemoveKeyHandler(h) ==
  /\ keys' = [i \in DOMAIN keys |->
                IF keys[i].handler = h THEN SetHandler(keys[i], NoHandler) ELSE keys[i]]
  /\ UNCHANGED values

-----------------------------------------------------------------------------
(* setProperties, called from user space: some keys are read and the values   *)
(* dictionary, with the fresh values in it, becomes the "Values" property.    *)

\* Of two keys of one name the later one overwrites the entry of the earlier.
LastAt_Any(I, n) == CHOOSE i \in I : TRUE

LastAt(I, n) == CHOOSE i \in I : /\ keys[i].name = n
                                 /\ \A j \in I : keys[j].name = n => j <= i

\* getValue() on the keys at the indices I returned r.
Publish(I, r) ==
  LET shown == {keys[i].name : i \in I}
  IN  /\ \A i \in I : r[i] \in Readings(keys[i])
      /\ keys' = [i \in DOMAIN keys |->
                    IF i \in I THEN [keys[i] EXCEPT !.value = r[i]] ELSE keys[i]]
      /\ values' = [n \in DOMAIN values \cup shown |->
                      IF n \in shown THEN r[LastAt(I, n)] ELSE values[n]]

ReadingsAt(I) == [I -> UNION {Readings(keys[i]) : i \in I}]

\* "updateKeyValue": one key by name.
UpdateKeyValue(n) ==
  /\ HasKey(n)
  /\ \E r \in ReadingsAt({IndexOf(n)}) : Publish({IndexOf(n)}, r)

\* "populateList": the keys of a list of names; unknown names are skipped.
PopulateList(S) ==
  LET I == {IndexOf(n) : n \in {m \in S : HasKey(m)}}
  IN  \E r \in ReadingsAt(I) : Publish(I, r)

\* "populateValues": every key.  The loop releases its iterator after the first
\* key (line 508) and goes on using it, so the build may end the traversal after
\* any key from the first on.
PopulateValues ==
  \E m \in 1..Len(keys) : \E r \in ReadingsAt(1..m) : Publish(1..m, r)

-----------------------------------------------------------------------------
\* #KEY is created from the literal "\1": its first byte is 1, the second the
\* terminator, and what follows is read past the end of the literal.
FirstSharpValue ==
  {v \in [1..CountLen -> Byte] : v[1] = 1 /\ (CountLen > 1 => v[2] = 0)}

Init ==
  /\ \E v \in FirstSharpValue :
       keys = << [name |-> SharpName, type |-> SharpType,
                  value |-> v, handler |-> NoHandler] >>
  /\ values = << >>

PluginCall ==
  \/ \E n \in PluginNames, v \in PluginValues : SetKeyValue(n, v)
  \/ \E n \in PluginNames, t \in PluginTypes, v \in PluginValues, h \in Handlers :
       AddKeyHandler(n, t, Len(v), h)
  \/ \E n \in PluginNames, t \in PluginTypes, v \in PluginValues : AddKeyValue(n, t, v)
  \/ \E n \in PluginNames : GetKeyValue(n)
  \/ \E h \in Handlers : RemoveKeyHandler(h)

UserCall ==
  \/ \E n \in PluginNames : UpdateKeyValue(n)
  \/ \E S \in SUBSET PluginNames : PopulateList(S)
  \/ PopulateValues

Next == PluginCall \/ UserCall

Spec == Init /\ [][Next]_keyVars

-----------------------------------------------------------------------------
\* Types of the key store.
KeysTypeOK ==
  /\ keys \in Seq(Key) /\ Len(keys) > 0
  /\ DOMAIN values \subseteq Name /\ \A n \in DOMAIN values : values[n] \in Value

\* A name without a NUL byte belongs to one key.  (The host can spell a name
\* with a NUL inside; copySymbol truncates it when the key is created, so the
\* next write of the same bytes does not find it and creates another.)
UniqueNames ==
  \A i, j \in DOMAIN keys :
    (keys[i].name = keys[j].name /\ i # j) => \E p \in 1..NameLen : keys[i].name[p] = 0

\* An index handed out for a name stays good: a key is never removed, renamed,
\* retyped or moved, whatever host and plug-ins do.
KeysAreStable ==
  [][\A i \in DOMAIN keys :
       /\ i \in DOMAIN keys'
       /\ keys'[i].name = keys[i].name
       /\ keys'[i].type = keys[i].type]_keys

\* A client that lists the keys by index asks for as many as #KEY tells: from
\* the first key added on it never asks for one that does not exist, and it sees
\* every key as long as their number fits the byte that is stored.  (Beyond 255
\* keys #KEY wraps.)
EnumerationIsComplete ==
  Len(keys) > 1 =>
    /\ \A p \in 1..(CountLen - 1) : keys[1].value[p] = 0
    /\ keys[1].value[CountLen] <= Len(keys)
    /\ Len(keys) <= ByteMax => keys[1].value[CountLen] = Len(keys)

\* A value that appears in the published snapshot is one the key of that name
\* holds when it is published.
PublishedIsCurrent ==
  [][\A n \in DOMAIN values' :
       (n \in DOMAIN values => values'[n] # values[n]) =>
         \E i \in DOMAIN keys' : keys'[i].name = n /\ keys'[i].value = values'[n]]_keyVars
=============================================================================
