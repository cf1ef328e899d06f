---------------------------- MODULE SMCBootProofs ----------------------------
(***************************************************************************)
(* Proofs about how init fills the key store: after any part of the        *)
(* dictionary and of the boot loader's properties, the keys beside #KEY    *)
(* are those of what was visited, each once.                               *)
(***************************************************************************)
EXTENDS SMCBoot, SMCKeysProofs

\* The properties that are loaded and were looked for already, and the entries
\* that are loaded and were visited.
Read == {j \in FromProperties : j < next}

Visited == FromEntries \ todo

KeyNames == {keys[i].name : i \in 2..Len(keys)}

\* Where the type and the value of key k come from.
ComesFrom(k) ==
  /\ k.name \in FromEntries => k.type = Entries[k.name].type
  /\ (\A j \in Read : Properties[j].name # k.name) => k.value = Entries[k.name].value
  /\ \A j \in Read : Properties[j].name = k.name =>
       /\ k.value = Properties[j].value
       /\ k.name \notin FromEntries => k.type = Properties[j].type

SourcesOK ==
  /\ todo \subseteq given.entries /\ given.entries \subseteq DOMAIN Entries
  /\ given.properties \subseteq 1..Len(Properties)
  /\ next \in 1..(Len(Properties) + 1)
  /\ todo # {} => next = 1

StoreOK ==
  /\ keys \in Seq(Key) /\ Len(keys) > 0 /\ keys[1].name = SharpName
  /\ \A i, j \in DOMAIN keys : keys[i].name = keys[j].name => i = j

\* The order of the dictionary leaves no trace; a property is seen at
\* /efi/platform until it was looked for and kept out.
BootInv ==
  /\ SourcesOK
  /\ StoreOK
  /\ KeyNames = Visited \cup {Properties[j].name : j \in Read}
  /\ \A i \in 2..Len(keys) : ComesFrom(keys[i])
  /\ platform = {i \in given.properties : i < next => Properties[i].name \in Kept(SkippedProperties)}

-----------------------------------------------------------------------------
(***************************************************************************)
(* What the two sources name are symbols, and none of them is #KEY.        *)
(***************************************************************************)
LEMMA EntriesAreKeys ==
  ASSUME NEW n \in DOMAIN Entries
  PROVE  /\ n \in Name /\ n # SharpName /\ n[1] # 0 /\ CopySymbol(n) = n
         /\ Entries[n].type \in Name /\ CopySymbol(Entries[n].type) = Entries[n].type
         /\ Entries[n].value \in Value
  BY BootAssumption, SourcesAssumption

LEMMA PropertiesAreKeys ==
  ASSUME NEW i \in 1..Len(Properties)
  PROVE  LET p == Properties[i]
         IN  /\ p.name \in Name /\ p.name # SharpName /\ p.name[1] # 0 /\ CopySymbol(p.name) = p.name
             /\ p.type \in Name /\ CopySymbol(p.type) = p.type
             /\ p.value \in Value
             /\ \A j \in 1..Len(Properties) : Properties[j].name = p.name => j = i
<1>1. Properties[i].name \in {Properties[j].name : j \in 1..Len(Properties)}
  OBVIOUS
<1> QED BY <1>1, BootAssumption, SourcesAssumption

LEMMA PropertiesCount == Len(Properties) \in Nat
<1>1. Properties = [i \in 1..Len(Properties) |-> Properties[i]]
  BY BootAssumption
<1> QED BY <1>1

(***************************************************************************)
(* addKeyWithValue in a store with each name once: the key of the name has *)
(* the value, and keeps the type if it was there; the others stay.         *)
(***************************************************************************)
LEMMA AddedOnce ==
  ASSUME StoreOK, NEW n \in Name, n # SharpName, n[1] # 0, CopySymbol(n) = n,
         NEW t \in Name, CopySymbol(t) = t, NEW v \in Value, AddKeyWithValue(n, t, v)
  PROVE  /\ StoreOK'
         /\ KeyNames' = KeyNames \cup {n}
         /\ \A i \in 2..Len(keys') :
              \/ /\ keys'[i].name # n /\ i \in 2..Len(keys)
                 /\ keys'[i].name = keys[i].name /\ keys'[i].type = keys[i].type
                 /\ keys'[i].value = keys[i].value
              \/ /\ keys'[i].name = n /\ keys'[i].value = v
                 /\ \/ n \notin KeyNames /\ keys'[i].type = t
                    \/ i \in 2..Len(keys) /\ keys[i].name = n /\ keys'[i].type = keys[i].type
<1>1. /\ keys \in Seq(Key) /\ Len(keys) \in Nat /\ Len(keys) > 0 /\ DOMAIN keys = 1..Len(keys)
      /\ keys[1].name = SharpName /\ 1 \in 1..Len(keys)
      /\ \A i, j \in 1..Len(keys) : keys[i].name = keys[j].name => i = j
  BY DEF StoreOK
<1>2. CASE HasKey(n)
  <2> DEFINE p == IndexOf(n)
  <2>1. p \in 1..Len(keys) /\ keys[p].name = n
    BY <1>1, <1>2, IndexOfFound
  <2>2. keys' = [keys EXCEPT ![p].value = v]
    BY <1>2 DEF AddKeyWithValue
  <2> HIDE DEF p
  <2>3. /\ keys' \in Seq(Key) /\ Len(keys') = Len(keys)
        /\ \A j \in 1..Len(keys) :
             /\ keys'[j].name = keys[j].name
             /\ keys'[j].type = keys[j].type
             /\ keys'[j].value = IF j = p THEN v ELSE keys[j].value
    BY <1>1, <2>1, <2>2, NewValueIsKey
  <2>4. p \in 2..Len(keys) /\ \A i \in 2..Len(keys) : i \in 1..Len(keys)
    BY <1>1, <2>1
  <2>5. StoreOK'
    BY <1>1, <2>3 DEF StoreOK
  <2>6. n \in KeyNames /\ KeyNames' = KeyNames
    BY <2>1, <2>3, <2>4 DEF KeyNames
  <2>7. \A i \in 2..Len(keys') : keys'[i].name = n => i = p
    BY <1>1, <2>1, <2>3, <2>4
  <2> QED BY <2>1, <2>3, <2>4, <2>5, <2>6, <2>7
<1>3. CASE ~HasKey(n)
  <2> DEFINE k == NewKey(n, t, v, NoHandler)
  <2>1. k \in Key /\ k.name = n /\ k.type = t /\ k.value = v
    <3>1. k \in Key /\ k.name = n /\ k.value = v
      BY NewKeyIsKey
    <3>2. k.type = t
      BY DEF NewKey
    <3> QED BY <3>1, <3>2
  <2>2. keys' = PushKey(k)
    BY <1>3 DEF AddKeyWithValue, Named
  <2> HIDE DEF k
  <2> DEFINE c == Len(keys) + 1
  <2>3. /\ keys' \in Seq(Key) /\ Len(keys') = c
        /\ \A j \in 1..Len(keys) :
             /\ keys'[j].name = keys[j].name
             /\ keys'[j].type = keys[j].type
             /\ j # 1 => keys'[j].value = keys[j].value
        /\ keys'[c].name = n /\ keys'[c].type = t /\ keys'[c].value = v
    BY <1>1, <2>1, <2>2, PushKeyPushes
  <2>4. /\ \A i \in 2..Len(keys) : i \in 1..Len(keys) /\ i \in 2..c /\ i # 1 /\ i # c
        /\ \A i \in 2..c : i \in 2..Len(keys) \/ i = c
        /\ \A i \in 1..c : i \in 1..Len(keys) \/ i = c
        /\ c \in 2..c /\ c \notin 1..Len(keys) /\ c \in Nat
    BY <1>1
  <2> HIDE DEF c
  <2>5. \A j \in 1..Len(keys) : keys[j].name # n
    BY <1>1, <1>3 DEF HasKey
  <2>6. StoreOK'
    <3>1. DOMAIN keys' = 1..c /\ Len(keys') > 0
      BY <2>3, <2>4
    <3>2. \A i, j \in 1..c : keys'[i].name = keys'[j].name => i = j
      BY <1>1, <2>3, <2>4, <2>5
    <3> QED BY <1>1, <2>3, <3>1, <3>2 DEF StoreOK
  <2>7. KeyNames' = KeyNames \cup {n} /\ n \notin KeyNames
    <3>1. KeyNames' = {keys'[i].name : i \in 2..c}
      BY <2>3 DEF KeyNames
    <3>2. \A i \in 2..Len(keys) : keys'[i].name = keys[i].name
      BY <2>3, <2>4
    <3> QED BY <2>3, <2>4, <2>5, <3>1, <3>2 DEF KeyNames
  <2>8. ASSUME NEW i \in 2..Len(keys')
        PROVE  \/ /\ keys'[i].name # n /\ i \in 2..Len(keys)
                  /\ keys'[i].name = keys[i].name /\ keys'[i].type = keys[i].type
                  /\ keys'[i].value = keys[i].value
               \/ keys'[i].name = n /\ keys'[i].value = v /\ n \notin KeyNames /\ keys'[i].type = t
    <3>1. CASE i = c
      BY <2>3, <2>7, <3>1
    <3>2. CASE i # c
      BY <2>3, <2>4, <2>5, <3>2
    <3> QED BY <3>1, <3>2
  <2> QED BY <2>6, <2>7, <2>8
<1> QED BY <1>2, <1>3

-----------------------------------------------------------------------------
(* The steps of init *)

LEMMA BootInitInv == BootInit => BootInv
<1> SUFFICES ASSUME BootInit PROVE BootInv
  OBVIOUS
<1>1. KeysTypeOK /\ Len(keys) = 1 /\ keys[1].name = SharpName /\ DOMAIN keys = 1..1
  <2>1. KeysInv
    BY KeysInitInv DEF BootInit
  <2>2. Len(keys) = 1 /\ keys[1].name = SharpName
    BY DEF BootInit, Init
  <2> QED BY <2>1, <2>2 DEF KeysInv, KeysTypeOK
<1>2. StoreOK
  BY <1>1 DEF StoreOK, KeysTypeOK
<1>3. SourcesOK
  BY PropertiesCount DEF SourcesOK, BootInit
<1>4. Read = {} /\ Visited = {} /\ KeyNames = {} /\ 2..Len(keys) = {}
  BY <1>1 DEF Read, Visited, KeyNames, FromProperties, FromEntries, BootInit
<1>5. platform = {i \in given.properties : i < next => Properties[i].name \in Kept(SkippedProperties)}
  <2>1. given.properties = platform /\ platform \subseteq 1..Len(Properties) /\ next = 1
    BY DEF BootInit
  <2>2. \A i \in platform : ~(i < next)
    BY <2>1
  <2> QED BY <2>1, <2>2
<1> QED BY <1>2, <1>3, <1>4, <1>5 DEF BootInv

(***************************************************************************)
(* Visiting an entry: either it is loaded, for the first time, or it is    *)
(* none of those the store is to have.                                     *)
(***************************************************************************)
LEMMA LoadEntryStep ==
  ASSUME BootInv, NEW n, LoadEntry(n)
  PROVE  BootInv'
<1>1. /\ SourcesOK /\ StoreOK /\ n \in todo /\ todo' = todo \ {n} /\ next = 1
      /\ next' = next /\ given' = given /\ platform' = platform /\ isRevLess' = isRevLess
      /\ n \in given.entries /\ n \in DOMAIN Entries
  BY DEF BootInv, SourcesOK, LoadEntry
<1>2. Read = {} /\ Read' = {} /\ FromEntries' = FromEntries /\ Len(Properties) \in Nat
  BY <1>1, PropertiesCount DEF Read, FromProperties, FromEntries, SourcesOK, Kept
<1>3. SourcesOK'
  BY <1>1 DEF SourcesOK
<1>4. platform' = {i \in given'.properties : i < next' => Properties[i].name \in Kept(SkippedProperties)'}
  BY <1>1 DEF BootInv, Kept
<1>5. CASE Loads(n)
  <2>1. n \in FromEntries /\ n \notin Visited /\ Visited' = Visited \cup {n}
    BY <1>1, <1>2, <1>5, EntriesAreKeys DEF Loads, FromEntries, Visited, Kept
  <2>2. KeyNames = Visited /\ \A i \in 2..Len(keys) : ComesFrom(keys[i])
    BY <1>2 DEF BootInv
  <2>3. /\ StoreOK' /\ KeyNames' = KeyNames \cup {n}
        /\ \A i \in 2..Len(keys') :
             \/ /\ keys'[i].name # n /\ i \in 2..Len(keys)
                /\ keys'[i].name = keys[i].name /\ keys'[i].type = keys[i].type
                /\ keys'[i].value = keys[i].value
             \/ /\ keys'[i].name = n /\ keys'[i].value = Entries[n].value
                /\ \/ n \notin KeyNames /\ keys'[i].type = Entries[n].type
                   \/ i \in 2..Len(keys) /\ keys[i].name = n /\ keys'[i].type = keys[i].type
    <3>1. AddKeyWithValue(n, Entries[n].type, Entries[n].value)
      BY <1>5 DEF LoadEntry
    <3>2. /\ n \in Name /\ n # SharpName /\ n[1] # 0 /\ CopySymbol(n) = n
          /\ Entries[n].type \in Name /\ CopySymbol(Entries[n].type) = Entries[n].type
          /\ Entries[n].value \in Value
      BY <1>1, EntriesAreKeys
    <3> QED BY <1>1, <3>1, <3>2, AddedOnce
  <2>4. ASSUME NEW i \in 2..Len(keys') PROVE ComesFrom(keys[i])'
    <3>1. n \notin KeyNames
      BY <2>1, <2>2
    <3>2. \A j \in 2..Len(keys) : keys[j].name # n
      BY <3>1 DEF KeyNames
    <3> QED BY <1>2, <2>2, <2>3, <3>1, <3>2 DEF ComesFrom
  <2> QED BY <1>2, <1>3, <1>4, <2>1, <2>2, <2>3, <2>4 DEF BootInv
<1>6. CASE ~Loads(n)
  <2>1. n \notin FromEntries /\ Visited' = Visited /\ keys' = keys
    BY <1>1, <1>2, <1>6 DEF Loads, FromEntries, Visited, Kept, LoadEntry
  <2>2. StoreOK' /\ KeyNames' = KeyNames
    BY <1>1, <2>1 DEF StoreOK, KeyNames
  <2>3. \A i \in 2..Len(keys') : ComesFrom(keys[i])'
    BY <1>2, <2>1 DEF BootInv, ComesFrom
  <2> QED BY <1>2, <1>3, <1>4, <2>1, <2>2, <2>3 DEF BootInv
<1> QED BY <1>5, <1>6

(***************************************************************************)
(* Looking for a property: one that is loaded gives its value to the key   *)
(* of the dictionary, or is a new key; one that is kept out leaves         *)
(* /efi/platform.                                                          *)
(***************************************************************************)
LEMMA LoadPropertyStep ==
  ASSUME BootInv, LoadProperty
  PROVE  BootInv'
<1> DEFINE p == Properties[next]
           n == Properties[next].name
           skip == isRevLess /\ p.name \in SkippedProperties
<1>1. /\ SourcesOK /\ StoreOK /\ todo = {} /\ todo' = todo /\ next' = next + 1
      /\ given' = given /\ isRevLess' = isRevLess /\ next \in 1..Len(Properties)
      /\ Len(Properties) \in Nat /\ given.properties \subseteq 1..Len(Properties)
  BY PropertiesCount DEF BootInv, SourcesOK, LoadProperty
<1>2. /\ n \in Name /\ n # SharpName /\ n[1] # 0 /\ CopySymbol(n) = n
      /\ p.type \in Name /\ CopySymbol(p.type) = p.type
      /\ p.value \in Value
      /\ \A j \in 1..Len(Properties) : Properties[j].name = n => j = next
  BY <1>1, PropertiesAreKeys
<1>3. SourcesOK'
  BY <1>1 DEF SourcesOK
<1>4. FromEntries' = FromEntries /\ Visited' = Visited /\ FromProperties' = FromProperties
      /\ Kept(SkippedProperties)' = Kept(SkippedProperties)
  BY <1>1 DEF FromEntries, Visited, FromProperties, Kept
<1>5. FromProperties \subseteq 1..Len(Properties) /\ (next \in platform <=> next \in given.properties)
  BY <1>1 DEF FromProperties, BootInv
<1>6. skip <=> n \notin Kept(SkippedProperties)
  BY <1>2 DEF Kept
<1>7. next \in FromProperties <=> next \in platform /\ ~skip
  BY <1>5, <1>6 DEF FromProperties
<1>8. platform' = IF skip THEN platform \ {next} ELSE platform
  BY DEF LoadProperty
<1>9. platform' = {i \in given'.properties : i < next' => Properties[i].name \in Kept(SkippedProperties)'}
  <2>1. \A i \in given.properties : i < next + 1 <=> (i < next \/ i = next)
    BY <1>1
  <2>2. platform = {i \in given.properties : i < next => Properties[i].name \in Kept(SkippedProperties)}
    BY DEF BootInv
  <2>3. \A i \in given.properties : i = next => ~(i < next)
    BY <1>1
  <2> HIDE DEF skip
  <2>4. CASE skip
    BY <1>1, <1>4, <1>6, <1>8, <2>1, <2>2, <2>3, <2>4
  <2>5. CASE ~skip
    BY <1>1, <1>4, <1>6, <1>8, <2>1, <2>2, <2>3, <2>5
  <2> QED BY <2>4, <2>5
<1> HIDE DEF p, skip
<1>10. CASE next \in FromProperties
  <2>1. Read' = Read \cup {next} /\ next \notin Read
    BY <1>1, <1>4, <1>5, <1>10 DEF Read
  <2>2. /\ StoreOK' /\ KeyNames' = KeyNames \cup {n}
        /\ \A i \in 2..Len(keys') :
             \/ /\ keys'[i].name # n /\ i \in 2..Len(keys)
                /\ keys'[i].name = keys[i].name /\ keys'[i].type = keys[i].type
                /\ keys'[i].value = keys[i].value
             \/ /\ keys'[i].name = n /\ keys'[i].value = p.value
                /\ \/ n \notin KeyNames /\ keys'[i].type = p.type
                   \/ i \in 2..Len(keys) /\ keys[i].name = n /\ keys'[i].type = keys[i].type
    <3>1. AddKeyWithValue(n, p.type, p.value)
      BY <1>7, <1>10 DEF LoadProperty, p, skip
    <3> HIDE DEF n
    <3> QED BY <1>1, <1>2, <3>1, AddedOnce
  <2>3. KeyNames = Visited \cup {Properties[j].name : j \in Read}
    BY DEF BootInv
  <2>4. KeyNames' = Visited' \cup {Properties[j].name : j \in Read'}
    BY <1>4, <2>1, <2>2, <2>3
  <2>5. \A j \in Read : Properties[j].name # n
    BY <1>2, <1>5, <2>1 DEF Read
  <2>6. Visited = FromEntries
    BY <1>1 DEF Visited
  <2>7. n \in FromEntries => n \in KeyNames
    BY <2>3, <2>6
  <2>8. ASSUME NEW i \in 2..Len(keys') PROVE ComesFrom(keys[i])'
    <3>1. CASE keys'[i].name # n
      <4>1. /\ i \in 2..Len(keys) /\ ComesFrom(keys[i])
            /\ keys'[i].name = keys[i].name /\ keys'[i].type = keys[i].type
            /\ keys'[i].value = keys[i].value
        BY <2>2, <3>1 DEF BootInv
      <4> QED BY <1>4, <2>1, <3>1, <4>1 DEF ComesFrom
    <3>2. CASE keys'[i].name = n
      <4>1. keys'[i].value = p.value
        BY <2>2, <3>2
      <4>2. n \in FromEntries => keys'[i].type = Entries[n].type
        <5>1. ASSUME i \in 2..Len(keys), keys[i].name = n, n \in FromEntries
              PROVE  keys[i].type = Entries[n].type
          BY <5>1 DEF BootInv, ComesFrom
        <5> QED BY <2>2, <2>7, <3>2, <5>1
      <4>3. n \notin FromEntries => n \notin KeyNames
        BY <2>3, <2>5, <2>6
      <4>4. n \notin FromEntries => keys'[i].type = p.type
        <5>1. \A j \in 2..Len(keys) : keys[j].name \in KeyNames
          BY DEF KeyNames
        <5> QED BY <2>2, <3>2, <4>3, <5>1
      <4>5. \A j \in Read' : Properties[j].name = n => j = next
        BY <2>1, <2>5
      <4> QED BY <1>4, <2>1, <3>2, <4>1, <4>2, <4>4, <4>5 DEF ComesFrom, p
    <3> QED BY <3>1, <3>2
  <2> QED BY <1>3, <1>9, <2>2, <2>4, <2>8 DEF BootInv
<1>11. CASE next \notin FromProperties
  <2>1. keys' = keys
    BY <1>7, <1>11 DEF LoadProperty, p, skip
  <2>2. Read' = Read
    <3> DEFINE last == Len(Properties)
    <3>a. last \in Nat /\ next \in 1..last /\ FromProperties \subseteq 1..last
      BY <1>1, <1>5
    <3> HIDE DEF last
    <3>b. next \in Nat /\ \A j \in FromProperties : j \in Nat
      BY <3>a
    <3>1. FromProperties' = FromProperties /\ next \in Nat /\ \A j \in FromProperties : j \in Nat
      BY <1>4, <3>b
    <3>2. \A j \in FromProperties : j < next' <=> j < next
      BY <1>1, <1>11, <3>1
    <3> QED BY <3>1, <3>2 DEF Read
  <2>3. StoreOK' /\ KeyNames' = KeyNames
    BY <1>1, <2>1 DEF StoreOK, KeyNames
  <2>4. \A i \in 2..Len(keys') : ComesFrom(keys[i])'
    BY <1>4, <2>1, <2>2 DEF BootInv, ComesFrom
  <2> QED BY <1>3, <1>4, <1>9, <2>2, <2>3, <2>4 DEF BootInv
<1> QED BY <1>10, <1>11

(***************************************************************************)
(* The store holds what was visited of the two sources, in every state of  *)
(* init and for every order of the dictionary.                             *)
(***************************************************************************)
THEOREM BootInvariant == BootSpec => []BootInv
<1>1. BootInv /\ [BootNext]_bootVars => BootInv'
  <2> SUFFICES ASSUME BootInv, [BootNext]_bootVars PROVE BootInv'
    OBVIOUS
  <2>1. CASE BootNext
    BY <2>1, LoadEntryStep, LoadPropertyStep DEF BootNext
  <2>2. CASE UNCHANGED bootVars
    BY <2>2 DEF BootInv, SourcesOK, StoreOK, KeyNames, Visited, Read, ComesFrom, Kept,
       FromEntries,
               FromProperties, bootVars, keyVars
  <2> QED BY <2>1, <2>2
<1> QED BY <1>1, BootInitInv, PTL DEF BootSpec

(***************************************************************************)
(* What is in the store when init returns depends on the sources and the   *)
(* machine alone: the boot loader's value, the dictionary's type, and no   *)
(* revision keys where there are to be none.                               *)
(***************************************************************************)
THEOREM BootsToTheSame == BootSpec => []BootOutcome
<1>1. BootInv => BootOutcome
  <2> SUFFICES ASSUME BootInv, Booted PROVE BootOutcome
    BY DEF BootOutcome
  <2> DEFINE source == {Properties[i] : i \in FromProperties}
             loaded == {Properties[i].name : i \in FromProperties}
             given_(n) == CHOOSE q \in source : q.name = n
             TypeOf(n) == IF n \in FromEntries THEN Entries[n].type ELSE given_(n).type
             ValueOf(n) == IF n \in loaded THEN given_(n).value ELSE Entries[n].value
             all == FromEntries \cup loaded
  <2>1. /\ Visited = FromEntries /\ Read = FromProperties /\ KeyNames = all
        /\ FromProperties \subseteq 1..Len(Properties)
    BY PropertiesCount DEF Booted, Visited, Read, BootInv, SourcesOK, FromProperties
  <2>2. /\ keys \in Seq(Key) /\ Len(keys) \in Nat /\ Len(keys) > 0 /\ DOMAIN keys = 1..Len(keys)
        /\ \A i, j \in 1..Len(keys) : keys[i].name = keys[j].name => i = j
    BY DEF BootInv, StoreOK
  <2>3. \A i \in FromProperties : given_(Properties[i].name) = Properties[i]
    <3> SUFFICES ASSUME NEW i \in FromProperties PROVE given_(Properties[i].name) = Properties[i]
      OBVIOUS
    <3>1. \A q \in source : q.name = Properties[i].name => q = Properties[i]
      BY <2>1, PropertiesAreKeys
    <3> QED BY <3>1
  <2> HIDE DEF given_, source
  <2>4. ASSUME NEW i \in 2..Len(keys)
        PROVE  /\ keys[i].name \in all
               /\ keys[i].type = TypeOf(keys[i].name)
               /\ keys[i].value = ValueOf(keys[i].name)
    <3>1. ComesFrom(keys[i]) /\ keys[i].name \in all
      BY <2>1 DEF BootInv, KeyNames
    <3>2. CASE keys[i].name \in loaded
      <4>1. PICK j \in FromProperties : Properties[j].name = keys[i].name
        BY <3>2
      <4> QED BY <2>1, <2>3, <3>1, <3>2, <4>1 DEF ComesFrom
    <3>3. CASE keys[i].name \notin loaded
      BY <2>1, <3>1, <3>3 DEF ComesFrom
    <3> QED BY <3>1, <3>2, <3>3
  <2>5. Len(keys) = 1 + Cardinality(all)
    <3> DEFINE c == Len(keys) - 1
               f == [i \in 1..c |-> keys[i + 1].name]
    <3>1. c \in Nat /\ \A i \in 1..c : i + 1 \in 2..Len(keys) /\ i + 1 \in 1..Len(keys)
      BY <2>2
    <3>2. \A i \in 2..Len(keys) : i - 1 \in 1..c /\ (i - 1) + 1 = i
      BY <2>2
    <3> HIDE DEF c
    <3>3. ASSUME NEW n \in all PROVE \E i \in 1..c : f[i] = n
      <4>1. PICK i \in 2..Len(keys) : keys[i].name = n
        BY <2>1 DEF KeyNames
      <4> QED BY <3>2, <4>1
    <3>4. f \in Bijection(1..c, all)
      <4>1. f \in [1..c -> all]
        BY <2>4, <3>1
      <4>2. \A i, j \in 1..c : f[i] = f[j] => i = j
        BY <2>2, <3>1
      <4>3. f \in Injection(1..c, all)
        BY <4>1, <4>2 DEF Injection, IsInjective
      <4>4. f \in Surjection(1..c, all)
        BY <3>3, <4>1 DEF Surjection
      <4> QED BY <4>3, <4>4 DEF Bijection
    <3>5. Cardinality(all) = c
      <4>1. ExistsBijection(1..c, all)
        BY <3>4 DEF ExistsBijection
      <4>2. IsFiniteSet(1..c) /\ Cardinality(1..c) = c
        BY <3>1, FS_Interval
      <4> QED BY <4>1, <4>2, FS_Bijection, FS_CardinalityType
    <3> QED BY <2>2, <3>5 DEF c
  <2>6. {[name |-> keys[i].name, type |-> keys[i].type, value |-> keys[i].value] : i \in 2..Len(keys)}
        = {[name |-> n, type |-> TypeOf(n), value |-> ValueOf(n)] : n \in all}
    <3>1. \A n \in all : \E i \in 2..Len(keys) : keys[i].name = n
      BY <2>1 DEF KeyNames
    <3> HIDE DEF TypeOf, ValueOf, all
    <3> QED BY <2>4, <3>1
  <2>7. ASSUME isRevLess
        PROVE  /\ \A n \in RevisionKeys : ~HasKey(n)
               /\ \A i \in platform : Properties[i].name \notin RevisionKeys
    <3>1. RevisionKeys \cap all = {}
      BY <2>7 DEF RevisionKeys, FromEntries, FromProperties, Kept, SkippedEntries,
         SkippedProperties
    <3>2. SharpName \notin RevisionKeys
      BY BootAssumption DEF RevisionKeys
    <3>3. \A i \in 1..Len(keys) : keys[i].name = SharpName \/ keys[i].name \in all
      <4>1. \A i \in 1..Len(keys) : i = 1 \/ i \in 2..Len(keys)
        BY <2>2
      <4> QED BY <2>4, <4>1 DEF BootInv, StoreOK
    <3>4. \A n \in RevisionKeys : ~HasKey(n)
      <4> HIDE DEF all
      <4> QED BY <2>2, <3>1, <3>2, <3>3 DEF HasKey
    <3>5. \A i \in platform : Properties[i].name \notin SkippedProperties
      <4>1. \A i \in given.properties : i < next
        BY PropertiesCount DEF BootInv, SourcesOK, Booted
      <4> QED BY <2>7, <4>1 DEF BootInv, Kept
    <3> QED BY <3>4, <3>5 DEF RevisionKeys, SkippedProperties
  <2> QED BY <2>5, <2>6, <2>7 DEF BootOutcome, given_, source
<1> QED BY <1>1, BootInvariant, PTL
=============================================================================
