------------------------------- MODULE SMCBoot -------------------------------
(***************************************************************************)
(* How FakeSMCDevice::init fills the key store before any plug-in or the   *)
(* host sees it: from the Keys dictionary of the kext, in whatever order   *)
(* the dictionary is traversed, and then from the properties the boot      *)
(* loader (Clover) left at /efi/platform, in the order of the source.      *)
(*                                                                         *)
(* Machines of some models and newer have no revision keys: for those,     *)
(* isRevLess keeps some keys out of the store.                             *)
(***************************************************************************)
EXTENDS SMCKeys

CONSTANTS
  REV, RBr, RVBF, EPCI,  (* the names of the revision keys                  *)
  Entries,               (* entries of the Keys dictionary by name, each    *)
                         (* [usable, type, value]                           *)
  Properties,            (* the properties loadKeysFromClover looks for, in *)
                         (* order, each [name, type, value]                 *)
  Args,                  (* boot arguments the user may give                *)
  Versions               (* major versions of the models considered         *)

Families ==
  <<"MacPro", "MacBookAir", "MacBookPro", "MacBook", "Macmini", "iMacPro", "iMac">>

\* A machine: its family and its major version; minor versions start at 1.
Model == [family : {Families[f] : f \in 1..Len(Families)}, maj : Versions]

NoModel == [family |-> "none", maj |-> 0]

ASSUME BootAssumption ==
  /\ {REV, RBr, RVBF, EPCI} \subseteq {n \in Name : n[1] # 0}
  /\ DOMAIN Entries \subseteq {n \in Name : n[1] # 0}
  /\ \A n \in DOMAIN Entries :
       /\ Entries[n].usable \in BOOLEAN
       /\ Entries[n].type \in Name /\ Entries[n].value \in Value
  /\ Properties = [i \in 1..Len(Properties) |-> Properties[i]]
  /\ \A i \in 1..Len(Properties) :
       /\ Properties[i].name \in {n \in Name : n[1] # 0}
       /\ Properties[i].type \in Name /\ Properties[i].value \in Value
  /\ LET asked == {Properties[i].name : i \in 1..Len(Properties)}
     IN  SharpName \notin {REV, RBr, RVBF, EPCI} \cup DOMAIN Entries \cup asked
  /\ Args \subseteq {"-withREV", "-noREV"}
  /\ Versions \subseteq Nat \ {0}

\* No name and no type of the two sources goes on after a NUL, and the boot loader
\* is asked for each property once.
ASSUME SourcesAssumption ==
  /\ \A n \in DOMAIN Entries : CopySymbol(n) = n /\ CopySymbol(Entries[n].type) = Entries[n].type
  /\ \A i \in 1..Len(Properties) :
       /\ CopySymbol(Properties[i].name) = Properties[i].name
       /\ CopySymbol(Properties[i].type) = Properties[i].type
       /\ \A j \in 1..Len(Properties) : Properties[i].name = Properties[j].name => i = j

VARIABLES
  args,       (* the boot arguments given                                   *)
  model,      (* the machine's model, or NoModel without /efi/platform      *)
  isRevLess,
  todo,       (* names of the dictionary not yet visited                    *)
  platform,   (* positions in Properties that /efi/platform holds           *)
  next,       (* position of the next property to look for                  *)
  given       (* history: the dictionary and the properties init was given  *)

bootVars == <<keyVars, args, model, isRevLess, todo, platform, next, given>>

-----------------------------------------------------------------------------
(* isModelREVLess *)

\* hw_strstr(model, f): f occurs in the name of the family, at the front of it
\* or, of "iMacPro", one letter on.
FrontOf(g) ==
  {g} \cup CASE g = "iMacPro" -> {"iMac"}
             [] g \in {"MacBookPro", "MacBookAir"} -> {"MacBook"}
             [] OTHER -> {}

OccursIn(g) == FrontOf(g) \cup IF g = "iMacPro" THEN {"MacPro"} ELSE {}

\* The first family of the list that occurs in the name of the model.
Matched(m) ==
  Families[CHOOSE f \in 1..Len(Families) :
             /\ Families[f] \in OccursIn(m.family)
             /\ \A g \in 1..(f - 1) : Families[g] \notin OccursIn(m.family)]

\* What follows as many letters as the matched family has is the version, unless
\* the match was not the family itself: then a letter comes first and strtol
\* makes 0 of it.
Major(m) == IF Matched(m) = m.family THEN m.maj ELSE 0

FirstRevLess == [f \in {"iMacPro", "Macmini", "MacBookAir", "MacBookPro"} |->
                   CASE f = "iMacPro" -> 1
                     [] f = "MacBookPro" -> 15
                     [] OTHER -> 8]

IsModelREVLess(m) ==
  /\ m # NoModel
  /\ Major(m) # 0
  /\ Matched(m) \in DOMAIN FirstRevLess
  /\ Major(m) >= FirstRevLess[Matched(m)]

RevLess(a, m) ==
  IF "-withREV" \in a THEN FALSE ELSE "-noREV" \in a \/ IsModelREVLess(m)

-----------------------------------------------------------------------------
(* loadKeysFromDictionary and loadKeysFromClover *)


SkippedEntries == {REV, EPCI, RBr}

SkippedProperties == {RBr, REV, RVBF, EPCI}

\* An entry whose type is no string or whose value is no data is passed over.
Loads(n) == Entries[n].usable /\ ~(isRevLess /\ n \in SkippedEntries)

LoadEntry(n) ==
  /\ n \in todo
  /\ todo' = todo \ {n}
  /\ IF Loads(n)
     THEN AddKeyWithValue(n, Entries[n].type, Entries[n].value)
     ELSE UNCHANGED keys
  /\ UNCHANGED <<values, args, model, isRevLess, platform, next, given>>

\* A property that is not loaded is removed from /efi/platform.
LoadProperty ==
  /\ todo = {}
  /\ next <= Len(Properties)
  /\ next' = next + 1
  /\ LET p == Properties[next]
         skip == isRevLess /\ p.name \in SkippedProperties
     IN  IF next \in platform /\ ~skip
         THEN AddKeyWithValue(p.name, p.type, p.value) /\ UNCHANGED platform
         ELSE UNCHANGED keys /\ platform' = IF skip THEN platform \ {next} ELSE platform
  /\ UNCHANGED <<values, args, model, isRevLess, todo, given>>

BootInit ==
  /\ Init
  /\ args \in SUBSET Args
  /\ model \in Model \cup {NoModel}
  /\ isRevLess = RevLess(args, model)
  /\ todo \in SUBSET DOMAIN Entries
  /\ platform \in SUBSET (1..Len(Properties)) /\ (model = NoModel => platform = {})
  /\ next = 1
  /\ given = [entries |-> todo, properties |-> platform]

BootNext == (\E n \in todo : LoadEntry(n)) \/ LoadProperty

BootSpec == BootInit /\ [][BootNext]_bootVars

-----------------------------------------------------------------------------
Booted == todo = {} /\ next > Len(Properties)

RevisionKeys == {REV, RBr, EPCI}

Kept(skipped) == IF isRevLess THEN Name \ skipped ELSE Name

FromEntries == {n \in given.entries : Entries[n].usable} \cap Kept(SkippedEntries)

FromProperties ==
  {i \in given.properties : Properties[i].name \in Kept(SkippedProperties)}

\* What is in the store when init returns does not depend on the order in which
\* the dictionary is traversed: every key once; a property of the boot loader
\* wins over an entry of the dictionary, but only its value: the type stays the
\* one the dictionary gave.  On a machine that is to have no revision keys none of
\* the two sources brings one in, and none is left for the operating system to see
\* at /efi/platform.
BootOutcome ==
  Booted =>
    LET loaded == {Properties[i].name : i \in FromProperties}
        TypeOf(n) == IF n \in FromEntries THEN Entries[n].type
                     ELSE (CHOOSE p \in {Properties[i] : i \in FromProperties} : p.name = n).type
        ValueOf(n) == IF n \in loaded
                      THEN (CHOOSE p \in {Properties[i] : i \in FromProperties} : p.name = n).value
                      ELSE Entries[n].value
    IN  /\ Len(keys) = 1 + Cardinality(FromEntries \cup loaded)
        /\ {[name |-> keys[i].name, type |-> keys[i].type, value |-> keys[i].value] :
              i \in 2..Len(keys)}
           = {[name |-> n, type |-> TypeOf(n), value |-> ValueOf(n)] :
              n \in FromEntries \cup loaded}
        /\ isRevLess =>
             /\ \A n \in RevisionKeys : ~HasKey(n)
             /\ \A i \in platform : Properties[i].name \notin RevisionKeys

\* "don't add 'REV ', 'RBr ' and EPCI if for these models and newer: ...".
ListedModels ==
  {m \in Model : m.family \in DOMAIN FirstRevLess /\ m.maj >= FirstRevLess[m.family]}

ListedModelsHaveNoRevision ==
  (Booted /\ model \in ListedModels /\ args = {}) => \A n \in RevisionKeys : ~HasKey(n)
=============================================================================
