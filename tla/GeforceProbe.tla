------------------------------ MODULE GeforceProbe ------------------------------
(***************************************************************************)
(* How GeforceSensors finds the sensor chip of a graphics card: it looks   *)
(* in the VBIOS' table of external devices, then tries a list of types and *)
(* addresses on two ports.  A type is tried by asking for the address,     *)
(* making a device record on the bus and reading the identity; with the    *)
(* chip come the functions that read it, and the keys.                     *)
(*                                                                         *)
(* The loop over the table goes on while there is no entry: with an entry  *)
(* it ends at once, having read none, and without one it never ends, for   *)
(* it then looks at the first byte of the image, 55h, which is the type of *)
(* no sensor.  No address ever comes from the VBIOS.                       *)
(*                                                                         *)
(* The chips are external.  One of the LM90's relatives is known by its    *)
(* identity registers, any other by its name.  A chip that is there may    *)
(* fail to answer.  A detection that goes on after a failed read compares  *)
(* an uninitialized byte, which may be anything.                           *)
(***************************************************************************)
EXTENDS Integers, Sequences, SequencesExt, FiniteSets

CONSTANTS
  Cards,      (* where the two default ports lead, the entries of the table *)
              (* of external devices, and the chips on each port            *)
  MaxFlaky    (* bound: questions a chip does not answer                    *)

NoPort == -1
NoAddress == 0
Bytes == 0..255
Addresses == 1..127

\* The W83781D says it is Asus' or Winbond's; the others by their own identities.
ChipKinds == {"W83L785R", "W83781D", "ADT7473", "ADT7475", "ADT7476", "ADT7490", "F75375", "F75373", "LM", "other"}

ASSUME CardAssumption ==
  /\ MaxFlaky \in Nat
  /\ \A c \in Cards :
       /\ c.ports \in [0..1 -> Nat \union {NoPort}]
       /\ c.external \in 0..255
       /\ \A p \in DOMAIN c.chips :
            /\ DOMAIN c.chips[p] \subseteq Addresses
            /\ \A a \in DOMAIN c.chips[p] :
                 c.chips[p][a] \in [kind : ChipKinds,
                                    man : Bytes, id : Bytes, config : SUBSET (0..7), rate : Bytes, limits : BOOLEAN]

VARIABLES
  card,
  searches,   (* the calls of identify still to be made: port and list      *)
  entry,      (* the entry of the table or the list it is at                *)
  doing,      (* what it is doing                                           *)
  bus,        (* the bus record of this call exists                         *)
  devs,       (* the addresses of the device records on it                  *)
  sensor,     (* nvclock_i2c_sensor: port and address, or none              *)
  functions,  (* the chip_id whose functions were installed, or "none"      *)
  tempKeys,   (* kinds of the temperature keys that were registered         *)
  unlocked,   (* hardware: the extended CRTC registers are unlocked         *)
  flaky,      (* history: how many questions were not answered              *)
  garbled     (* history: a chip was recognized by uninitialized bytes      *)

geforceVars == <<card, searches, entry, doing, bus, devs, sensor, functions, tempKeys, unlocked, flaky, garbled>>

-----------------------------------------------------------------------------
(* The lists of nouveau_i2c_probe.                                          *)

StaticList ==
  <<<<"w83l785ts", \h2D>>, <<"w83781d", \h2D>>, <<"adt7473", \h2E>>, <<"adt7473", \h2D>>, <<"adt7473", \h2C>>,
    <<"f75375", \h2E>>, <<"lm99", \h4C>>, <<"lm90", \h4C>>, <<"lm90", \h4D>>,
    <<"adm1021", \h18>>, <<"adm1021", \h19>>, <<"adm1021", \h1A>>, <<"adm1021", \h29>>, <<"adm1021", \h2A>>,
    <<"adm1021", \h2B>>, <<"adm1021", \h4C>>, <<"adm1021", \h4D>>, <<"adm1021", \h4E>>,
    <<"lm63", \h18>>, <<"lm63", \h4E>>>>

Search(on, list) == [on |-> on, list |-> list]

Searches == <<Search(0, StaticList), Search(1, StaticList)>>

Port == card.ports[Head(searches).on]
List == Head(searches).list
Type == List[entry][1]
Address == List[entry][2]
Present(p, a) == p \in DOMAIN card.chips /\ a \in DOMAIN card.chips[p]

-----------------------------------------------------------------------------
(* The detections.                                                          *)

\* lm99_detect: the maker, the addresses and the identities, bits of the first
\* configuration register that must be clear, those that must be set, and the
\* fastest conversion rate.  The second configuration register is read from the
\* register of the rate, so that rates above 7 are refused for two makers.
LmRule(man, at, ids, clear, set, rate, is) ==
  [man |-> man, at |-> at, ids |-> ids, clear |-> clear, set |-> set, rate |-> rate, is |-> is]

LmRules ==
  {LmRule(\h01, {\h4C}, (\h20)..(\h2F), {1, 3, 5}, {}, 7, "LM99"),
   LmRule(\h01, {\h4C, \h4D}, (\h30)..(\h3F), {1, 3, 5}, {}, 7, "LM99"),
   LmRule(\h01, {\h4C}, (\h10)..(\h1F), {1, 3, 5}, {}, 7, "LM99"),
   LmRule(\h41, {\h4C, \h4D}, (\h40)..(\h4F), 0..5, {}, 10, "LM99"),
   LmRule(\h41, {\h4C, \h4D}, {\h51}, {0, 1, 3, 4}, {}, 10, "LM99"),
   LmRule(\h41, {\h4C, \h4D}, {\h57}, {0, 1, 3, 4}, {}, 10, "MAX6559"),
   LmRule(\h4D, (\h4C)..(\h4E), {\h4D}, {1, 4}, {0, 2, 3}, 9, "MAX6559"),
   LmRule(\h4D, Addresses, {\h59}, 0..5, {}, 7, "MAX6559"),
   LmRule(\h5C, {\h4C}, {\h01}, {1, 3, 5}, {}, 7, "MAX6559"),
   LmRule(\h5C, {\h4C}, {\h10, \h11}, {1, 3, 5}, {}, 7, "LM99"),
   LmRule(\hA1, (\h48)..(\h4F), {\h00}, {1, 3, 5}, {}, 9, "LM99"),
   LmRule(\h47, {\h4C, \h4D}, {\h01}, 0..5, {}, 8, "LM99")}

\* A Maxim chip with identity 1 is told by whether it has further limit registers.
MaximOne(chip) ==
  IF chip.rate > 7 THEN {}
  ELSE IF chip.limits /\ 4 \notin chip.config THEN {"MAX6559"}
  ELSE IF {0, 1} \intersect chip.config = {} THEN {"LM99"} ELSE {}

LmFamily(chip, a) ==
  IF chip.man = \h4D /\ chip.id = 1 THEN MaximOne(chip)
  ELSE {r.is : r \in {q \in LmRules : /\ chip.man = q.man /\ a \in q.at /\ chip.id \in q.ids
                                    /\ chip.config \intersect q.clear = {} /\ q.set \subseteq chip.config
                                    /\ chip.rate <= q.rate}}

\* adt7473_detect: an ADT7475 is expected at one address only.
Adt7473Family(chip, a) ==
  IF chip.kind \in {"ADT7473", "ADT7476", "ADT7490"} \/ (chip.kind = "ADT7475" /\ a = \h2E) THEN {"ADT7473"} ELSE {}
F75375Family(chip) == IF chip.kind \in {"F75375", "F75373"} THEN {"F75375"} ELSE {}
W83781dFamily(chip) == {"W83781D"} \intersect {chip.kind}

\* The functions a detection finds for a chip: none, or one set.  There is no
\* detection for an adm1021, and no functions.
Family_ByMaker(type, chip, a) ==
  CASE type = "w83l785ts" -> {"W83L785R"} \intersect {IF chip.kind = "W83781D" THEN "W83L785R" ELSE chip.kind}
    [] type = "w83781d" -> W83781dFamily(chip)
    [] type = "adt7473" -> Adt7473Family(chip, a)
    [] type = "f75375" -> F75375Family(chip)
    [] type = "adm1021" -> {"none"}
    [] OTHER -> IF chip.kind = "LM" THEN LmFamily(chip, a) ELSE {}
Family(type, chip, a) ==
  CASE type = "w83l785ts" -> {"W83L785R"} \intersect {chip.kind}
    [] type = "w83781d" -> W83781dFamily(chip)
    [] type = "adt7473" -> Adt7473Family(chip, a)
    [] type = "f75375" -> F75375Family(chip)
    [] type = "adm1021" -> {"none"}
    [] OTHER -> IF chip.kind = "LM" THEN LmFamily(chip, a) ELSE {}

\* What a detection that does not look whether its reads succeed may take for
\* its chip when they do not.
Careless(type) == CASE type = "w83l785ts" -> {"W83L785R"}
                    [] type = "w83781d" -> {"W83781D"}
                    [] type = "adt7473" -> {"ADT7473"}
                    [] type = "f75375" -> {"F75375"}
                    [] OTHER -> {}

-----------------------------------------------------------------------------
(* nouveau_i2c_identify and probe_monitoring_device.                        *)

\* Whether a chip answers; only one that is there can.
Answers(answered) ==
  /\ answered => Present(Port, Address)
  /\ flaky' = (IF Present(Port, Address) /\ ~answered THEN flaky + 1 ELSE flaky)
  /\ flaky' <= MaxFlaky

\* nvbios_extdev_find, whose counter is a byte, for the LM89 and then the ADT7473;
\* where the first search ends so does the second.
FindExternal ==
  /\ doing = "external"
  /\ IF entry < card.external THEN doing' = "next" /\ UNCHANGED entry
                             ELSE entry' = (entry + 1) % 256 /\ UNCHANGED doing
  /\ UNCHANGED <<card, searches, bus, devs, sensor, functions, tempKeys, unlocked, flaky, garbled>>

\* The next list on its port, if that leads anywhere.
IdentifySensor ==
  /\ doing = "next" /\ searches # <<>>
  /\ IF Port = NoPort
     THEN searches' = Tail(searches) /\ UNCHANGED <<entry, doing, bus, devs, unlocked>>
     ELSE /\ entry' = 1 /\ doing' = "probe" /\ bus' = TRUE /\ devs' = {} /\ unlocked' = TRUE
          /\ UNCHANGED searches
  /\ UNCHANGED <<card, sensor, functions, tempKeys, flaky, garbled>>

ListEnds == entry > Len(List)

ProbeAddress(answered) ==
  /\ doing = "probe" /\ ~ListEnds
  /\ Answers(answered)
  /\ IF answered THEN doing' = "create" /\ UNCHANGED entry
                 ELSE entry' = entry + 1 /\ UNCHANGED doing
  /\ UNCHANGED <<card, searches, bus, devs, sensor, functions, tempKeys, unlocked, garbled>>

\* xf86DestroyI2CDevRec frees a place inside a record: a panic, or nothing.
AfterFree(rest) == {"panic", rest}

\* nvclock_i2c_probe_device asks for the address again and makes a device record.
\* Without one, because there was no answer or there is a record of an earlier
\* entry for the address, the match is a success with nothing installed.
Create(answered) ==
  /\ doing = "create"
  /\ Answers(answered)
  /\ IF answered /\ Address \in devs THEN doing' \in AfterFree("found") ELSE
       doing' = IF answered THEN "detect" ELSE "found"
  /\ devs' = IF answered THEN devs \union {Address} ELSE devs
  /\ UNCHANGED <<card, searches, entry, bus, sensor, functions, tempKeys, unlocked, garbled>>

Install(family) ==
  /\ sensor' = [port |-> Port, addr |-> Address]
  /\ functions' = family
  /\ doing' = "found"
  /\ UNCHANGED entry

NotThis ==
  /\ doing' = "probe" /\ entry' = entry + 1
  /\ UNCHANGED <<sensor, functions>>

Detect(answered) ==
  /\ doing = "detect"
  /\ IF Type = "adm1021" THEN answered /\ UNCHANGED flaky ELSE Answers(answered)
  /\ LET found == Family(Type, card.chips[Port][Address], Address)
     IN  IF answered
         THEN /\ IF found = {} THEN NotThis ELSE \E f \in found : Install(f)
              /\ UNCHANGED garbled
         ELSE \/ NotThis /\ UNCHANGED garbled
              \/ \E f \in Careless(Type) : Install(f) /\ garbled' = TRUE
  /\ UNCHANGED <<card, searches, bus, devs, tempKeys, unlocked>>

\* The bus stays for the sensor that was found ...
BusAfter_Freed == FALSE
BusAfter == bus

Found ==
  /\ doing = "found"
  /\ doing' = "register" /\ bus' = BusAfter /\ unlocked' = FALSE
  /\ UNCHANGED <<card, searches, entry, devs, sensor, functions, tempKeys, flaky, garbled>>

\* ... and is destroyed with its devices when the list is through.
NotFound ==
  /\ doing = "probe" /\ ListEnds
  /\ doing' \in IF devs = {} THEN {"next"} ELSE AfterFree("next")
  /\ bus' = FALSE /\ devs' = {} /\ unlocked' = FALSE
  /\ searches' = Tail(searches)
  /\ UNCHANGED <<card, entry, sensor, functions, tempKeys, flaky, garbled>>

NoSearchLeft ==
  /\ doing = "next" /\ searches = <<>>
  /\ doing' = "register"
  /\ UNCHANGED <<card, searches, entry, bus, devs, sensor, functions, tempKeys, unlocked, flaky, garbled>>

\* start: every set of functions has those for core and board; without any there
\* is the temperature of the chip itself.
TempKinds == IF functions = "none" THEN {"P"} ELSE {"D", "H"}

RegisterTemperatures ==
  /\ doing = "register"
  /\ tempKeys' = TempKinds
  /\ doing' = "done"
  /\ UNCHANGED <<card, searches, entry, bus, devs, sensor, functions, unlocked, flaky, garbled>>

-----------------------------------------------------------------------------
NoSensor == [port |-> NoPort, addr |-> NoAddress]

GeforceInit ==
  /\ card \in Cards
  /\ searches = Searches /\ entry = 0 /\ doing = "external"
  /\ bus = FALSE /\ devs = {} /\ sensor = NoSensor /\ functions = "none"
  /\ tempKeys = {} /\ unlocked = FALSE /\ flaky = 0 /\ garbled = FALSE

GeforceNext ==
  \/ FindExternal \/ IdentifySensor \/ Found \/ NotFound \/ NoSearchLeft \/ RegisterTemperatures
  \/ \E answered \in BOOLEAN : ProbeAddress(answered) \/ Create(answered) \/ Detect(answered)

GeforceSpec == GeforceInit /\ [][GeforceNext]_geforceVars
-----------------------------------------------------------------------------
GeforceTypeOK ==
  /\ DOMAIN card.ports = 0..1
  /\ doing \in {"external", "next", "probe", "create", "detect", "found", "register", "done", "panic"}
  /\ entry \in 0..255
  /\ (doing \notin {"external", "next"} /\ searches # <<>>) => entry \in 1..(Len(List) + 1)
  /\ {bus, unlocked, garbled} \subseteq BOOLEAN /\ devs \subseteq Addresses
  /\ functions \in {"none", "LM99", "MAX6559", "W83L785R", "W83781D", "ADT7473", "F75375"}
  /\ tempKeys \subseteq {"D", "H", "P"} /\ flaky \in 0..MaxFlaky

\* The chip on the first port whose address comes first in the static list.
Listed(p) == {i \in 1..Len(StaticList) : Present(p, StaticList[i][2])}
Met(p) == CHOOSE i \in Listed(p) : \A j \in Listed(p) : i <= j

\* The functions that know the registers of a chip.
MadeFor(kind) ==
  CASE kind = "LM" -> {"LM99", "MAX6559"}
    [] kind \in {"ADT7473", "ADT7475", "ADT7476", "ADT7490"} -> {"ADT7473"}
    [] kind \in {"F75375", "F75373"} -> {"F75375"}
    [] OTHER -> {kind}

\* Whatever the lists were tried and whichever chips failed to answer, the
\* functions that serve the keys are those of the chip they will ask, over a bus
\* and a device record that still exist, with the registers of the card locked
\* again; only a detection misled by uninitialized bytes may choose others.
FunctionsFit ==
  doing = "done" =>
    /\ ~unlocked
    /\ (functions # "none" \/ "H" \in tempKeys) =>
         /\ bus /\ sensor.addr \in devs
         /\ garbled \/ LET chip == card.chips[sensor.port][sensor.addr]
                       IN  functions \in MadeFor(chip.kind)

\* A chip that always answers is not overlooked when it is the first of the list
\* to answer: a type further down at the address of another never gets its turn.
FirstIsFound ==
  (doing = "done" /\ flaky = 0 /\ card.ports[0] # NoPort /\ Listed(card.ports[0]) # {}) =>
    LET i == Met(card.ports[0])
    IN  \A f \in Family(StaticList[i][1], card.chips[card.ports[0]][StaticList[i][2]], StaticList[i][2]) :
          sensor = [port |-> card.ports[0], addr |-> StaticList[i][2]] /\ functions = f

\* The functions that serve the keys are those of the chip they will ask, and the
\* chip that should be found is.
SensorIsFound == FunctionsFit /\ FirstIsFound
=============================================================================
