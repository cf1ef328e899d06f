------------------------------- MODULE SuperIOStart -------------------------------
(***************************************************************************)
(* What the four Super I/O drivers do in start: choose the configuration   *)
(* of the board, and make a sensor and a key of each input that is wired.  *)
(* Drivers start on threads of their own; one sensor group or one fan is a *)
(* step (what happens inside of one is in FanRegistration).  A start that  *)
(* fails, as that of NSC without its memory, stays where it is.            *)
(*                                                                         *)
(* A key is a kind and a number; FakeSMC hands a key to the driver that    *)
(* last added its handler.                                                 *)
(***************************************************************************)
EXTENDS Integers, Sequences, TLC

CONSTANT Mainboards   (* the machines: the chips on them and how these are   *)
                      (* wired, the maker and names the boot loader tells,   *)
                      (* the configurations in the drivers' property lists   *)

SuperIODrivers == {"IT87x", "W836x", "F718x", "PC8739x"}
Absent == "absent"

\* A configuration names the inputs: temp, volt and fan give the names there are and
\* ri the dividers; forced are the inputs of TEMPINnFORCED, limit is FANINLIMIT, or 0.
\* A chip has the inputs on which a fan turns, those that are not too hot to be wired,
\* those that read PECI, the Winbond chip's number of fans, and for NSC memory that
\* can be mapped, or not.
Inputs == 0..8

ASSUME MainboardsAssumption ==
  \A b \in Mainboards :
    /\ DOMAIN b.chips \subseteq SuperIODrivers
    /\ \A d \in DOMAIN b.chips :
         /\ b.chips[d].turning \subseteq Inputs /\ b.chips[d].cold \subseteq Inputs /\ b.chips[d].peci \subseteq Inputs
         /\ b.chips[d].fans \in 1..6
         /\ \A t \in DOMAIN b.tables[d] : b.tables[d][t].limit \in 0..6

VARIABLES
  mainboard,
  lists,     (* for each driver: its list of sensors, by key                  *)
  handlers,  (* for each key of FakeSMC: the driver that serves it            *)
  fnum,      (* the key FNum                                                  *)
  starting   (* for each driver: what its start comes to next                 *)

startVars == <<mainboard, lists, handlers, fnum, starting>>

Wiring(d) == mainboard.chips[d]

-----------------------------------------------------------------------------
(* The configuration.                                                       *)

\* The board's name is asked for, else the product's.  What is not in the list of a
\* known maker has the default; Fintek and NSC have one configuration for all.
AnyBoard == <<"Default", Absent>>
ConfigurationName(d) ==
  LET named == <<mainboard.maker, IF mainboard.board # Absent THEN mainboard.board ELSE mainboard.product>>
  IN  IF d \in {"IT87x", "W836x"} /\ named \in DOMAIN mainboard.tables[d] THEN named ELSE AnyBoard
Configured(d) == ConfigurationName(d) \in DOMAIN mainboard.tables[d]
NoConfiguration == [temp |-> <<>>, volt |-> <<>>, ri |-> <<>>, fan |-> <<>>, forced |-> {}, limit |-> 0, guardian |-> FALSE]
Configuration(d) == IF Configured(d) THEN mainboard.tables[d][ConfigurationName(d)] ELSE NoConfiguration

NameAt(table, i) == IF i \in DOMAIN table THEN table[i] ELSE Absent

-----------------------------------------------------------------------------
(* addSensor, for each of some sensors in the order of their numbers: a key *)
(* the driver has already is not taken again.                               *)

Wire(key, group, input, ri) == [key |-> key, group |-> group, input |-> input, ri |-> ri]
Warm(kind, input) == Wire(<<kind, 0>>, "temperature", input, 0)

AddSensors(d, added) ==
  LET new == {added[i].key : i \in DOMAIN added} \ DOMAIN lists[d]
      First(k) == CHOOSE i \in DOMAIN added : /\ added[i].key = k
                                             /\ \A j \in DOMAIN added : added[j].key = k => i <= j
  IN  /\ lists' = [lists EXCEPT ![d] =
           [k \in DOMAIN @ \union new |-> IF k \in new THEN added[First(k)] ELSE @[k]]]
      /\ handlers' = [k \in DOMAIN handlers \union new |-> IF k \in new THEN d ELSE handlers[k]]

\* IT87x: by the names of the inputs that do not read too hot to be wired.
IteNames == [CPU |-> "Th0H", System |-> "TN0P", Ambient |-> "TA0P", Memory |-> "Tm0P"]
IteTemperatures ==
  LET temp == Configuration("IT87x").temp
      wired == {i \in Wiring("IT87x").cold \intersect 0..2 : NameAt(temp, i) \in DOMAIN IteNames}
      Unnamed(i) == CASE i = 0 -> "Th0H" [] i = 1 -> "Tm0P" [] i = 2 -> "TN0P"
  IN  IF ~Configured("IT87x")
      THEN [i \in Wiring("IT87x").cold \intersect 0..2 |-> Warm(Unnamed(i), i)]
      ELSE [i \in wired |-> Warm(IteNames[temp[i]], i)]

\* W836x: inputs that read PECI are left out, unless forced.  The ambient is only
\* looked at when the heatsink is left out.
WinbondTemperatures ==
  LET wiring == Wiring("W836x")
      Wanted(i) == i \notin wiring.peci \/ i \in Configuration("W836x").forced
      boards == <<Warm("TN0P", 2)>>
  IN  CASE wiring.model = "PECI" /\ Wanted(0) -> <<Warm("Th0H", 0)>> \o boards
        [] wiring.model = "PECI" /\ ~Wanted(0) /\ Wanted(1) -> <<Warm("TA0P", 1)>> \o boards
        [] wiring.model = "PECI" /\ ~Wanted(0) /\ ~Wanted(1) -> boards
        [] OTHER -> <<Warm("Th0H", 0), Warm("TA0P", 1)>> \o boards
                      \o (IF wiring.model = "Nuvoton" THEN <<Warm("Tm0P", 3)>> ELSE <<>>)

Temperatures(d) ==
  CASE d = "IT87x" -> IteTemperatures
    [] d = "W836x" -> WinbondTemperatures
    [] d = "F718x" -> <<Warm("Th0H", 0), Warm("TN0P", 1)>>
    [] d = "PC8739x" -> <<Warm("Th0H", 2), Warm("TN0P", 0), Warm("Tm0P", 1), Warm("TA0P", 3)>>

\* Voltages: the names that have a key, with the divider of the configuration or,
\* in the Winbond driver, one for the rail.
RailDividers == ("+5VC" :> 20) @@ ("+5VSB" :> 20) @@ ("+12VC" :> 60) @@ ("-12VC" :> 232)
Rails(d) == {"CPU", "Memory", "+5VC", "+5VSB", "+12VC", "-12VC", "3VCC", "3VSB", "VBAT"}
              \union (IF d = "W836x" THEN {"AVCC"} ELSE {})
Divider(d, i) ==
  LET ri == Configuration(d).ri
      rail == Configuration(d).volt[i]
  IN  CASE i \in DOMAIN ri /\ ri[i] # 0 -> ri[i]
        [] (i \in DOMAIN ri => ri[i] = 0) /\ d = "W836x" /\ rail \in DOMAIN RailDividers -> RailDividers[rail]
        [] OTHER -> 0

Voltages(d) ==
  LET volt == Configuration(d).volt
      wired == {i \in Inputs : NameAt(volt, i) \in Rails(d)}
  IN  CASE d \in {"IT87x", "W836x"} -> [i \in wired |-> Wire(<<volt[i], 0>>, "voltage", i, Divider(d, i))]
        [] d = "F718x" /\ Wiring(d).model # "F71858" -> <<Wire(<<"VC0c", 0>>, "voltage", 1, 0)>>
        [] OTHER -> <<>>

\* Fans: one that turns, or has a name, gets the number FNum has come to.
FanLimit(d) ==
  CASE d = "IT87x" -> 5
    [] d = "W836x" -> IF Configuration(d).limit # 0 THEN Configuration(d).limit ELSE Wiring(d).fans
    [] d = "F718x" -> IF Wiring(d).model = "F71882" THEN 4 ELSE 3
    [] d = "PC8739x" -> 1
IsFan(d, i) == i \in Wiring(d).turning \/ NameAt(Configuration(d).fan, i) # Absent
Tachometer_FromOne(i) == Wire(<<"Ac", fnum + 1>>, "tachometer", i, 0)
Tachometer(i) == Wire(<<"Ac", fnum>>, "tachometer", i, 0)

\* SmartGuardian: the controls of a fan have the number of its input; with the last
\* come two for all fans.
ControlKinds == <<"Tg", "St", "Ss", "Ft", "Pt", "Fo", "Ct", "FMCL", "FMCR">>
ControlNumber(i) == i
Control(c, i) ==
  IF c <= 7 THEN Wire(<<ControlKinds[c], ControlNumber(i)>>, "control", i, 0) ELSE Wire(<<ControlKinds[c], 0>>, "control", 0, 0)
Controls(d, i) ==
  IF d = "IT87x" /\ Configuration(d).guardian THEN 1..(IF i = FanLimit(d) - 1 THEN 9 ELSE 7) ELSE {}

\* The fan comes first, if there is one.
FanSensors(d, i) ==
  [c \in Controls(d, i) \union (IF IsFan(d, i) THEN {0} ELSE {}) |-> IF c = 0 THEN Tachometer(i) ELSE Control(c, i)]

-----------------------------------------------------------------------------
StartTemperatures(d) ==
  /\ starting[d] = -2 /\ Wiring(d).model # "unmapped"
  /\ AddSensors(d, Temperatures(d))
  /\ starting' = [starting EXCEPT ![d] = -1]
  /\ UNCHANGED <<mainboard, fnum>>

StartVoltages(d) ==
  /\ starting[d] = -1
  /\ AddSensors(d, Voltages(d))
  /\ starting' = [starting EXCEPT ![d] = 0]
  /\ UNCHANGED <<mainboard, fnum>>

\* FNum is a byte; a fan whose key is in the list is not counted.
StartFan(d) ==
  LET i == starting[d]
  IN  /\ i \in 0..(FanLimit(d) - 1)
      /\ AddSensors(d, FanSensors(d, i))
      /\ fnum' = IF IsFan(d, i) /\ Tachometer(i).key \notin DOMAIN lists[d] THEN (fnum + 1) % 256 ELSE fnum
      /\ starting' = [starting EXCEPT ![d] = i + 1]
      /\ UNCHANGED mainboard

StartInit ==
  /\ mainboard \in Mainboards
  /\ lists = [d \in DOMAIN mainboard.chips |-> <<>>]
  /\ handlers = <<>>
  /\ fnum = 0
  /\ starting = [d \in DOMAIN mainboard.chips |-> -2]

StartNext == \E d \in DOMAIN mainboard.chips : StartTemperatures(d) \/ StartVoltages(d) \/ StartFan(d)

StartSpec == StartInit /\ [][StartNext]_startVars
-----------------------------------------------------------------------------
\* Types of the variables; a sensor is listed under its key, and its key is served.
StartTypeOK ==
  /\ mainboard \in Mainboards /\ fnum \in 0..255
  /\ \A d \in DOMAIN mainboard.chips :
       /\ starting[d] \in -2..6
       /\ \A k \in DOMAIN lists[d] : /\ lists[d][k].key = k /\ lists[d][k].input \in Inputs
                                     /\ k \in DOMAIN handlers

\* Key F<n>Ac tells the speed of the fan that F<n>Tg and the other SmartGuardian keys
\* control, though the ones are numbered as fans are found and the others as the
\* chip's inputs: provided that no input before it lacks a fan, and that no other
\* plug-in registered a fan meanwhile.
ControlsMatchFans ==
  \A d \in DOMAIN lists : \A k \in DOMAIN lists[d] :
    LET others == UNION {{e[1] : e \in DOMAIN lists[o]} : o \in DOMAIN lists \ {d}}
        fans == {lists[d][a].input : a \in {b \in DOMAIN lists[d] : b[1] = "Ac"}}
    IN  (/\ lists[d][k].group = "control" /\ <<"Ac", k[2]>> \in DOMAIN lists[d] /\ k[1] # "FMCL" /\ k[1] # "FMCR"
         /\ "Ac" \notin others /\ \A i \in fans : 0..i \subseteq fans)
        => lists[d][k].input = lists[d][<<"Ac", k[2]>>].input
=============================================================================
