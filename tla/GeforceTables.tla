----------------------------- MODULE GeforceTables -----------------------------
(***************************************************************************)
(* What GeforceSensors takes from the tables of the VBIOS image: the pin   *)
(* that drives the fan, the voltages, the constants of the temperature     *)
(* sensor, and the I2C ports, an entry of a table at a time; and what it   *)
(* then makes of the card's registers.                                     *)
(*                                                                         *)
(* An image is what its tables say.  An entry is its bytes, as numbers; a  *)
(* pointer is there or not.  What a table does not give is read all the    *)
(* same: fields nothing has written, which may be anything in Garbage.     *)
(***************************************************************************)
EXTENDS Integers, Sequences, FiniteSets, SequencesExt, FiniteSetsExt

CONSTANT VideoRoms

Garbage == {0, 5}
ConstantNames == {"offset_constant", "offset_num", "offset_den", "slope_mult", "slope_div"}
NoPin == [line |-> -1, log |-> 0]
NoEntry == [type |-> 255, b0 |-> 0, b1 |-> 0, pad |-> -1]   (* DCB_I2C_UNUSED *)
NoVoltage == [supported |-> FALSE, levels |-> <<>>]

(* family: which functions read the card; dcb: the version of the table of   *)
(* the outputs, 0 for none, and whether it is signed; i2cVer, entries, aux:  *)
(* of the table of ports, aux its two default ports, [high, low]; pad is the *)
(* pad a port shares, or -1; bmp: where an image of the old kind has its two *)
(* ports, or "none", and its lines; p: the version of entry 'P' of the BIT   *)
(* table, 0 when it has none, -1 without the table; therm: the entries for   *)
(* the sensor, [kind, value]; pins: [func, line, log]; volt: [ver, mask,     *)
(* entries, base, inc], ver 0 for none.                                      *)
ASSUME VideoRomAssumption ==
  \A r \in VideoRoms : /\ r.family \in {"NV40", "NV50", "NVD0"}
                       /\ {r.dcb, r.i2cVer, r.p} \subseteq -1..255
                       /\ r.bmp \in {"none", "fixed", "structure"}
                       /\ \A k \in DOMAIN r.therm : r.therm[k].value \in -32768..32767

VARIABLES
  videoRom,
  taking,            (* what start is doing                                 *)
  entryAt,           (* the entry of its table it is at                     *)
  section,           (* sensor_section                                      *)
  bios_sensor,       (* of nouveau_therm_init                               *)
  sensor_constants,  (* of the card                                         *)
  fan_pwm,           (* the pin                                             *)
  voltage,
  i2cPorts,          (* i2c->ports                                          *)
  pads,              (* hardware: what each shared pad is switched to       *)
  reported           (* what the last function called returned              *)

tablesVars == <<videoRom, taking, entryAt, section, bios_sensor, sensor_constants, fan_pwm, voltage, i2cPorts, pads, reported>>

-----------------------------------------------------------------------------
(* The tables *)

\* nouveau_dcb_table.  Versions before 1.5 hold nothing of use.
HasDcb(r) == r.dcb \in \h15..\h41 /\ r.signed

\* nouveau_dcb_i2c_table: since version 3 the table of ports has a header.
HasHeader(r) == r.dcb >= \h30
PortVersion(r) == IF HasHeader(r) THEN r.i2cVer ELSE r.dcb
PortCount(r) == IF HasHeader(r) THEN Len(r.entries) ELSE 16
HasPorts(r) == HasDcb(r) /\ r.entries # <<>>
PortEntry(r, idx) == IF idx < Len(r.entries) THEN r.entries[idx + 1] ELSE NoEntry

NV04_BIT == 0
NV4E_BIT == 4
NVIO_BIT == 5
NVIO_AUX == 6
UNUSED == 255

\* nouveau_dcb_i2c_parse: types it does not know are unused.
TypeOfEntry(r, e) ==
  LET t == IF PortVersion(r) >= \h30 THEN e.type ELSE IF e.type % 8 = 7 THEN UNUSED ELSE e.type % 8
  IN  IF t \in {NV04_BIT, NV4E_BIT, NVIO_BIT, NVIO_AUX} THEN t ELSE UNUSED

\* Before the table there were two ports, and lines that were always theirs.
OrUsual(b, usual) == IF b = 0 THEN usual ELSE b
OldEntry(r, idx) ==
  [type |-> NV04_BIT, pad |-> -1,
   b0 |-> OrUsual(r.lines[2 * idx + 1], IF idx = 0 THEN \h3F ELSE \h37),
   b1 |-> OrUsual(r.lines[2 * idx + 2], IF idx = 0 THEN \h3E ELSE \h36)]

\* The entry with the index, as a set: none ends the table.
ParsedPort(r, idx) ==
  CASE HasPorts(r) /\ idx < PortCount(r) ->
         {[PortEntry(r, idx) EXCEPT !.type = TypeOfEntry(r, PortEntry(r, idx))]}
    [] OTHER -> IF r.bmp # "none" /\ idx < 2 THEN {OldEntry(r, idx)} ELSE {}

nv50_i2c_port == <<\hE138, \hE150, \hE168, \hE180, \hE254, \hE274, \hE764, \hE780, \hE79C, \hE7B8>>

\* The register, or the index of the old CRTC registers, that drives a port's lines.
DriveOf(r, e) ==
  LET n == e.b0 % 16 IN
  CASE e.type = NV04_BIT -> e.b0
    [] e.type = NV4E_BIT -> \h600800 + e.b1
    [] e.type = NVIO_BIT -> IF r.family = "NVD0" THEN \hD014 + n * \h20
                            ELSE IF n < Len(nv50_i2c_port) THEN nv50_i2c_port[n + 1] ELSE n
    [] OTHER -> n

\* therm_table: entry 'P' of either version points to it.
ThermEntries(r) == IF r.p \in {1, 2} THEN r.therm ELSE <<>>

\* dcb_gpio_table and its entries, of the first controller.
PinsWith(r, func) == IF HasDcb(r) /\ r.dcb >= \h22 THEN SelectSeq(r.pins, LAMBDA g : g.func = func) ELSE <<>>

Magnitude(a) == IF a < 0 THEN -a ELSE a
TowardZero(a, b) == LET q == Magnitude(a) \div Magnitude(b) IN IF (a >= 0) = (b > 0) THEN q ELSE -q

-----------------------------------------------------------------------------
TablesInit ==
  /\ videoRom \in VideoRoms
  /\ taking = "pin"
  /\ entryAt = 0
  /\ section = -1
  /\ bios_sensor = [n \in ConstantNames |-> 0]
  /\ sensor_constants = [n \in ConstantNames |-> IF n \in {"offset_constant", "offset_num"} THEN 0 ELSE 1]
  /\ fan_pwm = NoPin
  /\ voltage = NoVoltage
  /\ i2cPorts = <<>>
  /\ pads = <<>>
  /\ reported = <<>>

\* nouveau_init: the pin that drives the fan, if a table has one.
FindFanPin ==
  /\ taking = "pin"
  /\ LET found == PinsWith(videoRom, "FAN") IN
       fan_pwm' = IF found = <<>> THEN NoPin ELSE [line |-> found[1].line, log |-> found[1].log]
  /\ taking' = "volt"
  /\ UNCHANGED <<entryAt, section, bios_sensor, sensor_constants, voltage, i2cPorts, pads, reported>>

vidtag == <<"VID0", "VID1", "VID2", "VID3", "VID4">>
BitsUpTo(mask) == Cardinality({b \in 0..7 : mask >= 2^b})

\* A pin for every bit up to the mask's highest; for a sixth bit the tag is read past
\* the end of the list and may be any pin's.
VidPins(r, mask) ==
  LET n == BitsUpTo(mask)
      named == \A b \in 1..IF n < 5 THEN n ELSE 5 : PinsWith(r, vidtag[b]) # <<>> IN
  IF n > 6 \/ ~named THEN {FALSE} ELSE IF n = 6 THEN BOOLEAN ELSE {TRUE}

\* Version 4 counts the levels from the mask, those before list them.
LevelsOf(v) ==
  IF v.ver < \h40 THEN [k \in DOMAIN v.entries |-> [uv |-> v.entries[k][1] * 10000,
                                                   vid |-> v.entries[k][2] \div (IF v.ver = \h30 THEN 4 ELSE 1)]]
  ELSE [k \in 1..v.mask + 1 |-> [uv |-> v.base + (k - 1) * v.inc, vid |-> k - 1]]

\* nouveau_volt_init, and then the constants are on the stack of nouveau_therm_init.
\* Nothing asks for a voltage: no family sets voltage_get.
nouveau_volt_init ==
  /\ taking = "volt"
  /\ LET v == videoRom.volt IN
       \E found \in VidPins(videoRom, v.mask) :
         voltage' = IF /\ videoRom.p \in {1, 2} \/ (videoRom.p = -1 /\ videoRom.bmp = "structure")
                       /\ v.mask # 0 /\ found
                       /\ v.ver \in {\h10, \h11, \h12, \h20, \h30, \h40}
                    THEN [supported |-> TRUE, levels |-> LevelsOf(v)] ELSE NoVoltage
  /\ bios_sensor' \in [ConstantNames -> Garbage]
  /\ taking' = "therm"
  /\ UNCHANGED <<entryAt, section, sensor_constants, fan_pwm, i2cPorts, pads, reported>>

\* nvbios_therm_sensor_parse, an entry: 1 begins the section of a sensor, and the first
\* is the GPU's own; its constants follow, and an ambient section ends the table.
NameOfKind == [k \in \h10..\h13 |-> CASE k = \h10 -> "offset_num" [] k = \h11 -> "offset_den"
                                      [] k = \h12 -> "slope_mult" [] OTHER -> "slope_div"]

Takes_AnySection(at, e) == e.kind \in DOMAIN NameOfKind
TakesConstant(at, e) == at = 0 /\ e.kind \in DOMAIN NameOfKind

Ambient(e) == e.kind = 0 /\ e.value > 0

TakeThermEntry ==
  /\ taking = "therm"
  /\ entryAt < Len(ThermEntries(videoRom))
  /\ LET e == ThermEntries(videoRom)[entryAt + 1] IN
       /\ ~Ambient(e)
       /\ section' = IF e.kind = 1 THEN section + 1 ELSE section
       /\ bios_sensor' =
            CASE e.kind = 1 /\ section' = 0 -> [bios_sensor EXCEPT !.offset_constant = TowardZero(e.value \div 256, 2)]
              [] TakesConstant(section, e) -> [bios_sensor EXCEPT ![NameOfKind[e.kind]] = e.value]
              [] OTHER -> bios_sensor
  /\ entryAt' = entryAt + 1
  /\ UNCHANGED <<taking, sensor_constants, fan_pwm, voltage, i2cPorts, pads, reported>>

\* nouveau_therm_init: whatever was found replaces the safe defaults.
nouveau_therm_init ==
  /\ taking = "therm"
  /\ entryAt < Len(ThermEntries(videoRom)) => Ambient(ThermEntries(videoRom)[entryAt + 1])
  /\ sensor_constants' = bios_sensor
  /\ taking' = "i2c"
  /\ entryAt' = 0
  /\ UNCHANGED <<section, bios_sensor, fan_pwm, voltage, i2cPorts, pads, reported>>

\* nouveau_i2c_create, an entry.  A port with no line to drive is left out, unless the
\* field that says so, which nothing has written, is set.
NewPort(idx, e) == [index |-> idx, type |-> e.type, drive |-> DriveOf(videoRom, e), pad |-> e.pad]

AddPort_Counted(idx, e) == Append(i2cPorts, NewPort(Len(i2cPorts), e))
AddPort(idx, e) == Append(i2cPorts, NewPort(idx, e))

CreatePort ==
  /\ taking = "i2c"
  /\ \E e \in ParsedPort(videoRom, entryAt) :
       \/ e.type # UNUSED /\ i2cPorts' = AddPort(entryAt, e)
       \/ /\ e.type = UNUSED \/ (e.type # NVIO_AUX /\ DriveOf(videoRom, e) = 0)
          /\ i2cPorts' = i2cPorts
  /\ entryAt' = entryAt + 1
  /\ UNCHANGED <<taking, section, bios_sensor, sensor_constants, fan_pwm, voltage, pads, reported>>

LastPort ==
  /\ taking = "i2c"
  /\ ParsedPort(videoRom, entryAt) = {}
  /\ taking' = "ready"
  /\ UNCHANGED <<entryAt, section, bios_sensor, sensor_constants, fan_pwm, voltage, i2cPorts, pads, reported>>

\* nouveau_i2c_find.  The default ports are two halves of a byte of the table's header.
DefaultPort(r, first) ==
  IF HasPorts(r) /\ PortVersion(r) >= \h30 THEN (IF first THEN r.aux.high ELSE r.aux.low) ELSE 2

\* Since NV50 a pad may serve a port of either kind and is switched over.
FindPort ==
  /\ taking = "ready"
  /\ \E first \in BOOLEAN :
       LET k == SelectInSeq(i2cPorts, LAMBDA p : p.index = DefaultPort(videoRom, first)) IN
       IF k = 0 THEN reported' = <<"port", first, -1, 0>> /\ pads' = pads
       ELSE LET p == i2cPorts[k]
                pad == IF p.type = NVIO_AUX THEN p.drive ELSE p.pad IN
            /\ reported' = <<"port", first, p.index, p.drive>>
            /\ pads' = IF videoRom.family # "NV40" /\ p.pad >= 0
                       THEN [n \in DOMAIN pads \union {pad} |->
                               IF n = pad THEN (IF p.type = NVIO_AUX THEN "aux" ELSE "i2c") ELSE pads[n]]
                       ELSE pads
  /\ UNCHANGED <<taking, entryAt, section, bios_sensor, sensor_constants, fan_pwm, voltage, i2cPorts>>

-----------------------------------------------------------------------------
(* The functions that use them *)

ScaledBy(s, n) == TowardZero(n * s.slope_mult, s.slope_div) + TowardZero(s.offset_num, s.offset_den) + s.offset_constant - 8

\* On an NV40 the constants are mended for good.
Mended(s) == [s EXCEPT !.slope_div = IF @ = 0 THEN 1 ELSE @, !.offset_den = IF @ = 0 THEN 1 ELSE @,
                       !.slope_mult = IF @ < 1 THEN 1 ELSE @]

ENODEV == 19

Counted == {0, 90, 4000}   (* readings of the sensor's register            *)

\* Later families have no use for the constants.
nv40_temp_get ==
  /\ taking = "ready"
  /\ videoRom.family = "NV40"
  /\ sensor_constants' = Mended(sensor_constants)
  /\ \E n \in Counted : reported' = <<"temperature", n, ScaledBy(sensor_constants', n)>>
  /\ UNCHANGED <<taking, entryAt, section, bios_sensor, fan_pwm, voltage, i2cPorts, pads>>

nv50_temp_get ==
  /\ taking = "ready"
  /\ videoRom.family = "NV50"
  /\ LET s == sensor_constants
         unset == 0 \in {s.slope_div, s.slope_mult, s.offset_num, s.offset_den} IN
       \E n \in Counted : reported' = <<"temperature", n, IF unset THEN -ENODEV ELSE Max({0, ScaledBy(s, n)})>>
  /\ UNCHANGED <<taking, entryAt, section, bios_sensor, sensor_constants, fan_pwm, voltage, i2cPorts, pads>>

\* The lines of the pins a family can ask for the duty cycle.
DrivenLines == [NV40 |-> {2, 9}, NV50 |-> {4, 9, \h10}, NVD0 |-> 0..31]

\* nouveau_therm_fan_pwm_get: the registers may hold more than a whole cycle.
DutyOf(divs, on) == LET d == Max({divs, on})
                        share == IF videoRom.family = "NV40" \/ fan_pwm.log % 2 = 1 THEN d - on ELSE on
                    IN  (share * 100) \div d

ReadDuty ==
  /\ taking = "ready"
  /\ \E turnedOn \in BOOLEAN, divs, on \in {0, 3, 8} :
       reported' = <<"duty", IF fan_pwm # NoPin /\ fan_pwm.line \in DrivenLines[videoRom.family] /\ turnedOn /\ divs # 0
                             THEN DutyOf(divs, on) ELSE 0>>
  /\ UNCHANGED <<taking, entryAt, section, bios_sensor, sensor_constants, fan_pwm, voltage, i2cPorts, pads>>

TablesNext ==
  /\ \/ FindFanPin \/ nouveau_volt_init \/ TakeThermEntry \/ nouveau_therm_init
     \/ CreatePort \/ LastPort \/ FindPort \/ nv40_temp_get \/ nv50_temp_get \/ ReadDuty
  /\ UNCHANGED videoRom

TablesSpec == TablesInit /\ [][TablesNext]_tablesVars

-----------------------------------------------------------------------------
TablesTypeOK ==
  /\ videoRom \in VideoRoms
  /\ {entryAt, section} \subseteq Int
  /\ DOMAIN sensor_constants = ConstantNames
  /\ voltage.supported \in BOOLEAN
  /\ \A k \in DOMAIN i2cPorts : i2cPorts[k].index \in 0..entryAt

\* A port that is found drives the lines the image gives to that very entry, however
\* many unused ones stand before it; and an entry with lines has its port.
LinesOf(r, idx) == {DriveOf(r, e) : e \in {x \in ParsedPort(r, idx) : x.type # UNUSED}}
PortsAreTheTables ==
  /\ \A k \in DOMAIN i2cPorts : i2cPorts[k].drive \in LinesOf(videoRom, i2cPorts[k].index)
  /\ taking = "ready" => \A idx \in 0..entryAt :
       LinesOf(videoRom, idx) \ {0} # {} => \E k \in DOMAIN i2cPorts : i2cPorts[k].index = idx

\* The constants of the GPU's own sensor: those given between the first section and the
\* next, the last of each.
OwnConstants(r) ==
  LET T == ThermEntries(r)
      first == Min({k \in DOMAIN T : T[k].kind = 1})
      after == {k \in DOMAIN T : k > first /\ (T[k].kind = 1 \/ Ambient(T[k]))} \union {Len(T) + 1}
      given(kind) == {k \in first..Min(after) - 1 : T[k].kind = kind} IN
  [kind \in {k \in \h10..\h13 : given(k) # {}} |-> T[Max(given(kind))].value]

\* An image that gives all four, none of them zero, before any ambient section.
Calibrated(r) ==
  LET T == ThermEntries(r) IN
  /\ \E k \in DOMAIN T : T[k].kind = 1 /\ \A m \in 1..k : ~Ambient(T[m])
  /\ DOMAIN OwnConstants(r) = \h10..\h13
  /\ \A k \in \h10..\h13 : OwnConstants(r)[k] > 0

\* What start takes from the tables is what they say: a port has the lines of its own
\* entry; the temperature of a calibrated image rises with the constants of the GPU's
\* own sensor and of no other; and the fan's duty cycle is a share of a hundred whatever
\* the registers hold.
TablesAreHonoured ==
  /\ PortsAreTheTables
  /\ taking = "ready" /\ Calibrated(videoRom) =>
       \A kind \in \h10..\h13 : sensor_constants[NameOfKind[kind]] = OwnConstants(videoRom)[kind]
  /\ reported # <<>> /\ reported[1] = "duty" => reported[2] \in 0..100
=============================================================================
