------------------------------ MODULE Readings ------------------------------
(***************************************************************************)
(* How a measurement reaches the screen: a plug-in is asked for a key,     *)
(* reads registers of its hardware, makes a number of them, encodes it as  *)
(* the type of the key and copies it into the key's buffer, from which     *)
(* HWMonitor decodes it again; smcdumper also encodes numbers itself.      *)
(*                                                                         *)
(* A sensor says which plug-in serves the key, what the key shows, its     *)
(* type, and what tells the plug-in's formulas apart.  The registers are   *)
(* external: a sequence of numbers, any of the sensor's answers.           *)
(***************************************************************************)
EXTENDS Encodings, Sequences

CONSTANTS
  Sensors,
  RegistersOf(_), (* what the registers of a sensor may answer, by its field "answers" *)
  MaxTries    (* reads of a register that may not be ready (1000 in the code) *)

Groups == {"temperature", "voltage", "tachometer", "frequency", "multiplier", "control", "number"}

\* Whether a number has a sign bit, bits of its fraction, and bytes.
NumberType(sign, frac, len) == [sign |-> sign, frac |-> frac, len |-> len]
NumberTypes ==
  [ui8  |-> NumberType(FALSE, 0, 1),  ui16 |-> NumberType(FALSE, 0, 2),  si16 |-> NumberType(TRUE, 0, 2),
   fp2e |-> NumberType(FALSE, 14, 2), fpe2 |-> NumberType(FALSE, 2, 2),  sp4b |-> NumberType(TRUE, 11, 2),
   sp78 |-> NumberType(TRUE, 8, 2),   fp4c |-> NumberType(FALSE, 12, 2), freq |-> NumberType(FALSE, 0, 2)]

ASSUME SensorsAssumption ==
  /\ MaxTries \in Nat \ {0}
  /\ \A s \in Sensors : /\ s.group \in Groups /\ s.type \in DOMAIN NumberTypes /\ RegistersOf(s.answers) # {}
                        /\ s.gain \in Nat /\ s.rf \in Nat /\ s.ri \in Nat /\ s.vf \in Int

VARIABLES
  sensorRead, (* the sensor                                                 *)
  doingRead,  (* what is being done with it                                 *)
  tries,      (* reads that found the register not ready                    *)
  answer,     (* the registers as last read                                 *)
  held,       (* the control register, as last written                      *)
  keyBytes,   (* the buffer of the key                                      *)
  screen      (* what this reading shows, in thousandths of a volt, degrees, rpm, MHz *)

readingsVars == <<sensorRead, doingRead, tries, answer, held, keyBytes, screen>>

-----------------------------------------------------------------------------
BigEndian(bytes) == IF Len(bytes) = 1 THEN bytes[1] ELSE bytes[1] * 256 + bytes[2]

\* The end of every getValue of a Super I/O sensor.
EncodeAs(type, v) == CASE type = "fp2e" -> EncodeFp2e(v)
                       [] type = "sp4b" -> EncodeSp4b(v)
                       [] type = "fpe2" -> EncodeFpe2(v)
                       [] OTHER -> v

-----------------------------------------------------------------------------
(* The Super I/O drivers.                                                   *)

\* Division of C; the divisor is positive.
Quotient(a, b) == IF a >= 0 THEN a \div b ELSE -((-a) \div b)

\* The divider in front of an input, by the configuration.
Undivided(v, ri, rf, vf) == (v + Quotient((v - vf) * ri, rf)) % Word

IteTachometer(count) ==
  IF count > 63 /\ count < 65535 THEN (1350000 + count) \div (count * 2) ELSE 0

IteValue(s, r) ==
  LET v == CASE s.group = "voltage" -> r[1] * s.gain
             [] s.group = "tachometer" -> IteTachometer(r[1] + 256 * r[2])
             [] OTHER -> r[1]
  IN  EncodeAs(s.type, Undivided(v, s.ri, IF s.rf = 0 THEN 1 ELSE s.rf, s.vf))

\* Half degrees; a byte with the top bit is above 125 degrees.
WinbondTemperature(r) ==
  LET halves == r[1] * 2 + (IF Len(r) = 2 THEN r[2] \div 128 ELSE 0)
  IN  IF halves <= 250 THEN halves \div 2 ELSE 0

\* Of nine inputs.  Whether the chip monitors its battery is never looked at: the
\* register, without its bank, is compared with one that has it.
WinbondVoltage(s, r) == IF s.index > 8 THEN 0 ELSE r[1] * s.gain

WinbondValue(s, r) ==
  LET v == CASE s.group = "temperature" -> WinbondTemperature(r)
             [] s.group = "voltage" -> WinbondVoltage(s, r)
             [] s.group = "tachometer" -> r[1]
  IN  EncodeAs(s.type, IF s.rf = 0 THEN v ELSE Undivided(v, s.ri, s.rf, s.vf))

\* F71858: by its table mode the sign is in the high byte, in the low byte, or there is none.
F71858Temperature(high, low, mode) ==
  LET minus == CASE mode = 2 -> high >= 128 [] mode = 3 -> low % 2 = 1 [] OTHER -> FALSE
      val == high * 128 + (low \div 32) * 16 - (IF minus THEN 2^15 ELSE 0)
  IN  IF high \in {187, 204} THEN 0 ELSE Quotient(val, 128)

FintekTachometer(count) == IF count > 0 /\ count < 4095 THEN 1500000 \div count ELSE 0

FintekValue(s, r) ==
  LET v == CASE s.group = "temperature" -> IF Len(r) = 3 THEN F71858Temperature(r[1], r[2], r[3]) ELSE r[1]
             [] s.group = "voltage" -> (r[1] * 16) \div 2
             [] s.group = "tachometer" -> FintekTachometer(r[1] * 256 + r[2])
  IN  EncodeAs(s.type, v % Word)

PC8739xValue(s, r) ==
  EncodeAs(s.type, IF s.group = "tachometer" THEN (255 - r[1]) * 20 ELSE r[1])

-----------------------------------------------------------------------------
(* The other plug-ins: what they copy into the key.                         *)

\* By the first, second and fourth character of the ACPI method's name.
AcpiEncoded(method, v) ==
  CASE method[1] = "V" -> IF method[4] \in {"0", "1", "2", "R"} THEN EncodeSp4b(v % Word) ELSE EncodeFp2e(v % Word)
    [] method[1] = "F" /\ method[2] = "A" -> EncodeFpe2(v % Word)
    [] method[1] = "F" /\ method[2] = "T" -> IF v = 0 THEN 0 ELSE EncodeFpe2((10000000 \div v) % Word)
    [] OTHER -> v % Word

\* The type ACPIMonitor's start gives to the key of a method: fans, temperatures,
\* voltages, and currents, powers and the battery.
AcpiType(method) ==
  CASE method \in {<<"V", "C", "P", "U">>, <<"V", "M", "E", "M">>, <<"V", "S", "N", "3">>,
                   <<"V", "S", "N", "4">>, <<"V", "S", "N", "5">>} -> "fp2e"
    [] method \in {<<"V", "P", "0", "R">>, <<"V", "S", "N", "0">>, <<"V", "S", "N", "1">>, <<"V", "S", "N", "2">>} -> "sp4b"
    [] method[1] = "F" -> "fpe2"
    [] method[1] = "T" -> "sp78"
    [] method[1] \in {"I", "P"} \/ method = <<"B", "A", "K", "1">> -> "ui16"
    [] method = <<"B", "A", "K", "0">> -> "si16"
    [] method = <<"A", "C", "D", "C">> -> "ui8"

\* A method of the property list has the type its key is listed with behind a dash.
ListedType(digit) == CASE digit \in {0, 1} -> "ui8" [] digit = 3 -> "sp78" [] digit = 4 -> "ui32" [] OTHER -> "ui16"

\* The package, or a module of memory: two channels of two, in the two bytes of
\* a register each; the key's number picks channel and byte.
MchValue(s, r) ==
  IF s.index = 4 THEN r[1]
  ELSE LET channel == IF s.index \in {0, 2} THEN r[1] ELSE r[2]
       IN  IF s.index % 2 = 1 THEN channel \div 256 ELSE channel % 256

\* The family of a Radeon: what the table of the older ones lists its identity with,
\* or by the range the identity is in.
RadeonFamily(id, listed) ==
  CASE listed # "none" -> listed
    [] listed = "none" /\ id \in {\h66AF} \union (\h6860..\h687F) \union (\h7301..\h73FF) -> "VEGA"
    [] listed = "none" /\ id \in (\h67C0..\h67FF) \union (\h6980..\h699F) -> "POLARIS"
    [] listed = "none" /\ id \in (\h67A0..\h67BF) \union (\h6900..\h693F) \union (\h6600..\h666F) -> "HAWAII"
    [] listed = "none" /\ id \in (\h6780..\h679F) \union (\h6800..\h683F) -> "PITCAIRN"
    [] listed = "none" /\ id \in (\h6700..\h677F) \union (\h6840..\h685F) \union (\h6880..\h68FF) -> "Evergreen"

\* The function that reads the temperature, R6xx first; other families have none,
\* and their card no key.
TemperatureFunction(family) ==
  CASE family \in {"R600", "RV610", "RV630", "RV670"} -> 6
    [] family \in {"R700", "R710", "R730", "RV740", "RV770", "RV790"} -> 7
    [] family = "Evergreen" -> 8
    [] family \in {"PITCAIRN", "TAHITI", "VERDE"} -> 9
    [] family \in {"HAWAII", "OLAND", "BONAIRE", "HAINAN", "TONGA"} -> 10
    [] family = "POLARIS" -> 11
    [] family = "VEGA" -> 12

\* A Radeon's register: not ready, or below zero, for the older ones.
RadeonReady(s, r) == CASE s.index = 6 -> (r[1] \div 128) % 2 = 0
                       [] s.index \in {7, 8} -> (r[1] \div 512) % 2 = 0
                       [] OTHER -> TRUE

RadeonValue(s, r) == CASE s.index = 6 -> IF RadeonReady(s, r) THEN r[1] % 256 ELSE 0
                       [] s.index = 7 -> IF RadeonReady(s, r) THEN (r[1] \div 2) % 256 ELSE 0
                       [] s.index = 8 -> IF RadeonReady(s, r) THEN (r[1] \div 2) % 256 ELSE 255
                       [] OTHER -> r[1] % 512

X3100Ready(r) == r[2] = 1
X3100Value(r) == (150 - r[1]) % Word

\* A GeForce's temperature by a sensor chip on its bus, which is named with the
\* family and with whether an image was found, whose correction it then takes.
SignedByte(b) == IF b < 128 THEN b ELSE b - 256

CorrectionFor(s) ==
  IF s.method[3] = "image" THEN s.vf
  ELSE IF s.method[1] = "ADT7473" THEN (CASE s.method[2] = "NV40" -> 10 [] s.method[2] = "NV50" -> 8 [] OTHER -> 0)
  ELSE (CASE s.method[2] = "NV43" -> 5 [] s.method[2] = "NV40" -> 10 [] OTHER -> 0)

adt7473_core_temp(s, r) == (IF r[2] = 1 THEN SignedByte(r[1]) ELSE r[1] - 64) + CorrectionFor(s)
lm99_core_temp(s, r) == (r[1] + (IF s.method[1] = "LM99" THEN 16 ELSE 0) + CorrectionFor(s)) % 256

core_temp_get(s, r) ==
  CASE s.method[1] = "ADT7473" -> adt7473_core_temp(s, r)
    [] s.method[1] \in {"LM99", "MAX6559"} -> lm99_core_temp(s, r)
    [] s.method[1] = "W83L785R" -> r[1] + r[2]
    [] OTHER -> r[1]

\* What is left of NVClockX is in NVClock.  (An int is made a UInt16.)
NVClockXValue(s, r) == IF s.group = "tachometer" THEN EncodeFp2e(r[1] % Word) ELSE r[1] % Word

\* Kilohertz and microvolts.
GeforceValue(s, r) == CASE s.group = "temperature" /\ s.method # <<>> -> core_temp_get(s, r) % Word
                        [] s.group = "frequency" -> SwapValue((r[1] \div 1000) % Word)
                        [] s.group = "voltage" -> EncodeFp2e((r[1] \div 1000) % Word)
                        [] OTHER -> r[1] % Word

\* The character for core i in the names of its keys, and the core a key is read
\* for; "0" is 48, "A" is 65.
KeyChar(i) == IF i > 9 THEN 55 + i ELSE 48 + i
KeyIndex(c) == IF c >= 65 THEN c - 65 ELSE c - 48

\* Frequency, upper byte of the control word and distance to tjmax are there for each
\* core; the multiplier of the package is in the word itself, by the architecture.
IntelCpuValue(s, r) ==
  LET core == r[KeyIndex(KeyChar(s.index)) + 1]
  IN  CASE s.group = "frequency" -> SwapValue(core)
        [] s.group = "voltage" -> EncodeFp2e(r[1])
        [] s.group = "multiplier" /\ s.method = <<>> -> (core % 32) * 10 + ((core \div 64) % 2) * 5
        [] s.group = "multiplier" /\ s.method = <<"SandyArch">> -> ((r[1] \div 256) * 10) % Word
        [] s.group = "multiplier" /\ s.method = <<"nehalemArch">> -> (r[1] * 10) % Word
        [] OTHER -> (s.vf - core) % Word

SmiValue(s, r) == IF s.group = "tachometer" THEN EncodeFpe2(r[1]) ELSE r[1]

\* smcdumper: the number is in thousandths; a sign bit where the type has one.
DumperEncoded(type, number) ==
  LET t == NumberTypes[type]
      size == IF number < 0 THEN -number ELSE number
      n == ((size * 2^t.frac) \div 1000) % 2^(8 * t.len)
      top == 2^(8 * t.len - 1)
      coded == IF ~t.sign THEN n ELSE (n % top) + (IF number < 0 THEN top ELSE 0)
  IN  IF t.len = 1 THEN <<coded>> ELSE <<coded \div 256, coded % 256>>

\* Plug-ins that try until the register is ready.
Ready(s, r) == CASE s.driver = "RadeonMonitor" -> RadeonReady(s, r)
                 [] s.driver = "X3100monitor" -> X3100Ready(r)
                 [] OTHER -> TRUE

PluginValue(s, r) ==
  CASE s.driver = "IT87x" -> IteValue(s, r)
    [] s.driver = "W836x" -> WinbondValue(s, r)
    [] s.driver = "F718x" -> FintekValue(s, r)
    [] s.driver = "PC8739x" -> PC8739xValue(s, r)
    [] s.driver = "ACPIMonitor" -> AcpiEncoded(s.method, r[1])
    [] s.driver = "AmdCPUMonitor" -> r[1] \div 8
    [] s.driver = "IntelMCHMonitor" -> MchValue(s, r)
    [] s.driver = "RadeonMonitor" -> RadeonValue(s, r)
    [] s.driver = "X3100monitor" -> X3100Value(r)
    [] s.driver = "GeforceSensors" -> GeforceValue(s, r)
    [] s.driver = "NVClockX" -> NVClockXValue(s, r)
    [] s.driver = "IntelCPUMonitor" -> IntelCpuValue(s, r)
    [] s.driver = "SMIMonitor" -> SmiValue(s, r)

\* Two bytes are copied, or one; what does not fit into the key goes past it.
Copies(s) == IF s.driver = "IntelMCHMonitor" \/ (s.driver = "SMIMonitor" /\ s.group = "temperature") THEN 1 ELSE 2

\* Keys the callbacks answer with success and no value: the fan of a GeForce (there
\* is no case for the letter F), the clock of NVClockX (its case is under F).
HasNoCase(s) ==
  \/ s.driver = "GeforceSensors" /\ s.group = "tachometer"
  \/ s.driver = "NVClockX" /\ s.group = "frequency"

Filled(s, r) ==
  IF s.driver = "smcdumper" THEN DumperEncoded(s.type, r[1])
  ELSE IF HasNoCase(s) THEN keyBytes
  ELSE [i \in 1..Len(keyBytes) |-> IF i <= Copies(s) THEN LittleEndian(PluginValue(s, r))[i] ELSE keyBytes[i]]

-----------------------------------------------------------------------------
(* HWMonitor.                                                               *)

\* A numerator and a denominator.
DecodeNumericValue(type, bytes) ==
  LET t == NumberTypes[type]
      n == BigEndian(bytes)
      top == 2^(8 * t.len - 1)
  IN  <<IF t.sign /\ n >= top THEN top - n ELSE n, 2^t.frac>>

FormattedValue(group, type, bytes) ==
  LET v == DecodeNumericValue(type, bytes)
  IN  CASE group \in {"temperature", "tachometer"} -> Quotient(v[1], v[2])
        [] group = "voltage" -> (2 * v[1] * 1000 + v[2]) \div (2 * v[2])
        [] group = "frequency" -> SwapValue(bytes[1] + 256 * bytes[2])
        [] group = "multiplier" -> bytes[1] + 256 * bytes[2]
        [] OTHER -> Quotient(v[1] * 1000, v[2])

-----------------------------------------------------------------------------
NotRead == <<>>
NoScreen == <<>>

ReadingsInit ==
  /\ sensorRead \in Sensors
  /\ doingRead = "idle" /\ tries = 0 /\ answer = NotRead /\ screen = NoScreen
  /\ held = 0
  /\ keyBytes = [i \in 1..NumberTypes[sensorRead.type].len |-> 0]

\* A key that controls a fan is written: two bytes of its one are taken for the
\* value, of which the register gets the lower.
SetControl(byte, next) ==
  /\ doingRead = "idle" /\ sensorRead.group = "control" /\ keyBytes # <<byte>>
  /\ keyBytes' = <<byte>>
  /\ held' = (byte + 256 * next) % 256
  /\ UNCHANGED <<sensorRead, doingRead, tries, answer, screen>>

\* HWMonitor asks for the key.
AskKey ==
  /\ doingRead \in {"idle", "shown"}
  /\ doingRead' = "reading" /\ tries' = 0 /\ answer' = NotRead /\ screen' = NoScreen
  /\ UNCHANGED <<sensorRead, held, keyBytes>>

NotReady(r) ==
  /\ doingRead = "reading" /\ ~Ready(sensorRead, r) /\ tries < MaxTries - 1
  /\ tries' = tries + 1
  /\ UNCHANGED <<sensorRead, doingRead, answer, held, keyBytes, screen>>

GetValue(r) ==
  /\ doingRead = "reading" /\ (Ready(sensorRead, r) \/ tries = MaxTries - 1)
  /\ sensorRead.group = "control" => r = <<held>>
  /\ answer' = r /\ keyBytes' = Filled(sensorRead, r)
  /\ doingRead' = "read"
  /\ UNCHANGED <<sensorRead, tries, held, screen>>

Show ==
  /\ doingRead = "read"
  /\ screen' = <<FormattedValue(sensorRead.group, sensorRead.type, keyBytes)>>
  /\ doingRead' = "shown"
  /\ UNCHANGED <<sensorRead, tries, answer, held, keyBytes>>

ReadingsNext ==
  \/ AskKey \/ Show
  \/ \E byte \in 0..3, next \in {0, 255} : SetControl(byte, next)
  \/ \E r \in RegistersOf(sensorRead.answers) : NotReady(r) \/ GetValue(r)

ReadingsSpec == ReadingsInit /\ [][ReadingsNext]_readingsVars
-----------------------------------------------------------------------------
ReadingsTypeOK ==
  /\ sensorRead \in Sensors
  /\ doingRead \in {"idle", "reading", "read", "shown"} /\ tries \in 0..(MaxTries - 1)
  /\ answer \in Seq(Int) /\ held \in 0..255
  /\ Len(keyBytes) = NumberTypes[sensorRead.type].len /\ \A i \in DOMAIN keyBytes : keyBytes[i] \in 0..255
  /\ screen = NoScreen \/ screen[1] \in Int

\* DDR1 and DDR2 are a channel each, with a module in the lower and in the upper byte.
ModulesOf(r) == <<r[1] % 256, r[1] \div 256, r[2] % 256, r[2] \div 256>>

\* What the registers mean, in the unit that is shown, as a fraction, whatever
\* the code computes: the chips' resolutions, and the divider of an input.
Meant(s, r) ==
  CASE s.group = "voltage" /\ s.driver \in {"IT87x", "W836x", "F718x"} ->
         LET rf == IF s.rf = 0 THEN 1 ELSE s.rf
         IN  <<r[1] * s.gain * rf + (r[1] * s.gain - s.vf) * s.ri, rf>>
    [] s.group = "control" -> <<1000 * r[1], 1>>
    [] s.group = "tachometer" /\ s.driver = "IT87x" -> <<1350000, 2 * (r[1] + 256 * r[2])>>
    [] s.group = "tachometer" /\ s.driver = "F718x" -> <<1500000, 256 * r[1] + r[2]>>
    [] s.group = "tachometer" /\ s.driver = "PC8739x" -> <<5100 - 20 * r[1], 1>>
    [] s.group = "tachometer" /\ s.driver = "ACPIMonitor" /\ s.method[2] = "T" -> <<10000000, r[1]>>
    [] s.group = "temperature" /\ s.driver = "W836x" -> <<2 * r[1] + (IF Len(r) = 2 THEN r[2] \div 128 ELSE 0), 2>>
    [] s.group = "temperature" /\ s.driver = "F718x" /\ Len(r) = 3 -> <<r[1] * 8 + r[2] \div 32, 8>>
    [] s.driver = "AmdCPUMonitor" -> <<r[1], 8>>
    [] s.driver = "RadeonMonitor" /\ s.index \in {7, 8} -> <<r[1], 2>>
    [] s.driver = "IntelMCHMonitor" -> <<IF s.index = 4 THEN r[1] % 256 ELSE ModulesOf(r)[s.index + 1], 1>>
    [] s.driver = "X3100monitor" -> <<150 - r[1], 1>>
    [] s.driver = "GeforceSensors" /\ s.group \in {"frequency", "voltage"} -> <<r[1], 1000>>
    [] s.driver = "GeforceSensors" /\ s.method # <<>> ->
         <<CASE s.method[1] = "ADT7473" -> (IF r[2] = 0 THEN r[1] - 64 ELSE SignedByte(r[1])) + CorrectionFor(s)
             [] s.method[1] = "LM99" -> r[1] + 16 + CorrectionFor(s)
             [] s.method[1] = "MAX6559" -> r[1] + CorrectionFor(s)
             [] s.method[1] = "W83L785R" -> r[1] + SignedByte(r[2])
             [] OTHER -> r[1], 1>>
    [] s.driver = "IntelCPUMonitor" /\ s.group = "temperature" -> <<s.vf - r[s.index + 1], 1>>
    [] s.driver = "IntelCPUMonitor" /\ s.group = "frequency" -> <<r[s.index + 1], 1>>
    [] s.driver = "IntelCPUMonitor" /\ s.group = "multiplier" /\ s.method = <<"SandyArch">> -> <<(r[1] \div 256) * 10, 1>>
    [] s.driver = "IntelCPUMonitor" /\ s.group = "multiplier" /\ s.method = <<"nehalemArch">> -> <<r[1] * 10, 1>>
    [] s.driver = "IntelCPUMonitor" /\ s.group = "multiplier" /\ s.method = <<>> ->
         <<(r[s.index + 1] % 32) * 10 + ((r[s.index + 1] \div 64) % 2) * 5, 1>>
    [] OTHER -> <<r[1], 1>>

\* What the plug-in and the type can tell: degrees from 0 to 127 (125 for a
\* Winbond chip, and all but two bytes for an F71858); millivolts below 4000 and
\* 16000; fans of at least 366 rpm on a Fintek chip, at most 10546 on an ITE chip.
Tellable(s, r) ==
  LET m == Meant(s, r)
      Below(limit) == 0 <= m[1] /\ m[1] < limit * m[2]
  IN  CASE s.group = "temperature" -> /\ Below(IF s.driver = "W836x" THEN 125 ELSE 128)
                                      /\ ~(Len(r) = 3 /\ (r[1] >= 128 \/ (r[3] = 3 /\ r[2] % 2 = 1)))
        [] s.group = "voltage" -> Below(IF s.type = "fp2e" THEN 4000 ELSE 16000)
        [] s.group = "tachometer" -> /\ m[2] > 0 /\ Below(16384)
                                     /\ s.driver = "IT87x" => r[1] + 256 * r[2] \in 64..65534
                                     /\ s.driver = "F718x" => 256 * r[1] + r[2] < 4095
        [] s.group = "number" -> /\ m[1] > (-1000) * 2^(8 * NumberTypes[s.type].len - NumberTypes[s.type].frac - 1)
                                 /\ m[1] < 1000 * 2^(8 * NumberTypes[s.type].len - NumberTypes[s.type].frac - 1)
                                 /\ m[1] >= 0 \/ NumberTypes[s.type].sign
        [] OTHER -> TRUE

\* The step of what is shown: one unit, or what the type can tell apart.
Step(s) == IF s.group = "number" THEN 1 + 1000 \div 2^NumberTypes[s.type].frac ELSE 1

ScreenIsTrue ==
  LET m == Meant(sensorRead, answer)
  IN  /\ screen[1] * m[2] - m[1] <= Step(sensorRead) * m[2]
      /\ m[1] - screen[1] * m[2] <= Step(sensorRead) * m[2]

CanBeTrue == doingRead = "shown" /\ Ready(sensorRead, answer) /\ Tellable(sensorRead, answer)

\* Keys that show something else than their name and type say, in the code as it is
\* (EveryKeyShowsItsOwn): two of the four modules of memory, the fans of NVClockX, the
\* cores that have a letter; and those that go unanswered.
Astray(s) ==
  \/ HasNoCase(s)
  \/ s.driver = "IntelMCHMonitor" /\ s.index \in {1, 2}
  \/ s.driver = "NVClockX" /\ s.group = "tachometer"
  \/ s.driver = "IntelCPUMonitor" /\ s.index > 9

\* But for the keys that go astray, what is on the screen is what the registers meant,
\* to within a step, for every key and whatever was in its buffer before: plug-in and
\* application agree on type, byte order and unit, as long as the hardware answered
\* and the plug-in and the type can tell the value.
DisplayedIsMeasured == (CanBeTrue /\ ~Astray(sensorRead)) => ScreenIsTrue

\* Each of the four modules that IntelMCHMonitor.h finds in the two registers is shown
\* by one of the four keys, whichever.  But keys 0 and 2 show the lower byte of DDR1,
\* keys 1 and 3 the upper one of DDR2.
EveryModuleIsShown ==
  (sensorRead.driver = "IntelMCHMonitor" /\ sensorRead.index \in 0..3) =>
    \A k \in 1..4 : \E i \in 0..3 : MchValue([sensorRead EXCEPT !.index = i], answer) = ModulesOf(answer)[k]

\* A fan's key shows the speed its plug-in read, a whole number of turns in the type the
\* key has.  But NVClockX fills a key of type fpe2 by encode_fp2e, for thousandths.
FansShowTheirSpeed == sensorRead.group = "tachometer" => ScreenIsTrue

\* "TC%XD" is "CPU Core %X Die Analog" (definitions.h): the key of a core shows that
\* core.  But the letters of cores 10 and up are taken for cores 0 and up.
CoresShowThemselves == sensorRead.driver = "IntelCPUMonitor" => ScreenIsTrue

\* Every key that is answered shows the sensor it is named for, in the unit of its type.
\* Violated in three places of the code, one to each conjunct.
EveryKeyShowsItsOwn ==
  (CanBeTrue /\ ~HasNoCase(sensorRead)) =>
    EveryModuleIsShown /\ FansShowTheirSpeed /\ CoresShowThemselves
=============================================================================
