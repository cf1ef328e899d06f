----------------------------- MODULE MCReadings -----------------------------
(* Sensors for TLC: for each plug-in one to each formula, encoding and kind of      *)
(* configuration of Readings.                                                       *)
EXTENDS Readings

\* What registers answer: across their range, and at the limits of what the formulas
\* tell apart.
Octets == {5 * b : b \in 0..51} \union {1, 124, 126, 127, 128, 187, 204, 254}
Counts16 == {0, 1, 63, 64, 65, 255, 256, 675, 1350, 2000, 4094, 4095, 30000, 65534, 65535}
Numbers == {0, 1, 7, 500, 999, 1000, 1001, 1999, 3999, 4000, 12000, 15999, 16383, 65535}
MCAnswers(name) ==
  CASE name = "zero" -> {<<0>>}
    [] name = "duty" -> {<<b>> : b \in 0..3}
    [] name = "byte" -> {<<b>> : b \in Octets}
    [] name = "nine bits" -> {<<b>> : b \in Octets \union {256, 383, 384, 511}}
    [] name = "ten bits" -> {<<2 * b + 1>> : b \in Octets \union {256, 383, 384, 511}}
    [] name = "eighths" -> {<<8 * b + 7>> : b \in Octets}
    [] name = "low high" -> {<<n % 256, n \div 256>> : n \in Counts16}
    [] name = "high low" -> {<<n \div 256, n % 256>> : n \in Counts16}
    [] name = "half" -> {<<b, c>> : b \in Octets, c \in {0, 128}}
    [] name = "F71858" -> {<<b, c, m>> : b \in {0, 1, 64, 126, 127, 128, 187, 204, 255}, c \in {0, 1, 224}, m \in 0..3}
    [] name = "word" -> {<<256 * b + c>> : b \in {0, 8, 40, 63}, c \in {0, 9, 255}}
    [] name = "speeds" -> {<<n>> : n \in {0, 900, 1500, 3000}}
    [] name = "channels" -> {<<a, b>> : a \in {0, 10266}, b \in {5140, 65535}}
    [] name = "configured" -> {<<b, c>> : b \in Octets, c \in 0..1}
    [] name = "calibrated" -> {<<b, c>> : b \in Octets, c \in {0, 3, 253}}
    [] name = "valid" -> {<<b, v>> : b \in Octets, v \in 0..1}
    [] name = "number" -> {<<n>> : n \in Numbers}
    [] name = "thousand" -> {<<n * 1000 + 999>> : n \in Numbers}
    [] name = "period" -> {<<n>> : n \in {0, 500, 611, 5000, 20000}}
    [] name = "cores" -> {[c \in 1..12 |-> (b + 9 * c) % 128] : b \in 0..127}
    [] name = "clocks" -> {[c \in 1..12 |-> (n + 100 * c) % 65536] : n \in Numbers}
    [] name = "signed" -> {<<sign * n>> : sign \in {-1, 1}, n \in Numbers}

\* Sensors by what they differ in.
Whole(by, group, type, gain, divider, index, method, answers) ==
  [driver |-> by, group |-> group, type |-> type, gain |-> gain, ri |-> divider[1], rf |-> divider[2],
   vf |-> divider[3], index |-> index, method |-> method, answers |-> answers]
Plain(by, group, type, answers) == Whole(by, group, type, 1, <<0, 1, 0>>, 0, <<>>, answers)
Volts(by, type, gain, divider) == Whole(by, "voltage", type, gain, divider, 0, <<>>, "byte")
Acpi(method, group, answers) == Whole("ACPIMonitor", group, AcpiType(method), 1, <<0, 1, 0>>, 0, method, answers)
AcpiListed(method, digit, group, answers) == Whole("ACPIMonitor", group, ListedType(digit), 1, <<0, 1, 0>>, 0, method, answers)
Indexed(by, index, answers) == Whole(by, "temperature", "sp78", 1, <<0, 1, 0>>, index, <<>>, answers)
Radeon(id, listed, answers) == Indexed("RadeonMonitor", TemperatureFunction(RadeonFamily(id, listed)), answers)
OnCard(chipOnIt, correction, answers) ==
  Whole("GeforceSensors", "temperature", "sp78", 1, <<0, 1, correction>>, 0, chipOnIt, answers)
Signed(type) == Plain("smcdumper", "number", type, "signed")
OfCore(group, type, i, answers) == Whole("IntelCPUMonitor", group, type, 1, <<0, 1, 100>>, i, <<>>, answers)
Multiplier(arch, answers) == Whole("IntelCPUMonitor", "multiplier", "fp4c", 1, <<0, 1, 0>>, 0, <<arch>>, answers)

\* The modules of memory, the fans of NVClockX, and the cores of a processor with
\* more of them than there are digits.
MemorySensors == {Indexed("IntelMCHMonitor", i, "channels") : i \in 0..3}
GpuFans == {Plain("NVClockX", "tachometer", "fpe2", "speeds")}
CpuCores == UNION {{OfCore("temperature", "sp78", i, "cores"), OfCore("multiplier", "fp4c", i, "cores"),
                    OfCore("frequency", "freq", i, "clocks")} : i \in {0, 9, 10, 11}}
AstraySensors == MemorySensors \union GpuFans \union CpuCores

NoSensorRead == Plain("IT87x", "control", "ui8", "zero")
MCSensors == AstraySensors \union
  {NoSensorRead, Plain("IT87x", "control", "ui8", "duty"),
    Plain("IT87x", "temperature", "sp78", "byte"), Plain("F718x", "temperature", "sp78", "byte"),
    Plain("PC8739x", "temperature", "sp78", "byte"), Plain("SMIMonitor", "temperature", "sp78", "byte"),
    Plain("GeforceSensors", "temperature", "sp78", "byte"),
    OnCard(<<"ADT7473", "NV40", "image">>, -3, "configured"), OnCard(<<"ADT7473", "NV40", "none">>, 0, "configured"),
    OnCard(<<"ADT7473", "NV50", "none">>, 0, "configured"), OnCard(<<"W83L785R", "NV40", "none">>, 0, "calibrated"),
    OnCard(<<"LM99", "NV43", "none">>, 0, "byte"), OnCard(<<"LM99", "NV40", "image">>, -20, "byte"),
    OnCard(<<"MAX6559", "NV40", "none">>, 0, "byte"), OnCard(<<"F75375", "NV40", "image">>, 7, "byte"),
    Volts("IT87x", "fp2e", 16, <<0, 1, 0>>), Volts("IT87x", "fp2e", 12, <<0, 0, 0>>),
    Volts("IT87x", "sp4b", 16, <<3000, 1000, 0>>), Volts("IT87x", "sp4b", 12, <<680, 1000, 0>>),
    Volts("IT87x", "sp4b", 16, <<232, 56, 4096>>), Volts("W836x", "fp2e", 8, <<0, 1, 0>>),
    Whole("W836x", "voltage", "fp2e", 8, <<0, 1, 0>>, 8, <<>>, "byte"), Volts("W836x", "fp2e", 16, <<10, 34, 0>>), Volts("W836x", "sp4b", 8, <<680, 100, 0>>),
    Volts("F718x", "fp2e", 8, <<0, 1, 0>>),
    Plain("IT87x", "tachometer", "fpe2", "low high"), Plain("W836x", "tachometer", "fpe2", "number"),
    Plain("F718x", "tachometer", "fpe2", "high low"),
    Plain("PC8739x", "tachometer", "fpe2", "byte"), Plain("SMIMonitor", "tachometer", "fpe2", "number"),
    Plain("W836x", "temperature", "sp78", "half"), Plain("W836x", "temperature", "sp78", "byte"),
    Plain("F718x", "temperature", "sp78", "F71858"),
    Plain("AmdCPUMonitor", "temperature", "sp78", "eighths"),
    Indexed("IntelMCHMonitor", 4, "byte"),
    Radeon(\h9400, "R600", "nine bits"), Radeon(\h9440, "RV770", "ten bits"), Radeon(\h6898, "Evergreen", "ten bits"),
    Radeon(\h6798, "TAHITI", "nine bits"), Radeon(\h6850, "none", "ten bits"), Radeon(\h6810, "none", "nine bits"),
    Radeon(\h6645, "none", "nine bits"), Radeon(\h699F, "none", "nine bits"), Radeon(\h6860, "none", "byte"),
    Plain("X3100monitor", "temperature", "sp78", "valid"),
    Plain("GeforceSensors", "frequency", "freq", "thousand"),
    Plain("GeforceSensors", "tachometer", "fpe2", "speeds"),
    Plain("NVClockX", "temperature", "sp78", "byte"), Plain("NVClockX", "frequency", "freq", "number"),
    Plain("IntelCPUMonitor", "voltage", "fp2e", "number"),
    Multiplier("SandyArch", "word"), Multiplier("nehalemArch", "byte"),
    Acpi(<<"V", "S", "N", "0">>, "voltage", "number"), Acpi(<<"V", "S", "N", "3">>, "voltage", "number"),
    Acpi(<<"V", "C", "P", "U">>, "voltage", "number"), Acpi(<<"V", "P", "0", "R">>, "voltage", "number"),
    Acpi(<<"F", "A", "N", "0">>, "tachometer", "number"),
    Acpi(<<"F", "T", "N", "0">>, "tachometer", "period"),
    Acpi(<<"T", "C", "P", "U">>, "temperature", "byte"), AcpiListed(<<"E", "C", "T", "1">>, 3, "temperature", "byte"),
    Signed("sp78"), Signed("sp4b"), Signed("fp2e"), Signed("fpe2"), Signed("ui16"), Signed("si16")}
=============================================================================
