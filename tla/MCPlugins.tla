------------------------------ MODULE MCPlugins ------------------------------
(* The plug-ins for TLC, one at a time: in a behaviour one of them is alive,    *)
(* the others have found no hardware and do nothing.                            *)
EXTENDS SMIMonitor, I2CBus, W836xFans, SuperIOProbe, GPUKeys, GeforceProbe, MCReadings,
        SuperIOStart, HWMonitor, GeforceStart, GeforceClocks, BatteryLevels,
        NVClock, NVClockSelect, GeforceTables, BatteryKeys, SmcDumper, TLC

VARIABLE plugin

\* Laptops: a fan that is not the first, beside another plug-in's; two fans, no sensor.
Laptop(fans, kinds, others, cpus, reads) ==
  [fans |-> fans, sensors |-> kinds, others |-> others, cpus |-> cpus, reads |-> reads]
NoLaptop == Laptop({}, {}, 0, 1, {})
MCLaptops == {NoLaptop, Laptop({1}, {"CPU"}, 1, 2, {"fan", "temperature"}), Laptop({0, 1}, {}, 0, 2, {})}

\* A bus with bytes of two bits and a chip at address 1; registers that differ.
MCChip == <<1>>
MCRegisters == [r \in I2CByte |-> <<r[2], 1 - r[1]>>]
I2CCall(op, addr, n, bytes) == [op |-> op, addr |-> addr, n |-> n, bytes |-> bytes]
MCCalls ==
  {I2CCall("probe", <<0>>, 0, <<>>), I2CCall("probe", <<1>>, 0, <<>>),
   I2CCall("read", <<0>>, 1, <<<<0, 1>>>>), I2CCall("read", <<1>>, 1, <<<<0, 1>>>>),
   I2CCall("read", <<1>>, 2, <<<<1, 1>>>>), I2CCall("read", <<1>>, 1, <<>>),
   I2CCall("write", <<1>>, 0, <<<<1, 0>>, <<1, 1>>>>),
   I2CCall("write", <<1>>, 0, <<<<0, 1>>, <<1, 0>>, <<0, 1>>>>),
   I2CCall("writevec", <<1>>, 0, <<<<0, 0>>, <<1, 1>>, <<1, 0>>, <<0, 1>>>>)}

\* Winbond chips: two fans with divisors that share registers, one fan with two
\* threads reading, and a Nuvoton chip with six fans.
FanPeriods(a, b, c) == [f \in 0..5 |-> CASE f = 0 -> a [] f = 1 -> b [] f = 5 -> c [] OTHER -> {7}]
NoW836x == [nuvoton |-> FALSE, fanLimit |-> 0, bits |-> {}, readers |-> {}, periods |-> FanPeriods({7}, {7}, {7})]
MCChips ==
  {NoW836x,
   [nuvoton |-> FALSE, fanLimit |-> 2, bits |-> {0, 37, 39}, readers |-> {"a"}, periods |-> FanPeriods({95}, {200, 385}, {7})],
   [nuvoton |-> FALSE, fanLimit |-> 1, bits |-> {0, 36}, readers |-> {"a", "b"}, periods |-> FanPeriods({95, 192}, {7}, {7})],
   [nuvoton |-> TRUE, fanLimit |-> 6, bits |-> {0}, readers |-> {"a"}, periods |-> FanPeriods({7}, {7}, {256, 513})]}

\* Boards: a chip at the first ports, another, or none, at the second.
IOChip(maker, id, rev, good, works) == [maker |-> maker, id |-> id, rev |-> rev, good |-> good, works |-> works]
Winbonds == {IOChip("Winbond", e[1], e[2], good, TRUE) :
               e \in {<<\h52, \h17>>, <<\h52, \h5F>>, <<\h85, \h41>>, <<\hB3, \h52>>, <<\hC8, \h03>>, <<\hD4, \h24>>},
               good \in {{0, \h0B}, {0}}}
Finteks == {IOChip("Fintek", e[1], e[2], good, TRUE) :
              e \in {<<\h05, \h07>>, <<\h08, \h14>>, <<\h05, \h09>>}, good \in {{0, 2, 4}, {0}, {2}, {4}}}
ITEs == {IOChip("ITE", \h87, e[1], e[2], e[3]) :
           e \in {<<\h12, {4}, TRUE>>, <<\h12, {}, TRUE>>, <<\h28, {4}, FALSE>>, <<\hFF, {4}, TRUE>>}}
NSCs == {IOChip("NSC", \hFC, 1, {}, TRUE), IOChip("NSC", \hFC, 1, {\h0F}, FALSE), IOChip("NSC", \hFB, 2, {\h0F}, TRUE)}
Board(first, second, drivers) == [chips |-> [p \in Ports |-> IF p = 0 THEN first ELSE second], drivers |-> drivers]
NoBoard == Board(NoChip, NoChip, {})
MCBoards ==
  {NoBoard} \union
  {Board(first, second, Drivers) :
     first \in Winbonds \union Finteks \union ITEs \union NSCs \union {NoChip},
     second \in {NoChip, IOChip("Winbond", \hA0, \h25, {\h0B}, TRUE), IOChip("ITE", \h87, \h16, {4}, TRUE),
                 IOChip("ITE", \h87, \hFF, {4}, TRUE), IOChip("Fintek", 9, 9, {4}, TRUE)}}

\* Graphics cards; NVClockX counts its own.
One(kinds) == 0 :> kinds
NoGraphics == <<>>
MCGraphics ==
  {NoGraphics} \union
  {("GeforceSensors" :> One(s)) @@ ("RadeonMonitor" :> One({"D"})) @@ ("X3100monitor" :> One({"D"})) @@ ("NVClockX" :> n) :
     s \in {{"P", "C"}, {"D", "H", "G", "C"}, {"G"}},
     n \in {<<>>, One({"D", "H", "C"}) @@ (1 :> {"D", "C"})}}

\* Cards: one or two sensor chips on two ports, one port, or none.
SensorChip(kind, man, id, config, rate, limits) ==
  [kind |-> kind, man |-> man, id |-> id, config |-> config, rate |-> rate, limits |-> limits]
Named(kind) == SensorChip(kind, 0, 0, {}, 0, FALSE)
Populations ==
  {\h2D :> Named(k) : k \in {"W83L785R", "W83781D", "ADT7475", "ADT7476"}}
    \union {\h2E :> Named(k) : k \in {"ADT7473", "ADT7475", "F75373", "other"}}
    \union {\h4C :> SensorChip("LM", \h01, \h21, {0}, 5, FALSE), \h4C :> SensorChip("LM", \h01, \h21, {}, 8, FALSE),
            \h4D :> SensorChip("LM", \h4D, \h4D, {0, 2, 3}, 5, FALSE), \h4C :> SensorChip("LM", \h4D, \h01, {}, 7, TRUE),
            \h18 :> SensorChip("LM", \h4D, \h01, {4}, 7, TRUE), \h29 :> Named("other"), <<>>}
NoCard == [ports |-> [d \in 0..1 |-> NoPort], external |-> 0, chips |-> <<>>]
MCCards ==
  {NoCard} \union
  {[ports |-> (0 :> 2 @@ 1 :> p), external |-> 1, chips |-> (2 :> chips[1] @@ 1 :> chips[2])] :
     p \in {1, 2, NoPort},
     chips \in Populations \X {<<>>, \h4C :> SensorChip("LM", \h41, \h57, {}, 9, FALSE), \h2C :> Named("ADT7490")}}
    \union {[ports |-> (0 :> 2 @@ 1 :> NoPort), external |-> 3,
             chips |-> (2 :> (\h2D :> Named(k) @@ \h4C :> SensorChip("LM", \h01, \h21, {0}, 5, FALSE)))] :
               k \in {"W83781D", "other"}}

\* Machines with one Super I/O chip, or two: fans that turn on some inputs, and
\* boards the ITE and Winbond drivers know, or not.
Wired(type, turning, cold, peci, fans) == [model |-> type, turning |-> turning, cold |-> cold, peci |-> peci, fans |-> fans]
Table(temp, volt, ri, fan, forced, limit, guardian) ==
  [temp |-> temp, volt |-> volt, ri |-> ri, fan |-> fan, forced |-> forced, limit |-> limit, guardian |-> guardian]
Main(chips, tables) == [chips |-> chips, maker |-> "ASUS", board |-> Absent, product |-> "P8", tables |-> tables]
NoMainboard == Main(<<>>, <<>>)
IteTables == (AnyBoard :> Table(0 :> "CPU" @@ 1 :> "System" @@ 2 :> "CPU", 0 :> "CPU" @@ 3 :> "+12VC" @@ 4 :> "+12VC" @@ 5 :> "nothing", 3 :> 56, 4 :> "Rear", {}, 0, TRUE))
              @@ (<<"ASUS", "P8">> :> Table(2 :> "Memory" @@ 0 :> "Ambient", 8 :> "VBAT", <<>>, <<>>, {}, 0, FALSE))
W836xTables == AnyBoard :> Table(<<>>, 1 :> "+12VC" @@ 2 :> "AVCC" @@ 3 :> "-12VC", 3 :> 0 @@ 2 :> 10, 1 :> "Chassis", {0}, 2, FALSE)
FintekTables == AnyBoard :> NoConfiguration
MCMainboards ==
  {NoMainboard}
  \union {[Main("IT87x" :> Wired("ITE", turning, cold, {}, 5), "IT87x" :> IteTables) EXCEPT !.maker = maker] :
            turning \in SUBSET {0, 1, 3}, cold \in {{0, 1, 2}, {1}}, maker \in {"ASUS", Absent}}
  \union {Main("IT87x" :> Wired("ITE", {0, 1}, cold, {}, 5), "IT87x" :> <<>>) : cold \in {{0, 1, 2}, {1}}}
  \union {Main("W836x" :> Wired(type, {0}, {}, peci, 3), "W836x" :> tables) :
            type \in {"PECI", "Nuvoton", "Winbond"}, peci \in SUBSET {0, 1}, tables \in {W836xTables, <<>>}}
  \union {[Main(("IT87x" :> Wired("ITE", {0, 2}, {0, 1, 2}, {}, 5)) @@ (other :> Wired("F71882", {0}, {}, {}, 2)),
                ("IT87x" :> IteTables) @@ (other :> FintekTables)) EXCEPT !.maker = Absent] : other \in {"F718x", "PC8739x"}}
  \union {Main("PC8739x" :> Wired("unmapped", {0}, {}, {}, 1), "PC8739x" :> FintekTables)}
  \union {Main("F718x" :> Wired("F71858", {2}, {}, {}, 3), "F718x" :> <<>>)}

\* Desktops: SMC keys under headings with Bluetooth devices; disks with and without a
\* thermometer, wear, volumes and SMART, or that cannot be identified.
Disk(name, attributes, capable, known) == [model |-> name, attributes |-> attributes, capable |-> capable, known |-> known]
Volume(name, disk, under) == [name |-> name, disk |-> disk, under |-> under]
Desk(headed, disks, volumes, devices) == [headed |-> headed, disks |-> disks, volumes |-> volumes, devices |-> devices]
NoDesk == Desk(<<>>, <<>>, <<>>, {})
MCDesktops ==
  {NoDesk,
   Desk(<<Headed("frequency", <<"FRC0", "CG0C">>), Headed("frequency", <<"CG1C">>), Headed("fan", <<>>)>>, <<>>, <<>>, {"keyboard", "mouse"}),
   Desk(<<>>, <<Disk("HD", <<5, 194>>, TRUE, TRUE), Disk("SSD", <<177, 194>>, TRUE, TRUE)>>,
        <<Volume("Mac", 2, FALSE), Volume("Data", 1, TRUE), Volume("VM", 1, FALSE)>>, {}),
   Desk(<<>>, <<Disk("HD", <<194>>, TRUE, TRUE), Disk("WD", <<9, 190>>, TRUE, TRUE)>>, <<>>, {}),
   Desk(<<>>, <<Disk("HD", <<1, 194>>, FALSE, TRUE), Disk("?", <<194>>, TRUE, FALSE)>>, <<>>, {"mouse"})}

\* GeForce cards of every family: BIOS images from each source, good, bad and late;
\* pins of a fan and of its tachometer, twice or on line 0.
Gpio(func, line) == [func |-> func, line |-> line]
Roms == {<<"good", "none", "none", 0>>, <<"absent", "good", "none", 0>>, <<"none", "bad", "good", 0>>,
         <<"none", "none", "good", 3>>, <<"absent", "none", "bad", 0>>, <<"absent", "none", "good", 16>>,
         <<"absent", "none", "good", 17>>, <<"bad", "none", "none", 0>>, <<"none", "none", "none", 17>>}
GeforceCard(chp, rom, pins, turning) ==
  [chip |-> chp, property |-> rom[1], pramin |-> rom[2], prom |-> rom[3], late |-> rom[4],
   gpios |-> pins, clocks |-> {"core", "memory"}, turning |-> turning]
NoGeforceCard == GeforceCard("unknown", <<"none", "none", "none", 0>>, <<>>, FALSE)
MCGeforceCards ==
  {GeforceCard(chp, rom, pins, turning) :
     chp \in Families, rom \in Roms, turning \in BOOLEAN,
     pins \in {<<>>, <<Gpio("FAN", 4), Gpio("FAN_SENSE", 9)>>, <<Gpio("FAN_SENSE", 0), Gpio("FAN_SENSE", 9)>>}}
  \union {NoGeforceCard}

\* Batteries: one that reports what it says, one that does not, two that differ.
Pack(unit, says, design, full, volt) == [unit |-> unit, says |-> says, design |-> design, full |-> full, volt |-> volt]
NoPack == <<>>
MCPacks ==
  {NoPack, <<Pack("mWh", "mWh", 4, 3, 2)>>, <<Pack("mAh", "mWh", 4, 3, 2)>>,
   <<Pack("mWh", "mWh", 3, 1, 2), Pack("mAh", "mAh", 2, 1, 2)>>}

\* NVIDIA cards for NVClockX: ids of every generation, images of either structure
\* or none, chips on the buses, fans on the PWM output, sensors that are off.
PerfEntry(nvclk, v) ==
  [tagged |-> TRUE, nvclk |-> nvclk, memclk |-> 400, shaderclk |-> nvclk, first |-> 6, fanspeed |-> 60,
   voltage |-> v, delta |-> 0, divider |-> 0]
NvVoltages == [revision |-> \h12, fifth |-> 3, before |-> 7, entries |-> <<110, 120>>]
NvBmp(major) ==
  [major |-> major, perf |-> [version |-> \h30, entries |-> <<PerfEntry(30000, 110), PerfEntry(45000, 0)>>],
   volt |-> NvVoltages]
NvPerf(version) ==
  [version |-> version, entries |-> <<PerfEntry(100, 0), PerfEntry(300, 110), PerfEntry(450, 0),
                                      [PerfEntry(500, 120) EXCEPT !.tagged = FALSE]>>]
NvBit(version, temp) ==
  <<[id |-> "I", script |-> <<[id |-> "z", reg |-> \h4000, val |-> 1], [id |-> "z", reg |-> \h4000, val |-> 2],
                              [id |-> "?"], [id |-> "z", reg |-> \h4000, val |-> 3]>>],
    [id |-> "P", perf |-> NvPerf(version), temp |-> temp, volt |-> NvVoltages]>>
NvRom(id, entries) == [device_id |-> id, signature |-> TRUE, nvidia |-> TRUE, bit |-> entries, bmp |-> NvBmp(5)]
NoRom == [NvRom(0, <<>>) EXCEPT !.signature = FALSE]
NvCalibration == <<[id |-> \h10, value |-> 30000], [id |-> \h12, value |-> 800], [id |-> \h01, value |-> 1536]>>
NvHw(id, rom) ==
  [device_id |-> id, real_id |-> id, kind |-> "DESKTOP", rom |-> rom, capabilities |-> <<"EXP">>, chips |-> {},
   pwm |-> FALSE, divider |-> 1, duty |-> 1, raw |-> 40, off |-> FALSE]
NvChip(on, addr, kind) == [bus |-> on, addr |-> addr, kind |-> kind, gpu |-> 50, board |-> 35, rpm |-> 1500, signed |-> FALSE]
NvMachine(found) == [cards |-> found, fanPercent |-> 255]
NoNvCard == NvMachine(<<>>)
NV43Card == [NvHw(\h141, NvRom(\h141, NvBit(\h30, NvCalibration))) EXCEPT !.pwm = TRUE, !.divider = 40, !.duty = 10]
G84Card == [NvHw(\h402, NvRom(\h402, NvBit(\h25, <<>>))) EXCEPT !.divider = 16, !.raw = 61]
MCNvMachines ==
  {NoNvCard} \union
  {[NvMachine(found) EXCEPT !.fanPercent = percent] :
     percent \in {35, 255},
     found \in {<<NV43Card>>, <<[NV43Card EXCEPT !.off = TRUE]>>, <<[NV43Card EXCEPT !.rom = NoRom]>>, <<G84Card>>,
                <<[NvHw(\h161, NoRom) EXCEPT !.off = TRUE]>>, <<NvHw(\h1D1, NvRom(\h1D1, NvBit(\h21, <<>>)))>>,
                <<[G84Card EXCEPT !.chips = {NvChip(1, \h98, "LM99"), [NvChip(3, \h5C, "ADT7473") EXCEPT !.board = -5, !.signed = TRUE]}]>>,
                <<[NvHw(\h5E1, NoRom) EXCEPT !.chips = {NvChip(2, \h5C, "ADT7473")}]>>,
                <<[NvHw(\h6C0, NoRom) EXCEPT !.chips = {[NvChip(2, \h5A, "ADT7473") EXCEPT !.gpu = -9, !.signed = TRUE]}]>>,
                <<[NvHw(\hC1, NvRom(\hC1, <<>>)) EXCEPT !.chips = {NvChip(2, \h5A, "W83L785R")}]>>,
                <<[NvHw(\h41, NvRom(\h41, NvBit(\h30, NvCalibration))) EXCEPT !.chips = {[NvChip(1, \h5A, "W83781D") EXCEPT !.rpm = 0]}]>>,
                <<[G84Card EXCEPT !.chips = {NvChip(3, \h5A, "F75375"), NvChip(3, \h98, "W83781D")}]>>,
                <<[NV43Card EXCEPT !.chips = {NvChip(1, \h98, "MAX6559")}, !.kind = "MOBILE"]>>,
                <<[NvHw(\hF6, NvRom(\hC1, NvBit(\h30, <<>>))) EXCEPT !.real_id = \hC1, !.chips = {NvChip(0, \h98, "LM99")}]>>,
                <<[NvHw(\h611, NvRom(\h611, <<>>)) EXCEPT !.raw = 15000]>>, <<[NV43Card EXCEPT !.pwm = FALSE]>>,
                <<[NvHw(\h191, NvRom(\h191, NvBit(\h35, <<>>))) EXCEPT !.raw = 6700, !.capabilities = <<"AGP">>]>>,
                <<NvHw(\h2F, NoRom)>>, <<NvHw(\hABC1, NoRom)>>, <<NvHw(\hF7, NoRom)>>, <<NvHw(\h311, NvRom(\h311, <<>>))>>,
                <<[NvHw(\h171, NvRom(\h171, <<>>)) EXCEPT !.kind = "NFORCE", !.capabilities = <<"ff", "EXP">>]>>}}
  \union {NvMachine(<<[NV43Card EXCEPT !.off = TRUE], [G84Card EXCEPT !.chips = {NvChip(3, \h5C, "ADT7473")}]>>)}

\* Speeds asked of a PLL: of the limits in the code and of tighter ones, between
\* the stages and beyond the second, with a setting that takes it out.
Pll(p) == [bits |-> {}, p |-> p, m |-> 6, n |-> 90, m2 |-> 1, n2 |-> 1]
Stage(input, output, maxM, maxN) ==
  [minInputFreq |-> Min(input), maxInputFreq |-> Max(input), minFreq |-> Min(output), maxFreq |-> Max(output),
   minM |-> 1, maxM |-> maxM, minN |-> 1, maxN |-> maxN]
TightBios(kept) ==
  [pll |-> <<[reg |-> \h4020, VCO1 |-> Stage({3000, 25000}, {90000, 200000}, 3, 9), VCO2 |-> Stage({35000, 100000}, {400000, 900000}, 1, 9)],
             [reg |-> \h4000, VCO1 |-> Stage({3000, 25000}, {100000, 210000}, 4, 11), VCO2 |-> Stage({35000, 100000}, {400000, 900000}, 3, 12)]>>,
   nvpll |-> kept]
SpeedsOf(arch, bios, base_freq, pll, speeds) ==
  {[arch |-> arch, bios |-> bios, base_freq |-> base_freq, pll |-> pll, mhz |-> mhz] : mhz \in speeds}
NoSpeedAsk == CHOOSE a \in SpeedsOf("NV50", NoBios, 27000, Pll(0), {0}) : TRUE
MCSpeedAsks ==
  {NoSpeedAsk} \union SpeedsOf("NV43", NoBios, 27000, Pll(0), {0, 3, 100, 350, 404, 405, 431, 500, 1150})
  \union SpeedsOf("NV49", TightBios({}), 27000, Pll(1), {1, 50, 111, 209, 210, 317, 450, 777, 905})
  \union SpeedsOf("NV41", TightBios({8}), 27000, Pll(1), {111, 450})
  \union SpeedsOf("NV46", [TightBios({}) EXCEPT !.pll = <<Head(@)>>], 27000, Pll(0), {150, 450})
  \union SpeedsOf("NV17", NoBios, 27000, Pll(1), {0, 200, 251, 341}) \union SpeedsOf("NV10", NoBios, 14318, Pll(0), {111, 251})
  \union SpeedsOf("NV25", NoBios, 13500, Pll(2), {3, 250, 400}) \union SpeedsOf("NV20", NoBios, 13500, Pll(15), {175})

\* VBIOS images: an NV40 with a table of sixteen ports, an NV50 whose table has unused
\* and unknown entries, an NVD0, images of the old kind without a table, and images that
\* calibrate no sensor or begin with the ambient one.
PortBytes(t, b0, b1, pad) == [type |-> t, b0 |-> b0, b1 |-> b1, pad |-> pad]
Therm(kind, value) == [kind |-> kind, value |-> value]
FanPin(func, ln, log) == [func |-> func, line |-> ln, log |-> log]
Volt(ver, mask, list) == [ver |-> ver, mask |-> mask, entries |-> list, base |-> 800000, inc |-> 12500]
OwnSensorThen(rest) ==
  <<Therm(0, 0), Therm(4, 1600), Therm(1, -5 * 256), Therm(16, 3), Therm(17, 2), Therm(18, 430), Therm(19, 1000)>> \o rest
OtherSensor == <<Therm(1, 0), Therm(16, 9), Therm(18, 700), Therm(19, 800)>>
VidPinsOf(n) == [k \in 1..n |-> FanPin(<<"VID0", "VID1", "VID2", "VID3", "VID4">>[k], k, 0)]
Nv40Rom ==
  [family |-> "NV40", dcb |-> \h22, signed |-> TRUE, i2cVer |-> 0,
   entries |-> <<PortBytes(8, \h3F, \h3E, -1), PortBytes(7, 0, 0, -1), PortBytes(4, 0, \h10, -1), PortBytes(0, 0, 0, -1)>>,
   aux |-> [high |-> 0, low |-> 0], bmp |-> "none", lines |-> <<0, 0, 0, 0>>, p |-> 1,
   therm |-> OwnSensorThen(OtherSensor), pins |-> VidPinsOf(2) \o <<FanPin("FAN", 9, 0), FanPin("FAN", 2, 0)>>,
   volt |-> Volt(\h20, 3, <<<<90, 0>>, <<110, 3>>>>)]
Nv50Rom ==
  [Nv40Rom EXCEPT !.family = "NV50", !.dcb = \h40, !.i2cVer = \h40, !.aux = [high |-> 1, low |-> 3], !.p = 2,
     !.entries = <<PortBytes(255, 0, 0, -1), PortBytes(5, 2, 0, 3), PortBytes(1, 0, 0, -1), PortBytes(6, 1, 0, 3), PortBytes(5, 12, 0, -1)>>,
     !.pins = VidPinsOf(5) \o <<FanPin("FAN", 16, 1)>>, !.volt = Volt(\h30, 63, <<<<90, 4>>, <<110, 8>>>>)]
MCVideoRoms ==
  {Nv40Rom, Nv50Rom,
   [Nv50Rom EXCEPT !.family = "NVD0", !.i2cVer = \h41, !.volt = Volt(\h40, 7, <<>>), !.pins = VidPinsOf(4) \o <<FanPin("FAN", 7, 0)>>],
   [Nv40Rom EXCEPT !.dcb = 0, !.p = -1, !.bmp = "structure", !.lines = <<0, 0, \h50, \h51>>, !.volt = Volt(\h12, 0, <<>>)],
   [Nv40Rom EXCEPT !.dcb = \h14, !.p = 3, !.bmp = "fixed"],
   [Nv50Rom EXCEPT !.therm = <<Therm(0, 1)>> \o OwnSensorThen(<<>>), !.volt = Volt(\h30, 127, <<>>), !.pins = <<FanPin("FAN", 3, 1)>>],
   [Nv50Rom EXCEPT !.therm = <<Therm(1, 513), Therm(16, -3), Therm(18, 1)>> \o OtherSensor, !.signed = FALSE, !.bmp = "structure"],
   [Nv50Rom EXCEPT !.p = 0, !.dcb = \h20, !.entries = <<>>, !.bmp = "structure", !.lines = <<\h3A, \h3B, 0, 0>>]}
NoVideoRom == Nv40Rom

\* Notebooks: no battery, one with and without an adapter, two and a third that is not
\* supported; the firmware of one of them says everything.
MCNotebook(bays, adapters, lid, says) == [batteries |-> bays, adapters |-> adapters, lid |-> lid, says |-> says]
NoNotebook == MCNotebook(0, 1, TRUE, {})
AllSays == {"unanswered", "empty", "full", "discharging", "charging", "bogus"}
MCNotebooks ==
  {NoNotebook, MCNotebook(1, 0, TRUE, AllSays), MCNotebook(1, 2, FALSE, {"unanswered", "full", "discharging"}),
   MCNotebook(3, 1, FALSE, {"full", "discharging"})}

\* Keys of every kind that is shown; one that grows shorter, and others that come late.
StockKey(name, type, bytes) == [name |-> name, type |-> type, bytes |-> bytes]
CountKey == StockKey("#KEY", CountType, <<0, 0, 0, 0>>)
NoStock == [keys |-> <<CountKey>>, late |-> <<>>, asks |-> {"#KEY"}]
MCStocks ==
  {NoStock,
   [keys |-> <<CountKey, StockKey("TN0D", SmcType("ui", 8, 0), <<40>>), StockKey("TC0D", SmcType("sp", 7, 8), <<128, 64>>)>>,
    late |-> <<StockKey("F0Ac", SmcType("fp", 14, 2), <<16, 4>>), StockKey("TC0D", SmcType("sp", 7, 8), <<27>>),
               StockKey("B0AC", SmcType("si", 16, 0), <<255, 1>>)>>,
    asks |-> {"TC0D", "F0Ac", "none"}],
   [keys |-> <<CountKey, StockKey("REV ", SmcType("{rev", 0, 0), <<1, 30>>), StockKey("NAME", SmcType("ch8*", 0, 0), <<65, 0>>)>>,
    late |-> <<StockKey("BATP", SmcType("flag", 0, 0), <<1>>), StockKey("NAME", SmcType("ch8*", 0, 0), <<66>>)>>,
    asks |-> {"NAME", "BATP"}]}

Quiet(name, inert) == plugin = name \/ inert

PluginsInit ==
  /\ plugin \in {"smi", "i2c", "w836x", "probe", "gpu", "geforce", "readings", "start",
                 "monitor", "gfstart", "clocks", "levels", "nvclock", "select",
                 "tables", "batkeys", "dumper"}
  /\ SmiInit /\ Quiet("smi", laptop = NoLaptop)
  /\ I2CInit
  /\ W836xInit /\ Quiet("w836x", chip = NoW836x)
  /\ ProbeInit /\ Quiet("probe", board = NoBoard)
  /\ GpuInit /\ Quiet("gpu", graphics = NoGraphics)
  /\ GeforceInit /\ Quiet("geforce", card = NoCard)
  /\ ReadingsInit /\ Quiet("readings", sensorRead = NoSensorRead)
  /\ StartInit /\ Quiet("start", mainboard = NoMainboard)
  /\ MonitorInit /\ Quiet("monitor", desktop = NoDesk)
  /\ GeforceStartInit /\ Quiet("gfstart", graphicsCard = NoGeforceCard)
  /\ ClocksInit /\ Quiet("clocks", clockChip = "NV40")
  /\ LevelsInit /\ Quiet("levels", pack = NoPack)
  /\ NVClockInit /\ Quiet("nvclock", machine = NoNvCard)
  /\ SelectInit /\ Quiet("select", pllAsk = NoSpeedAsk)
  /\ TablesInit /\ Quiet("tables", videoRom = NoVideoRom)
  /\ BatteryKeysInit /\ Quiet("batkeys", notebook = NoNotebook)
  /\ DumperInit /\ Quiet("dumper", stock = NoStock)

PluginsNext ==
  \/ /\ plugin = "smi" /\ SmiNext
     /\ UNCHANGED <<plugin, i2cVars, w836xVars, probeVars, gpuVars, geforceVars,
                    readingsVars, startVars, monitorVars, geforceStartVars, clockVars,
                    levelVars, nvVars, selectVars, tablesVars, batteryKeyVars,
                    dumperVars>>
  \/ /\ plugin = "i2c" /\ I2CNext
     /\ UNCHANGED <<plugin, smiVars, w836xVars, probeVars, gpuVars, geforceVars,
                    readingsVars, startVars, monitorVars, geforceStartVars, clockVars,
                    levelVars, nvVars, selectVars, tablesVars, batteryKeyVars,
                    dumperVars>>
  \/ /\ plugin = "w836x" /\ W836xNext
     /\ UNCHANGED <<plugin, smiVars, i2cVars, probeVars, gpuVars, geforceVars,
                    readingsVars, startVars, monitorVars, geforceStartVars, clockVars,
                    levelVars, nvVars, selectVars, tablesVars, batteryKeyVars,
                    dumperVars>>
  \/ /\ plugin = "probe" /\ ProbeNext
     /\ UNCHANGED <<plugin, smiVars, i2cVars, w836xVars, gpuVars, geforceVars,
                    readingsVars, startVars, monitorVars, geforceStartVars, clockVars,
                    levelVars, nvVars, selectVars, tablesVars, batteryKeyVars,
                    dumperVars>>
  \/ /\ plugin = "gpu" /\ GpuNext
     /\ UNCHANGED <<plugin, smiVars, i2cVars, w836xVars, probeVars, geforceVars,
                    readingsVars, startVars, monitorVars, geforceStartVars, clockVars,
                    levelVars, nvVars, selectVars, tablesVars, batteryKeyVars,
                    dumperVars>>
  \/ /\ plugin = "geforce" /\ GeforceNext
     /\ UNCHANGED <<plugin, smiVars, i2cVars, w836xVars, probeVars, gpuVars,
                    readingsVars, startVars, monitorVars, geforceStartVars, clockVars,
                    levelVars, nvVars, selectVars, tablesVars, batteryKeyVars,
                    dumperVars>>
  \/ /\ plugin = "readings" /\ ReadingsNext
     /\ UNCHANGED <<plugin, smiVars, i2cVars, w836xVars, probeVars, gpuVars,
                    geforceVars, startVars, monitorVars, geforceStartVars, clockVars,
                    levelVars, nvVars, selectVars, tablesVars, batteryKeyVars,
                    dumperVars>>
  \/ /\ plugin = "start" /\ StartNext
     /\ UNCHANGED <<plugin, smiVars, i2cVars, w836xVars, probeVars, gpuVars,
                    geforceVars, readingsVars, monitorVars, geforceStartVars, clockVars,
                    levelVars, nvVars, selectVars, tablesVars, batteryKeyVars,
                    dumperVars>>
  \/ /\ plugin = "monitor" /\ MonitorNext
     /\ UNCHANGED <<plugin, smiVars, i2cVars, w836xVars, probeVars, gpuVars,
                    geforceVars, readingsVars, startVars, geforceStartVars, clockVars,
                    levelVars, nvVars, selectVars, tablesVars, batteryKeyVars,
                    dumperVars>>
  \/ /\ plugin = "gfstart" /\ GeforceStartNext
     /\ UNCHANGED <<plugin, smiVars, i2cVars, w836xVars, probeVars, gpuVars,
                    geforceVars, readingsVars, startVars, monitorVars, clockVars,
                    levelVars, nvVars, selectVars, tablesVars, batteryKeyVars,
                    dumperVars>>
  \/ /\ plugin = "clocks" /\ ClocksNext
     /\ UNCHANGED <<plugin, smiVars, i2cVars, w836xVars, probeVars, gpuVars,
                    geforceVars, readingsVars, startVars, monitorVars, geforceStartVars,
                    levelVars, nvVars, selectVars, tablesVars, batteryKeyVars,
                    dumperVars>>
  \/ /\ plugin = "levels" /\ LevelsNext
     /\ UNCHANGED <<plugin, smiVars, i2cVars, w836xVars, probeVars, gpuVars,
                    geforceVars, readingsVars, startVars, monitorVars, geforceStartVars,
                    clockVars, nvVars, selectVars, tablesVars, batteryKeyVars,
                    dumperVars>>
  \/ /\ plugin = "nvclock" /\ NVClockNext
     /\ UNCHANGED <<plugin, smiVars, i2cVars, w836xVars, probeVars, gpuVars,
                    geforceVars, readingsVars, startVars, monitorVars, geforceStartVars,
                    clockVars, levelVars, selectVars, tablesVars, batteryKeyVars,
                    dumperVars>>
  \/ /\ plugin = "select" /\ SelectNext
     /\ UNCHANGED <<plugin, smiVars, i2cVars, w836xVars, probeVars, gpuVars,
                    geforceVars, readingsVars, startVars, monitorVars, geforceStartVars,
                    clockVars, levelVars, nvVars, tablesVars, batteryKeyVars, dumperVars>>
  \/ /\ plugin = "tables" /\ TablesNext
     /\ UNCHANGED <<plugin, smiVars, i2cVars, w836xVars, probeVars, gpuVars,
                    geforceVars, readingsVars, startVars, monitorVars, geforceStartVars,
                    clockVars, levelVars, nvVars, selectVars, batteryKeyVars, dumperVars>>
  \/ /\ plugin = "batkeys" /\ BatteryKeysNext
     /\ UNCHANGED <<plugin, smiVars, i2cVars, w836xVars, probeVars, gpuVars,
                    geforceVars, readingsVars, startVars, monitorVars, geforceStartVars,
                    clockVars, levelVars, nvVars, selectVars, tablesVars, dumperVars>>
  \/ /\ plugin = "dumper" /\ DumperNext
     /\ UNCHANGED <<plugin, smiVars, i2cVars, w836xVars, probeVars, gpuVars,
                    geforceVars, readingsVars, startVars, monitorVars, geforceStartVars,
                    clockVars, levelVars, nvVars, selectVars, tablesVars, batteryKeyVars>>

pluginsVars == <<plugin, smiVars, i2cVars, w836xVars, probeVars, gpuVars, geforceVars,
                 readingsVars, startVars, monitorVars, geforceStartVars, clockVars,
                 levelVars, nvVars, selectVars, tablesVars, batteryKeyVars, dumperVars>>

PluginsSpec == PluginsInit /\ [][PluginsNext]_pluginsVars

\* The variables of the plug-in that runs have their types.
PluginsTypeOK ==
  /\ plugin = "smi" => SmiTypeOK
  /\ plugin = "i2c" => I2CTypeOK
  /\ plugin = "w836x" => W836xTypeOK
  /\ plugin = "probe" => ProbeTypeOK
  /\ plugin = "gpu" => GpuTypeOK
  /\ plugin = "geforce" => GeforceTypeOK
  /\ plugin = "readings" => ReadingsTypeOK
  /\ plugin = "start" => StartTypeOK
  /\ plugin = "monitor" => MonitorTypeOK
  /\ plugin = "gfstart" => GeforceStartTypeOK
  /\ plugin = "clocks" => ClocksTypeOK
  /\ plugin = "levels" => LevelsTypeOK
  /\ plugin = "nvclock" => NVClockTypeOK
  /\ plugin = "select" => SelectTypeOK
  /\ plugin = "tables" => TablesTypeOK
  /\ plugin = "batkeys" => BatteryKeysTypeOK
  /\ plugin = "dumper" => DumperTypeOK
=============================================================================
