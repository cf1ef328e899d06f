---------------------------- MODULE NVClockBios ----------------------------
(* The video BIOS as NVClock reads it (NVClockX/NVClock/bios.cpp): which      *)
(* images it accepts, and what it keeps of the init script and of the tables  *)
(* of performance levels, PLL limits, sensor calibration and voltages.        *)
(*                                                                            *)
(* An image is a record.  Offsets, entry sizes and strings are left out: a    *)
(* table is the sequence of its entries, a command of the init script its     *)
(* letter with, for 'z', the register and the value it writes.  Clocks are in *)
(* MHz (those of PLL tables in kHz), voltages in units of 10 mV.              *)
EXTENDS Integers, Sequences, SequencesExt, FiniteSets

\* enum of nvclock.h as the name of each architecture.
NV1X == {"NV10", "NV17"}
NV2X == {"NV20", "NV25"}
NV3X == {"NV30", "NV31", "NV35"}
NV4X == {"NV40", "NV41", "NV43", "NV44", "NV46", "NV47", "NV49", "NV4B", "C51"}
NV5X == {"NV50", "G84", "G86", "G92", "G94", "G96", "GT200", "GF100"}
UNKNOWN == "UNKNOWN"

\* get_gpu_arch: by the upper twelve bits of the device id, except for the two
\* blocks that bridged cards of several generations share.
ArchOfBlock ==
  LET blocks == [NV5 |-> {\h2}, NV10 |-> {\h10, \h11, \h15, \h1A}, NV17 |-> {\h17, \h18, \h1F},
                 NV20 |-> {\h20}, NV25 |-> {\h25, \h28, \h32}, NV30 |-> {\h30}, NV35 |-> {\h33},
                 NV31 |-> {\h31, \h34}, NV40 |-> {\h4, \h12, \h13, \h21, \h23}, NV41 |-> {\hC},
                 NV43 |-> {\h14}, NV44 |-> {\h16, \h22}, NV46 |-> {\h1D}, NV47 |-> {\h9}, NV49 |-> {\h29},
                 NV4B |-> {\h39}, NV50 |-> {\h19}, G84 |-> {\h40, \h60, \h61}, G94 |-> {\h62}, G96 |-> {\h64},
                 GT200 |-> {\h5E, \h5F, \hA6, \hA2, \hA3, \hA7, \hCA, \hCB},
                 G86 |-> {\h42, \h6E, \h6F, \h86, \h87}, C51 |-> {\h24, \h3D, \h53},
                 GF100 |-> (\h6C..\h6D) \union (\hDC..\hDF) \union (\hE2..\hE3) \union (\hEE..\hEF)
                             \union (\hF0..\hF3) \union (\h104..\h107) \union (\h108..\h109)
                             \union (\h120..\h127)]
  IN  [b \in UNION {blocks[a] : a \in DOMAIN blocks} |-> CHOOSE a \in DOMAIN blocks : b \in blocks[a]]

Bridged ==
  [i \in {\hF0, \hF9} |-> "NV40"] @@ [i \in {\hF6} |-> "NV41"] @@ [i \in \hF1..\hF4 |-> "NV43"]
    @@ [i \in {\hF5} |-> "NV47"] @@ [i \in {\hFA} |-> "NV31"] @@ [i \in {\hF8, \hFB, \hFE} |-> "NV35"]
    @@ [i \in {\hFC, \hFD, \hFF} |-> "NV25"] @@ [i \in \h2E0..\h2E2 |-> "NV4B"] @@ [i \in {\h2E4} |-> "NV49"]

get_gpu_arch(device_id) ==
  LET block == device_id \div 16
  IN  IF device_id = \h606 THEN "NV50"
      ELSE IF block \in {\hF, \h2E} /\ device_id \in DOMAIN Bridged THEN Bridged[device_id]
      ELSE IF block \in DOMAIN ArchOfBlock THEN ArchOfBlock[block] ELSE UNKNOWN

-----------------------------------------------------------------------------
\* The init script: parse_bit_init_script_table steps over a command first and
\* looks at the next one afterwards, so that the first is never looked at, until
\* a 'q' or behind a command whose size it does not know.
CommandsUpToX ==
  {"2", "3", "6", "7", "8", "9", "J", "K", "M", "Q", "R", "S", "T", "V", "X", "[", "_", "b", "c", "e", "i",
   "k", "n", "o", "q", "r", "t", "u", "v", "x"}
CommandsAfterX == {"y", "z", "8e", "8f", "90", "91", "97"}
KnownCommands == CommandsUpToX \union CommandsAfterX

LookedAt(script) ==
  {i \in 2..Len(script) : \A j \in 1..(i - 1) : script[j].id \in KnownCommands \ {"q"}}

\* The value the script writes to a register last, as far as it is looked at.
parse_bit_init_script_table(script, reg) ==
  LET writes == {i \in LookedAt(script) : script[i].id = "z" /\ script[i].reg = reg}
  IN  IF writes = {} THEN 0 ELSE script[CHOOSE i \in writes : \A j \in writes : j <= i].val

-----------------------------------------------------------------------------
\* The performance tables.  An entry's voltage of 0 means that of the entry kept
\* before it.
VoltageOf(kept, v) == IF v = 0 /\ kept # <<>> THEN Last(kept).voltage ELSE v

\* Geforce FX: all entries, in units of 10 kHz.
parse_nv30_performance_table(table) ==
  FoldLeft(LAMBDA kept, e :
             Append(kept, [nvclk |-> e.nvclk \div 100, memclk |-> e.memclk \div 50, shaderclk |-> 0, delta |-> 0,
                           fanspeed |-> e.fanspeed, voltage |-> VoltageOf(kept, e.voltage)]),
           <<>>, table.entries)

\* Geforce 6 and later: up to the first entry that is not tagged as one, of
\* which those above 200 MHz are kept.
IsEntry(version, e) == version = \h35 \/ e.tagged

Active(table) ==
  LET ends == {i \in 1..Len(table.entries) : ~IsEntry(table.version, table.entries[i])}
  IN  IF ends = {} THEN table.entries ELSE SubSeq(table.entries, 1, (CHOOSE i \in ends : \A j \in ends : i <= j) - 1)

\* Only the known later versions tell where the shader clock is: with another
\* version it is read from the start of the entry.
Level(arch, table, kept, e) ==
  LET delta == arch \in {"NV47", "NV49"} /\ e.divider # 0
  IN  [nvclk |-> e.nvclk,
       delta |-> IF delta THEN e.delta \div e.divider ELSE 0,
       memclk |-> IF delta \/ arch \in NV5X THEN e.memclk ELSE e.memclk * 2,
       shaderclk |-> IF delta \/ arch \notin NV5X THEN 0
                     ELSE IF table.version \in {\h25, \h30, \h35} THEN e.shaderclk ELSE e.first,
       fanspeed |-> e.fanspeed, voltage |-> VoltageOf(kept, e.voltage)]

parse_bit_performance_table(arch, table) ==
  FoldLeft(LAMBDA kept, e : IF e.nvclk > 200 THEN Append(kept, Level(arch, table, kept, e)) ELSE kept,
           <<>>, Active(table))

-----------------------------------------------------------------------------
\* The calibration of the sensor on the chip: constants for some architectures,
\* which the temperature table may replace one by one.
NoCalibration == [offset_mult |-> 0, offset_div |-> 0, slope_mult |-> 0, slope_div |-> 0, correction |-> 0]

Calibration(offset_mult, offset_div, slope_mult, slope_div) ==
  [offset_mult |-> offset_mult, offset_div |-> offset_div, slope_mult |-> slope_mult, slope_div |-> slope_div,
   correction |-> 0]

DefaultSensor(arch) ==
  CASE arch = "NV43" -> Calibration(32060, 1000, 792, 1000)
    [] arch \in {"NV44", "NV47"} -> Calibration(27839, 1000, 780, 1000)
    [] arch = "NV46" -> Calibration(-24775, 100, 467, 10000)
    [] arch = "NV49" -> Calibration(-25051, 100, 458, 10000)
    [] arch = "NV4B" -> Calibration(-24088, 100, 442, 10000)
    [] OTHER -> NoCalibration

\* The correction is in bits 9 to 15 of an entry whose other bits the mask 0x8f
\* finds clear.
Corrected(sensor, value) ==
  IF value % 16 = 0 /\ (value \div 128) % 2 = 0
  THEN [sensor EXCEPT !.correction = (value \div 512) % 128] ELSE sensor

parse_bit_temperature_table(arch, entries) ==
  FoldLeft(LAMBDA sensor, e :
             CASE e.id = \h01 -> Corrected(sensor, e.value)
               [] e.id = \h10 -> [sensor EXCEPT !.offset_mult = e.value]
               [] e.id = \h11 -> [sensor EXCEPT !.offset_div = e.value]
               [] e.id = \h12 -> [sensor EXCEPT !.slope_mult = e.value]
               [] e.id = \h13 -> [sensor EXCEPT !.slope_div = e.value]
               [] OTHER -> sensor,
           DefaultSensor(arch), entries)

\* The limits of a PLL: frequencies are in MHz in the table and in kHz from there
\* on, dividers and multipliers bytes.
InKHz(vco) ==
  [minInputFreq |-> vco.minInputFreq * 1000, maxInputFreq |-> vco.maxInputFreq * 1000,
   minFreq |-> vco.minFreq * 1000, maxFreq |-> vco.maxFreq * 1000,
   minN |-> vco.minN, maxN |-> vco.maxN, minM |-> vco.minM, maxM |-> vco.maxM]

parse_bit_pll_table(table) ==
  [i \in 1..Len(table) |->
     [reg |-> table[i].reg, VCO1 |-> InKHz(table[i].VCO1), VCO2 |-> InKHz(table[i].VCO2),
      var1d |-> table[i].var1d, var1e |-> table[i].var1e]]

\* The VID mask is at a fixed place in the first revisions of the table, and
\* otherwise right before the first entry.
parse_voltage_table(table) ==
  [volt_mask |-> IF table.revision \in {\h10, \h12} THEN table.fifth ELSE table.before,
   volt_lst |-> table.entries]

-----------------------------------------------------------------------------
Empty(device_id) ==
  [device_id |-> device_id, perf |-> <<>>, pll |-> <<>>, volt |-> [volt_mask |-> 0, volt_lst |-> <<>>],
   sensor |-> NoCalibration, nvpll |-> 0, mpll |-> 0, pipe_cfg |-> 0]

\* One entry of the BIT structure.
ParseEntry(bios, entry) ==
  LET arch == get_gpu_arch(bios.device_id)
  IN  CASE entry.id = "C" -> [bios EXCEPT !.pll = parse_bit_pll_table(entry.pll)]
        [] entry.id = "I" ->
             LET Written(reg, old) ==
                   LET val == parse_bit_init_script_table(entry.script, reg) IN IF val = 0 THEN old ELSE val
             IN  [bios EXCEPT !.pipe_cfg = Written(\h1540, @), !.nvpll = Written(\h4000, @),
                              !.mpll = Written(\h4020, @)]
        [] entry.id = "P" ->
             [bios EXCEPT !.perf = parse_bit_performance_table(arch, entry.perf),
                          !.sensor = parse_bit_temperature_table(arch, entry.temp),
                          !.volt = parse_voltage_table(entry.volt)]
        [] OTHER -> bios

parse_bit_structure(device_id, entries) == FoldLeft(ParseEntry, Empty(device_id), entries)

nv30_parse(device_id, bmp) ==
  [Empty(device_id) EXCEPT !.volt = parse_voltage_table(bmp.volt), !.perf = parse_nv30_performance_table(bmp.perf)]

NoBios == [device_id |-> 0]

\* Which of the two structures is looked for depends on the card; the other may
\* be there as well.  (An image without a structure has no entry in it, and an old
\* one the version 0.)
parse_bios(rom) ==
  LET arch == get_gpu_arch(rom.device_id)
      bitStructured == arch \in NV4X \union NV5X
  IN  IF ~rom.signature \/ ~rom.nvidia \/ (IF bitStructured THEN rom.bit = <<>> ELSE rom.bmp.major < 5) THEN NoBios
      ELSE IF bitStructured THEN parse_bit_structure(rom.device_id, rom.bit)
      ELSE IF arch \in NV3X \/ rom.device_id \div 16 = \h32 THEN nv30_parse(rom.device_id, rom.bmp)
      ELSE Empty(rom.device_id)

\* load_bios_prom: the ROM is switched on, read and switched off again; a ROM
\* that is not there (as on most laptops) has no signature.
read_bios(rom) == parse_bios(rom)
=============================================================================
