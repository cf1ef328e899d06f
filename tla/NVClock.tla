------------------------------ MODULE NVClock ------------------------------
(* NVClockX: the plug-in for older NVIDIA cards (NVClockX.cpp) and the part of  *)
(* the NVClock library it runs (backend.cpp, info.cpp, nv40.cpp, nv50.cpp,      *)
(* overclock.cpp), with the images of NVClockBios and the chips of NVClockChips. *)
(*                                                                              *)
(* The library has one current card, nv_card, which set_card makes current and  *)
(* initializes anew.  Start does so for card after card, and every read of a    *)
(* key does so for the card of the key, on the reader's thread and without a    *)
(* lock: between any two steps of one thread another may change the current     *)
(* card.  `raced' records that it did.                                          *)
(*                                                                              *)
(* A card is what it is (Hw: the ids, the ROM, the chips on its I2C buses, its  *)
(* fan's PWM divider, what its temperature register holds) and what the driver  *)
(* knows of it (nvclock: caps and the functions bound).                         *)
EXTENDS NVClockChips, Encodings

CONSTANTS
  NvMachines,   (* the machines: their NVIDIA cards in the order they are found *)
  NvReaders     (* threads that read keys                                      *)


\* Devices of a machine differ in their ids: PWM dividers and ROMs are sane.
ASSUME NvAssumption ==
  \A m \in NvMachines :
    /\ Len(m.cards) <= 4
    /\ \A i \in 1..Len(m.cards) :
         /\ m.cards[i].pwm \in BOOLEAN /\ (m.cards[i].pwm => m.cards[i].divider > 0)
         /\ m.cards[i].divider \in Nat /\ m.cards[i].duty \in 0..m.cards[i].divider
         /\ m.cards[i].kind \in {"UNKNOWN", "DESKTOP", "NFORCE", "MOBILE"}
         /\ \A c \in m.cards[i].chips : c.bus \in 0..3 /\ c.addr \in 0..255

VARIABLES
  machine,    (* of NvMachines                                                 *)
  started,    (* how far start came: a state of the plug-in                    *)
  nvclock,       (* nvclock.card                                                  *)
  nv_card,    (* index of the current card, or Null                            *)
  duty,       (* PWM duty register of each card                                *)
  asleep,     (* cards whose temperature sensor is off                         *)
  nvKeys,     (* the dictionary sensors: index of the card by key              *)
  fanCount,   (* FNum                                                          *)
  nvAt,       (* where each thread is, and for which card                      *)
  nvAnswered,   (* what a reader was told last                                   *)
  raced
nvVars == <<machine, started, nvclock, nv_card, duty, asleep, nvKeys, fanCount, nvAt, nvAnswered, raced>>

Null == -1
Hw(n) == machine.cards[n + 1]
NvCards == 0..(Len(machine.cards) - 1)
NvThreads == NvReaders \union {"start"}

NoLevel == [nvclk |-> 0, memclk |-> 0]
UnsetCard ==
  [device_id |-> 0, arch |-> UNKNOWN, caps |-> {}, bios |-> NoBios, busses |-> FALSE, sensor |-> NoDevice,
   gpu_temp |-> "NULL", board_temp |-> "NULL", rpm |-> "NULL", fanspeed |-> "NULL", gpu_speed |-> "NULL",
   bus_rate |-> "NULL", modding |-> FALSE, range |-> [nvclk_min |-> 0, nvclk_max |-> 0]]

-----------------------------------------------------------------------------
\* probeDevices: an id that get_gpu_arch does not know is logged with the name of
\* the current card, of which there is none yet.
KnownId(id) == id \div 16 \in DOMAIN ArchOfBlock \union {\hF, \h2E}

Probed(n) == [UnsetCard EXCEPT !.device_id = Hw(n).device_id, !.arch = get_gpu_arch(Hw(n).device_id)]

Goes(t, step) == nvAt' = [nvAt EXCEPT ![t].step = step]

ProbeDevices ==
  /\ started = "no"
  /\ IF \E n \in NvCards : ~KnownId(Hw(n).device_id)
     THEN started' = "faulted" /\ UNCHANGED <<nvclock, nvAt>>
     ELSE IF NvCards = {} THEN started' = "failed" /\ UNCHANGED <<nvclock, nvAt>>
     ELSE /\ started' = "starting" /\ nvclock' = [n \in NvCards |-> Probed(n)]
          /\ nvAt' = [nvAt EXCEPT !["start"] = [step |-> "set_card", n |-> 0]]
  /\ UNCHANGED <<machine, nv_card, duty, asleep, nvKeys, fanCount, nvAnswered, raced>>

-----------------------------------------------------------------------------
\* info_init: the id is read again from the card, where it can be, and may not be
\* the one the architecture was chosen by.
Block(id) == id \div 16

nv_pci_find_capability(list, cap) ==
  \E i \in 1..Len(list) : list[i] = cap /\ \A j \in 1..i : list[j] # "ff"

get_bus_type(id, list) ==
  CASE id \in (\hF0..\hF3) \union {\hF5, \hF6, \h2E0, \h2E1, \h2E2} -> "AGP (BR02)"
    [] id \in \hF8..\hFF -> "PCI-Express (BR02)"
    [] OTHER -> IF nv_pci_find_capability(list, "EXP") THEN "PCI-Express"
                ELSE IF nv_pci_find_capability(list, "AGP") THEN "AGP" ELSE "PCI"

BusRate(type) ==
  CASE type = "AGP" -> "get_agp_bus_rate" [] type = "PCI-Express" -> "get_pcie_bus_rate" [] OTHER -> "NULL"

info_init(c, hw) ==
  LET id == IF Block(c.device_id) \in {\hF, \h2E} \/ c.arch \in NV5X THEN c.device_id ELSE hw.real_id
      mods == c.arch \in NV1X \union NV2X \union NV3X \union NV4X /\ Block(id) # \hF
  IN  [c EXCEPT !.device_id = id, !.modding = mods,
                !.caps = IF mods THEN @ \union {"ID_MODDING"} ELSE @,
                !.bus_rate = BusRate(get_bus_type(id, hw.capabilities))]

\* A sensor chip found on a bus serves the temperatures and, where it counts a fan,
\* the speed.
i2c_sensor_init(c, hw, num_busses) ==
  LET dev == I2cProbeDevices(hw.chips, num_busses)
      fans == dev.kind \in FanChips
  IN  IF c.busses THEN c
      ELSE IF dev.kind = "none" THEN [c EXCEPT !.busses = TRUE]
      ELSE [c EXCEPT !.busses = TRUE, !.sensor = dev, !.gpu_temp = dev.kind, !.board_temp = dev.kind,
                     !.rpm = IF fans THEN dev.kind ELSE @,
                     !.caps = @ \union {"BOARD_TEMP", "GPU_TEMP"} \union (IF fans THEN {"I2C_FANSPEED"} ELSE {})]

\* The sensor on the graphics chip, where no chip on a bus was found.
OnChip(arch) ==
  CASE arch \in {"NV43", "NV44", "NV46", "NV47", "NV49", "NV4B"} -> "nv43_get_gpu_temp"
    [] arch = "NV50" -> "nv50_get_gpu_temp"
    [] arch \in {"G84", "G86", "G94", "G96", "GT200", "GF100"} -> "g84_get_gpu_temp"
    [] arch = "G92" -> "g92_get_gpu_temp"
    [] OTHER -> "NULL"

\* Mutant: bound whether or not a chip was found.
WithTemperature_Always(c) ==
  IF OnChip(c.arch) = "NULL" THEN c
  ELSE [c EXCEPT !.caps = @ \union {"GPU_TEMP"}, !.gpu_temp = OnChip(c.arch)]

WithTemperature(c) ==
  IF OnChip(c.arch) = "NULL" \/ "GPU_TEMP" \in c.caps THEN c
  ELSE [c EXCEPT !.caps = @ \union {"GPU_TEMP"}, !.gpu_temp = OnChip(c.arch)]

\* The fan on the PWM output of the graphics chip, if it is in use.
Pwm(arch) ==
  CASE arch \in {"NV40", "NV49"} -> "nv40_get_fanspeed"
    [] arch \in {"NV41", "NV43", "NV44", "NV47", "NV4B"} -> "nv43_get_fanspeed"
    [] arch \in NV5X \ {"NV50"} -> "g84_get_fanspeed"
    [] OTHER -> "NULL"

\* A bit says so, on later cards a divider above 1.
PwmInUse(arch, hw) == IF arch \in NV4X THEN hw.pwm ELSE hw.divider > 1

WithFan(c, hw) ==
  IF Pwm(c.arch) = "NULL" \/ ~PwmInUse(c.arch, hw) \/ "I2C_FANSPEED" \in c.caps THEN c
  ELSE [c EXCEPT !.caps = @ \union {"GPU_FANSPEED"}, !.fanspeed = Pwm(c.arch)]

\* No overclocking of mobile chips, and of the memory of integrated ones.
Overclocking == {"GPU_OVERCLOCKING", "MEM_OVERCLOCKING"}
WithOverclocking(c, kind) ==
  [c EXCEPT !.caps = CASE kind = "MOBILE" -> @ \ Overclocking
                       [] kind = "NFORCE" /\ c.arch \notin NV4X \union NV5X -> @ \union {"GPU_OVERCLOCKING"}
                       [] OTHER -> @ \union Overclocking]

\* The range of speeds, from the performance levels: the faster of the first two
\* bounds it above.  Nothing keeps to it.
SpeedRange(bios) ==
  LET level(i) == IF i <= Len(bios.perf) THEN bios.perf[i].nvclk ELSE 0
      fast == IF Len(bios.perf) = 1 \/ level(1) > level(2) THEN level(1) ELSE level(2)
  IN  [nvclk_min |-> (level(1) * 3) \div 4, nvclk_max |-> (fast * 5) \div 4]

WithRange(c) == IF c.bios = NoBios THEN c ELSE [c EXCEPT !.range = SpeedRange(c.bios)]

nv40_init(c, hw) ==
  LET clocked == [i2c_sensor_init(c, hw, 3) EXCEPT !.gpu_speed = "nv40_get_gpu_speed"]
  IN  WithRange(WithOverclocking(WithFan(WithTemperature(clocked), hw), hw.kind))

nv50_init(c, hw) ==
  LET clocked == [i2c_sensor_init(c, hw, 4) EXCEPT !.gpu_speed = "nv50_get_gpu_speed"]
  IN  WithOverclocking(WithFan(WithTemperature(clocked), hw), hw.kind)

\* Older cards: buses are created but no sensor is looked for.
nv_init(c, hw) == WithOverclocking([c EXCEPT !.busses = TRUE, !.gpu_speed = "get_gpu_speed"], hw.kind)

\* set_card: Geforce FX cards get nothing but what info_init gives.
Initialized(n) ==
  LET c == info_init(nvclock[n], Hw(n))
  IN  CASE c.arch \in NV3X -> c
        [] c.arch \in NV4X -> nv40_init(c, Hw(n))
        [] c.arch \in NV5X -> nv50_init(c, Hw(n))
        [] OTHER -> nv_init(c, Hw(n))

-----------------------------------------------------------------------------
\* set_card, of any thread: the card is made current, and what is current is
\* initialized.
Between(t) == nvAt[t].step \notin {"idle", "set_card"}

SetCurrent(t) ==
  /\ nvAt[t].step = "set_card"
  /\ nv_card' = nvAt[t].n
  /\ raced' = (raced \/ \E u \in NvThreads \ {t} : Between(u) /\ nvAt[u].n # nvAt[t].n)
  /\ Goes(t, "init")
  /\ UNCHANGED <<machine, started, nvclock, duty, asleep, nvKeys, fanCount, nvAnswered>>

InitCard(t) ==
  /\ nvAt[t].step = "init"
  /\ nvclock' = [nvclock EXCEPT ![nv_card] = Initialized(nv_card)]
  /\ Goes(t, IF t = "start" THEN "bios" ELSE "check")
  /\ UNCHANGED <<machine, started, nv_card, duty, asleep, nvKeys, fanCount, nvAnswered, raced>>

\* start goes on: the image of the current card becomes that of the card that is
\* being started.
ReadBios ==
  /\ nvAt["start"].step = "bios"
  /\ nvclock' = [nvclock EXCEPT ![nvAt["start"].n].bios = read_bios(Hw(nv_card).rom)]
  /\ Goes("start", "register")
  /\ UNCHANGED <<machine, started, nv_card, duty, asleep, nvKeys, fanCount, nvAnswered, raced>>

\* The duty register holds the part of the period in which the fan is off.
DutyFor(n, speed) == ((100 - speed) * Hw(n).divider) \div 100
SpeedOf(n) == ((Hw(n).divider - duty[n]) * 100) \div Hw(n).divider

\* The keys of one card: those its caps call for, of which fakeSMC may refuse any.
NvTemperatureKeys(n) ==
  {<<"D", n>> : x \in nvclock[nv_card].caps \intersect {"GPU_TEMP"}}
    \union {<<"H", n>> : x \in IF "GPU_TEMP" \in nvclock[nv_card].caps
                               THEN nvclock[nv_card].caps \intersect {"BOARD_TEMP"} ELSE {}}

HasFan == nvclock[nv_card].caps \intersect {"I2C_FANSPEED", "GPU_FANSPEED"} # {}

KeptKeys(keys, n) == [k \in keys |-> n] @@ nvKeys

\* The property FanSpeedPercentage sets the fan of every card that has one; the
\* speed of the chip is set by NVClockSelect.
SetNvFan(n) ==
  IF machine.fanPercent \in 0..100 /\ nvclock[nv_card].fanspeed # "NULL"
  THEN duty' = [duty EXCEPT ![nv_card] = DutyFor(nv_card, machine.fanPercent)]
  ELSE UNCHANGED duty

RegisterCard ==
  LET n == nvAt["start"].n
  IN  /\ nvAt["start"].step = "register"
      /\ \E keys \in SUBSET (NvTemperatureKeys(n) \union {<<"C", n>>}), fan \in IF HasFan THEN BOOLEAN ELSE {FALSE} :
           /\ nvKeys' = KeptKeys(keys \union (IF fan THEN {<<"F", fanCount>>} ELSE {}), n)
           /\ fanCount' = IF fan THEN fanCount + 1 ELSE fanCount
      /\ SetNvFan(n)
      /\ IF n + 1 \in NvCards
         THEN nvAt' = [nvAt EXCEPT !["start"] = [step |-> "set_card", n |-> n + 1]] /\ UNCHANGED started
         ELSE Goes("start", "idle") /\ started' = "started"
      /\ UNCHANGED <<machine, nvclock, nv_card, asleep, nvAnswered, raced>>

StopNVClock ==
  /\ started = "started" /\ \A r \in NvReaders : nvAt[r].step = "idle"
  /\ started' = "stopped" /\ nvKeys' = <<>>
  /\ UNCHANGED <<machine, nvclock, nv_card, duty, asleep, fanCount, nvAt, nvAnswered, raced>>

-----------------------------------------------------------------------------
\* callPlatformFunction: a key is read.
ReadNvKey(r) ==
  /\ nvAt[r].step = "idle"
  /\ \E key \in DOMAIN nvKeys : nvAt' = [nvAt EXCEPT ![r] = [step |-> "set_card", n |-> nvKeys[key], key |-> key]]
  /\ nvAnswered' = [nvAnswered EXCEPT ![r] = [key |-> <<>>]]
  /\ UNCHANGED <<machine, started, nvclock, nv_card, duty, asleep, nvKeys, fanCount, raced>>

Kind(r) == nvAt[r].key[1]

\* What the current card can do for the key.
CanServe(r) ==
  LET caps == nvclock[nv_card].caps
  IN  CASE Kind(r) = "D" -> "GPU_TEMP" \in caps
        [] Kind(r) = "H" -> "BOARD_TEMP" \in caps
        [] Kind(r) = "F" -> caps \intersect {"I2C_FANSPEED", "GPU_FANSPEED"} # {}
        [] OTHER -> FALSE

Tell(r, value) ==
  /\ nvAnswered' = [nvAnswered EXCEPT ![r] = [key |-> nvAt[r].key, n |-> nvAt[r].n, value |-> value]]
  /\ Goes(r, "idle")

\* Without the feature the answer is 0; the key of the clock, which begins with a
\* letter the callback does not know, is nvAnswered with success and no value.
CheckCaps(r) ==
  /\ nvAt[r].step = "check"
  /\ IF CanServe(r) THEN nvAt' = [nvAt EXCEPT ![r].step =
                                  IF Kind(r) = "F" /\ "I2C_FANSPEED" \notin nvclock[nv_card].caps
                                  THEN "fanspeed" ELSE "call"] /\ UNCHANGED nvAnswered
     ELSE Tell(r, IF Kind(r) = "C" THEN "untouched" ELSE 0)
  /\ UNCHANGED <<machine, started, nvclock, nv_card, duty, asleep, nvKeys, fanCount, raced>>

\* Division of C, which rounds to zero.
Trunc(a, b) == IF a >= 0 THEN a \div b ELSE -((-a) \div b)

\* nv43_get_gpu_temp has constants of its own for cards whose image is not read.
SensorOf(n) ==
  IF nvclock[n].bios # NoBios THEN nvclock[n].bios.sensor
  ELSE [DefaultSensor(nvclock[n].arch) EXCEPT !.slope_mult = IF nvclock[n].arch \in {"NV44", "NV47"} THEN 700 ELSE @]

\* A floating-point division by 0 is no fault; what the result converts to is
\* not the temperature.
Scaled(raw, s) ==
  IF s.offset_div = 0 \/ s.slope_div = 0 THEN "not a number"
  ELSE Trunc((raw * s.slope_mult * s.offset_div) + (s.offset_mult * s.slope_div), s.slope_div * s.offset_div)
         + s.correction

\* The thermometer of each generation is a register of so many bits.
Raw(n) == Hw(n).raw % (IF nvclock[n].arch \in {"NV43", "NV44", "NV47"} THEN 256 ELSE 8192)

GpuTemperature(n, sensor) ==
  LET c == nvclock[n]
      raw == Raw(n)
  IN  CASE c.gpu_temp = "nv43_get_gpu_temp" -> Scaled(raw, sensor)
        [] c.gpu_temp = "nv50_get_gpu_temp" -> Trunc((raw * 430) - 2270000, 10000)
        [] c.gpu_temp = "g84_get_gpu_temp" -> Hw(n).raw
        [] c.gpu_temp = "g92_get_gpu_temp" -> Trunc(10 * Trunc((10 * raw) - 130963, 10), 187)
        [] OTHER -> get_gpu_temp(c.sensor, c.arch, c.bios)

\* A sensor on the chip that is off is switched on, and half a second later the
\* register of the card that is current by then is read.
WakesSensor(r) ==
  /\ nvAt[r].step = "call" /\ Kind(r) = "D"
  /\ nvclock[nv_card].gpu_temp = "nv43_get_gpu_temp" /\ nv_card \in asleep
  /\ asleep' = asleep \ {nv_card}
  /\ nvAt' = [nvAt EXCEPT ![r] = [step |-> "woken", n |-> @.n, key |-> @.key, sensor |-> SensorOf(nv_card)]]
  /\ UNCHANGED <<machine, started, nvclock, nv_card, duty, nvKeys, fanCount, nvAnswered, raced>>

\* The answer is a UInt16: a temperature as it is, modulo 2^16; a fan's speed or
\* percentage by encode_fp2e, although its key has the type fpe2.
TellDegrees(r, name, v) == Tell(r, IF name = "NULL" THEN "NULL called" ELSE IF v \in Int THEN v % Word ELSE v)
TellFan(r, name, v) == Tell(r, IF name = "NULL" THEN "NULL called" ELSE EncodeFp2e(v % Word))

CallsCard(r) ==
  LET c == nvclock[nv_card]
  IN  /\ CASE nvAt[r].step = "woken" -> TellDegrees(r, c.gpu_temp, GpuTemperature(nv_card, nvAt[r].sensor))
           [] nvAt[r].step = "fanspeed" -> TellFan(r, c.fanspeed, SpeedOf(nv_card))
           [] nvAt[r].step = "call" /\ Kind(r) = "D" ->
                ~(c.gpu_temp = "nv43_get_gpu_temp" /\ nv_card \in asleep)
                  /\ TellDegrees(r, c.gpu_temp, GpuTemperature(nv_card, SensorOf(nv_card)))
           [] nvAt[r].step = "call" /\ Kind(r) = "H" -> TellDegrees(r, c.board_temp, get_board_temp(c.sensor))
           [] nvAt[r].step = "call" /\ Kind(r) = "F" -> TellFan(r, c.rpm, get_fanspeed_rpm(c.sensor, c.arch))
           [] OTHER -> FALSE
      /\ UNCHANGED <<machine, started, nvclock, nv_card, duty, asleep, nvKeys, fanCount, raced>>

-----------------------------------------------------------------------------
NVClockInit ==
  /\ machine \in NvMachines
  /\ started = "no" /\ nvclock = <<>> /\ nv_card = Null
  /\ duty = [n \in NvCards |-> Hw(n).duty]
  /\ asleep = {n \in NvCards : Hw(n).off}
  /\ nvKeys = <<>> /\ fanCount = 0
  /\ nvAt = [t \in NvThreads |-> [step |-> "idle", n |-> Null]]
  /\ nvAnswered = [r \in NvReaders |-> [key |-> <<>>]]
  /\ raced = FALSE

NVClockNext ==
  \/ ProbeDevices \/ ReadBios \/ RegisterCard \/ StopNVClock
  \/ \E t \in NvThreads : SetCurrent(t) \/ InitCard(t)
  \/ \E r \in NvReaders : ReadNvKey(r) \/ CheckCaps(r) \/ WakesSensor(r) \/ CallsCard(r)

NVClockTypeOK ==
  /\ machine \in NvMachines /\ nv_card \in NvCards \union {Null}
  /\ started \in {"no", "faulted", "failed", "starting", "started", "stopped"}
  /\ DOMAIN duty = NvCards /\ asleep \subseteq NvCards
  /\ fanCount \in 0..Cardinality(NvCards) /\ raced \in BOOLEAN
  /\ \A k \in DOMAIN nvKeys : k[1] \in {"D", "H", "F", "C"} /\ nvKeys[k] \in NvCards

-----------------------------------------------------------------------------
\* The calibration that goes with a card: of its own image if it has a good one,
\* else of its architecture.
OwnSensor(n) ==
  IF parse_bios(Hw(n).rom) = NoBios THEN DefaultSensor(get_gpu_arch(Hw(n).device_id)) ELSE parse_bios(Hw(n).rom).sensor

\* v is within a degree of (a / b).
Near(v, a, b) == v \in Int /\ (v * b) - a \in (-b)..b

\* The temperature of the graphics chip, by what measures it on the card.  Chips
\* are corrected by what the image says or, without one, by up to 26 degrees.
\* (g92_get_gpu_temp subtracts 13096 from a register of 13 bits: what that gives
\* measures nothing.)
MeasuredBy(n, v) ==
  LET arch == get_gpu_arch(Hw(n).device_id)
      dev == I2cProbeDevices(Hw(n).chips, IF arch \in NV5X THEN 4 ELSE 3)
      s == OwnSensor(n)
      raw == Raw(n)
      own == parse_bios(Hw(n).rom)
  IN  CASE dev.kind \in {"LM99", "MAX6559", "ADT7473"} ->
             v - dev.gpu - (IF dev.kind = "LM99" THEN 16 ELSE 0) \in
               IF own = NoBios THEN 0..10 ELSE {own.sensor.correction}
        [] dev.kind \notin {"LM99", "MAX6559", "ADT7473", "none"} -> v = dev.gpu
        [] dev.kind = "none" ->
             CASE arch \in {"G84", "G86", "G94", "G96", "GT200", "GF100"} -> v = Hw(n).raw
               [] arch = "NV50" -> Near(v, (raw * 43) - 227000, 1000)
               [] arch = "G92" -> TRUE
               [] OTHER -> Near(v - s.correction, (raw * s.slope_mult * s.offset_div) + (s.offset_mult * s.slope_div),
                                s.slope_div * s.offset_div)

\* What a temperature key's bytes are read as: two's complement.
SignedWord(v) == IF v < 2^15 THEN v ELSE v - Word

\* The speed of a fan that a chip counts, to one part in a hundred; of one on the
\* PWM output, what the property asked for, to the step of its divider.  The code
\* tells either by encode_fp2e.
TurnsAsCounted(dev, v) ==
  \E rpm \in (dev.rpm - (dev.rpm \div 100))..(dev.rpm + (dev.rpm \div 100)) : v = EncodeFp2e(rpm)

TurnsAsSet(n, v) ==
  machine.fanPercent \in 0..100 =>
    \E percent \in machine.fanPercent..(machine.fanPercent + (100 \div Hw(n).divider) + 1) : v = EncodeFp2e(percent)

\* As long as no thread changed the current card under another, a key that was
\* registered when its card was first initialized is answered with what that card
\* measures, by the calibration of that card's image and by functions that are
\* bound: although set_card runs again before each answer, with an image the
\* first run did not have, and may find another id.  The answer is the number
\* the callback makes; that the encoding of a fan's is not that of its key's type
\* is FansShowTheirSpeed of Readings.  (The two sets of constants for NV44 and NV47
\* cards without an image differ by a tenth.)
CardsAnswerForThemselves ==
  ~raced => \A r \in NvReaders : nvAnswered[r].key # <<>> =>
    LET n == nvAnswered[r].n
        v == nvAnswered[r].value
    IN  CASE nvAnswered[r].key[1] = "D" ->
               (v \in Int /\ MeasuredBy(n, SignedWord(v))) \/ (nvclock[n].bios = NoBios /\ nvclock[n].arch \in {"NV44", "NV47"})
          [] nvAnswered[r].key[1] = "H" -> v \in Int /\ SignedWord(v) = I2cProbeDevices(Hw(n).chips, 4).board
          [] nvAnswered[r].key[1] = "F" -> IF nvclock[n].sensor.kind \in FanChips THEN TurnsAsCounted(nvclock[n].sensor, v)
                                          ELSE TurnsAsSet(n, v)
          [] OTHER -> v = "untouched"
=============================================================================
