# FakeSMC and its plug-ins in TLA+

FakeSMC is a macOS kernel extension that answers for the System Management
Controller (SMC) a hackintosh does not have. The operating system's AppleSMC
driver talks to it through three I/O ports; sensor plug-ins register keys with
it and answer for their values; HWMonitor and smcdumper read the keys. This
directory holds a model of all of them in TLA+, checked by TLC on small
instances, and theorems about it, checked by TLAPS for every instance. Paths
below are relative to `src/`; every definition that models code names its lines
in `PROJECT.json`, under `map`.

## The system

| part | source | state | operations | modules |
|---|---|---|---|---|
| key store | `fakesmc/FakeSMCKey.cpp`, `fakesmc/FakeSMCDevice.cpp:688-796, 838-967` | `keys` (an OSArray: name, type, value buffer, handler), `values` (a dictionary published as a property) | `callPlatformFunction`: SetKeyValue, AddKeyHandler, RemoveKeyHandler, AddKeyValue, GetKeyValue; `setProperties` from user space | SMCKeys |
| SMC ports | `fakesmc/FakeSMCDevice.cpp:30-367` | `AppleSMCStatus`: command, status and error registers, positions, buffers; NVRAM variables | a byte written to or read from the data, command or error port | FakeSMCDevice, SMCHost, SMCService |
| boot | `fakesmc/FakeSMCDevice.cpp:369-483, 546-686`, `utils/utils.h:100-196` | `isRevLess`, the store being filled | `init`, from Info.plist and `/efi/platform` | SMCBoot |
| Super I/O family and drivers | `plugins/SuperIOSensors/` | a list of sensors, a port pair, fan divisors | probe, start, stop, value callback, `addSensor`, `addTachometer` | SuperIOProbe, SuperIOStart, FanRegistration, W836xFans, Readings |
| CPU monitors | `plugins/CPUSensors/` | per-core samples, a timer | start, stop, timer, sleep and wake, value callback | IntelCPUMonitor, Readings |
| VoodooBattery | `plugins/VoodooBattery/` | batteries, adapters, power sources, polling | probe, start, stop, ACPI messages, timer, value callback | VoodooBattery, BatteryLevels, BatteryKeys |
| SMI monitor | `plugins/SMIMonitor/` | fan control bits, the outcome of the last SMM call | start, value callback, control keys | SMIMonitor, Readings |
| ACPI, MCH, AMD monitors | `plugins/ACPIMonitor/`, `plugins/IntelMCHMonitor/`, `plugins/CPUSensors/AmdCPUMonitor/` | a list of sensors | start, value callback | Readings, FanRegistration |
| GeForce sensors | `plugins/GPUSensors/GeforceSensors/` | the card: BIOS image, functions of its family, I2C buses, sensor chip | start, stop, value callback | GPUKeys, GeforceStart, GeforceTables, GeforceClocks, GeforceProbe, I2CBus, Readings |
| NVClockX | `plugins/GPUSensors/NVClockX/` | cards, the one current card of the library | start, stop, value callback | NVClock, NVClockBios, NVClockChips, NVClockSelect, I2CBus, GPUKeys, Readings |
| Radeon, X3100 monitors | `plugins/GPUSensors/` | the GPU index claimed | start, stop, value callback | GPUKeys, Readings |
| HWMonitor | `hwmonitor/` | menu, favourites, disks, Bluetooth devices | wake-up, updates, SMART, clicks | HWMonitor, Readings |
| smcdumper | `smcdumper/` | the key at hand | list, read | SmcDumper, Readings |
| key interrupts | `fakesmc/FakeSMCDevice.cpp:802-836` | one handler | register, unregister, cause | - |

They interact in three ways. The host drives the ports, one byte an access, and
an access that completes a request reads or changes the store. A plug-in calls
the device's `callPlatformFunction`, from whatever thread it is started on. And
the store calls back: `getValue` of a key with a handler asks the plug-in for
the value, `setValueFromBuffer` tells it of one. No lock orders any of it: the
one there was is commented out (`FakeSMCDevice.cpp:381, 844, 965`). Plug-ins
meet each other in the keys they number (`F<n>Ac` with the count FNum, `TG<i>D`
with an index) and in the hardware they probe in turn.

What is hard here: the byte automaton keeps what an abandoned request left
(positions that wrap, lengths, buffers, a pending error); registration of fans
and of GPU indices are read-modify-write sequences of several calls by drivers
on different threads; handlers outlive their plug-ins; counts and indices live
in bytes; `init` merges two sources in any order; timers, wake-ups and
notifications race in the CPU and battery drivers; calls to firmware, buses and
the kernel fail one by one, after which what was already done must be told as
it is. `PROJECT.json` lists these hazards, each at its line, with the
properties that watch it.

What makes each part correct:

- *store*: one key per name, an index that stays good, a count that agrees with
  the array, a snapshot that shows what keys hold;
- *ports*: to a host that follows the protocol, an atomic key service; to any
  host, no index outside a buffer;
- *boot*: an outcome independent of traversal order, no revision keys where
  there must be none;
- *fans*: counted fans exist, and fans of registrations that do not overlap
  stay apart;
- *batteries*: polled while the machine runs on them; the power source the
  driver goes by is the one it told the system; figures in one unit;
- *CPU*: a frequency that was measured, rounds that go on and end with stop;
- *fan control*: a success and a status word that say what the firmware does;
- *GPUs*: indices that are not shared, functions that are there when called,
  hardware left as it was found;
- *readings*: the number on the screen is what the register meant;
- *clients*: a menu and a listing that show each thing once, as what it is.

## The modules

`SMCKeys` is the store. `FakeSMCDevice` puts the ports on top of it, `SMCHost`
a host that follows the protocol on top of that, and `SMCService` is what that
host sees, an abstract specification `SMCHost` refines. `FanRegistration` and
`SMCBoot` extend `SMCKeys` independently; `MCStartup` puts them side by side.
The other plug-ins and the two programs stand alone, each in a module with its
surroundings; `MCPlugins` lets TLC choose one of them. Modules `MC...` give
constants values for TLC; modules `...Proofs` hold the theorems.

A definition named `X_Something` beside an `X` is a plausible slip of it that no
specification uses; putting one in the place of `X` makes a property fail.

TLA+ does not order the arms of a CASE: where two guards hold, its value is any
of the two, though TLC takes the first. The guards here exclude each other.

### The store, the ports and what fills them

**SMCKeys.** `keys` is the OSArray, in order, `values` the published
dictionary. One action per call: `SetKeyValue`, `AddKeyHandler`, `AddKeyValue`,
`GetKeyValue` and `RemoveKeyHandler` are the branches of `callPlatformFunction`,
`UpdateKeyValue`, `PopulateList` and `PopulateValues` those of `setProperties`.
Names are fixed-length sequences of bytes because two things the code does turn
on their bytes: `copySymbol` stops at a NUL while `getKey` compares all four,
and creation fails when the first byte is a NUL. Values are sequences of bytes
because the host moves them byte by byte. A handler's answer is any sequence
over `SensorBytes`, or none at all (an error is only logged). The released
iterator of `setProperties` (line 508) is undefined behaviour: `PopulateValues`
may end after any key. `FirstSharpValue` leaves the bytes read past the end of
the literal `"\1"` (line 405) open. RemoveKeyHandler is modelled as it is:
`setHandler` refuses NULL, so nothing changes.

**FakeSMCDevice.** `cmd`, `status`, `status_1e`, `key`, `read_pos`, `data_len`,
`data_pos`, `value`, `key_index` and `key_info` are the fields of
`AppleSMCStatus`. `CmdWrite`, `DataWrite`, `DataRead` and `ErrorRead` are the
port handlers; each of the four commands has its own operator for a byte written
and for a byte read, with the conditions and early returns of its `case`. The
position counter is counted modulo `PosMod` (256 in the code).
`SaveKeyToNVRAM` is part of the access that completes a write.

**SMCHost, SMCService.** The AppleSMC driver is not in the repository: `SMCHost`
models the sequence of accesses the port handlers answer, waits for the status
register as a driver must, and may abandon a request between any two accesses.
`SMCService` has no ports: a request is asked, is acted on at once, and its
reply is taken; meanwhile plug-ins may change anything about the keys but their
order, names and types. The refinement mapping (`Service` in `SMCHost`) maps
what the device still holds and what the host has already received to the reply.

**FanRegistration.** `addTachometer` in the Super I/O family, of which the SMI,
ACPI, GeForce and NVClock monitors hold copies: read FNum, put the sensor in the
list, serve the key, perhaps describe it, write FNum. Each call on the store is
one step, so that registrations of several plug-ins interleave as they do when
the kexts are started in parallel. `pc`, `length` and `sensors` are the local
position, the local variable and the plug-in's list; `tachs` bounds the fans a
plug-in finds; `added` and `overlapped` are history. Drivers that keep no list
(`Handlers \ Listing`) never give up.

**SMCBoot.** `init` decides `isRevLess` from the boot arguments and the model
and fills the store. The dictionary is visited in any order, an entry per step;
the boot loader's properties come in the order of the source. A model is a
family and a major version; `FrontOf` and `OccursIn` say which family names
occur in which, which is all `hw_strstr` tells `isModelREVLess`.

### Batteries

**VoodooBattery.** `frame` says where each thread is in `CheckDevices`, `Update`,
`BatteryInformation` or `BatteryStatus` (`at`, a device `dev`, who called, and a
loaded value); the other variables are the members of those names, the timeout of
the poller (`armed`), what the root domain was told (`told`), and whether a power
source's changes were flushed. Threads are that of `start`, of ACPI
notifications and of power management (`Handlers`), the timer's and readers of
keys. The members are plain `bool`s used without a lock, so that every access is
a step and `x |= y` is a load and a store, which another processor's store may
separate. The argument of a call is loaded before the call. ACPI answers anything
each time it is asked. Only what decides is kept: not the capacities and rates,
nor `QuickPoll`, which picks the interval alone (nothing ever counts it down,
line 479 is commented out). `AcAdapterCount` keeps what `probe` found. A key that
asks for several batteries (BRSC, CHLC) is as several reads.

**BatteryLevels.** One call after another: what the driver makes of capacities
in mAh and mWh (`BatteryInformation`, `BatteryStatus`, the keys B0RM and BRSC).
Whether figures are to be converted is one flag of the driver for all batteries,
which `BatteryInformation` clears, uses and sets.

**BatteryKeys.** One call after another: `probe`'s counts, `start` with its
power sources, keys and repeated checks, `stop`, and where the driver tells of
power and batteries: its own flags, each power source, the legacy dictionary,
BATP and BBIN.

### Processors and laptops

**IntelCPUMonitor.** A round of `loopTimerEvent` is four steps (two samples of
the counters 2 ms apart, the P-states, the end, which re-arms the timer), beside
`start` with its failures, `setPowerState`, which clears one array after the
other, and `stop`. A reading is represented by the processor it was taken from;
only the ratio of the counters is computed. `span`, `spoiled` and `late` are
history.

**SMIMonitor.** `start`'s search for fans and sensors, the control keys a host
writes, and keys that user programs have refreshed (`reads`), all through SMM
calls whose outcome is left in the one global `gRc`. A call and the read of its
outcome are two steps. `manual` and `level` are the firmware's. `misled` is
history: a control call failed, or its caller read the outcome of another's.

### Super I/O

**SuperIOProbe.** Which driver finds which chip: two pairs of ports, each
driver's entry key, identity tables and logical device, in any order of drivers.

**SuperIOStart.** What each driver's `start` makes of a board: configuration by
vendor and product, which inputs get a key, how fans and SmartGuardian keys are
numbered.

**W836xFans.** `updateTachometers` of the Winbond driver: counts of eight bits,
divisors of three bits spread over registers other divisors have bits in; each
register access a step, several reading threads.

### Graphics cards

**GPUKeys.** The four GPU plug-ins claim keys: each looks for a vacant index in
its own way, NVClockX counts its cards. Starts follow one another (one provider).

**GeforceStart.** `start` of GeforceSensors: the chip, the search for the image
in four places with the windows it opens, the functions the family sets, what is
registered, the keys then read.

**GeforceTables.** What start takes from the image: I2C ports, voltages, sensor
calibration, fan pins, table by table; what it makes of the card's registers.

**GeforceClocks.** The mutually recursive functions that find a clock, with the
registers free to change from one read to the next; only who calls whom.

**GeforceProbe.** The search for a sensor chip: default ports, candidate
addresses, detection that fails half-way, the functions bound.

**I2CBus.** The bit-banged I2C master (both copies of `xf86i2c.cpp`), a line
access a step, against a slave that stretches the clock and refuses.

**NVClock, NVClockBios, NVClockChips, NVClockSelect.** NVClockX: start and key
reads, which make their card the library's one current card without a lock
(`raced` records when another thread changed it); the parser of the image; the
sensor chips from data sheet to driver; the search for the dividers of a PLL and
the read-back.

### From register to screen

**Encodings, Readings.** Formula, encoding (`utils.h`), byte order, copied length,
decoding and format of each kind of key, one after the other, and which core or
module of memory the character of a key is taken for; the buffer may hold
anything before. `Meant` says what a key ought to show, from the meaning of the
registers and not from the code; `Astray` names the keys that show something else,
of which the violated `EveryKeyShowsItsOwn` tells. `MCReadings` has the sensors.

**HWMonitor.** The menu with its insertions, headings and favourites, disks and
SMART, Bluetooth devices that come and go.

**SmcDumper.** The listing by index and the read of one key; each call to the
kernel is a step, may fail, and may find the store changed.

## What the runs check

| run | module | what it shows |
|---|---|---|
| `keys` | MCSMCKeys | the store under two plug-ins and user space: types `KeysTypeOK`, one key to a NUL-free name `UniqueNames`, indices that stay good `KeysAreStable`, a count that agrees `EnumerationIsComplete`, a snapshot that does `PublishedIsCurrent` |
| `ports_all` | MCFakeSMCDevice | any bytes and commands, abandoned anywhere, a position counter that wraps, NVRAM and a plug-in: no index leaves its buffer (`TypeOK`), a saved variable names a key (`NvramNamesAKey`) |
| `host` | MCSMCHost | refinement `IsAService`; `RequestsActOnce`, `ReadsWithinBuffers`; liveness `RequestsEnd` |
| `startup` | MCStartup | all subsets of the dictionary, of the properties and of the arguments, all families: `BootOutcome`. Then three plug-ins, two fans each: `FansCountedExist` in every interleaving, `FansKeptApart` while registrations do not overlap |
| `battery` | MCVoodooBattery | one battery, with an adapter device and without; two callers of `CheckDevices`, one of which also reads keys, and the poller: `OnBatteryIsPolled`, `PowerIsTold` |
| `battery_polls` | MCVoodooBattery | two batteries, liveness: `LevelIsRead` |
| `cpu` | MCIntelCPUMonitor | rounds against start, sleep, wake and stop: `FrequencyIsMeasured`, `QuietAfterStop`; liveness: `RoundsGoOn` |
| `plugins` | MCPlugins | seventeen plug-ins and programs in their surroundings, one to a behaviour; see below |
| `battery_flush` | MCVoodooBattery | *violated*: `ChangesAreFlushed` |
| `fans_stop` | MCFanRegistration | *violated*: `NoDanglingHandler` |
| `boot_models` | MCSMCBoot | *violated*: `ListedModelsHaveNoRevision` |
| `astray` | MCReadings | *violated*: `EveryKeyShowsItsOwn`, in three places of the code |

`plugins` chooses a module and one of its machines in the initial state. The
other modules stay in their initial states, without hardware, and do nothing;
`PluginsTypeOK` is about the one that runs. Its properties, by module:

| property | module | what it says |
|---|---|---|
| `ControlIsTrue` | SMIMonitor | a speed that was confirmed to the writer is the fan's, and unless a call failed or seemed to, the fans are under the control the status word tells |
| `TransfersAreTrue` | I2CBus | a call tells the truth when it returns, and changes no register but those it names |
| `SpeedsAreTrue`, `DivisorsDoNotHunt` | W836xFans | the speed kept is the fan's to a unit of the count; a divisor that was moved is not moved back |
| `ChipsFindTheirDrivers` | SuperIOProbe | each plug-in has the first chip it can use, none another's, none is left open |
| `ControlsMatchFans` | SuperIOStart | F`n`Tg controls the fan whose speed F`n`Ac tells, if no input before it is empty |
| `KeysAreKept` | GPUKeys | a running plug-in goes on serving the keys it registered |
| `RomIsPutBack`, `CallsAreBound` | GeforceStart | windows are closed again and no unused image is held; a key read reaches a function that is set |
| `TablesAreHonoured` | GeforceTables | what start takes from the image is what its tables say |
| `NoClockFeedsItself` | GeforceClocks | the recursion over clocks ends, however registers change under it |
| `SensorIsFound` | GeforceProbe | the chip that should be found is, with its own functions |
| `CardsAnswerForThemselves` | NVClock | without a race a key is answered with what its card measures, in the encoding the callback uses (for fans not that of their key, see `astray`) |
| `SpeedIsSet` | NVClockSelect | the speed read back is the one asked for, or as near as any setting comes |
| `DisplayedIsMeasured` | Readings | what is on the screen is what the registers meant, to a step, but for the keys of `Astray` |
| `LevelsAreTrue` | BatteryLevels | a level is answered with what the battery holds, in mAh, if the last battery the driver was informed of is of its kind; a percentage is one |
| `PowerIsAgreed` | BatteryKeys | flag, power sources, BATP, BBIN and the legacy dictionary agree |
| `MenuIsTrue` | HWMonitor | sensors stand under their headings, disks show their own temperatures |
| `DumpIsWhole` | SmcDumper | a finished listing has each key that was counted once and in order, but for those a call failed for, with its value |

The violations are disagreements between the code and what it says of itself.
After `kFakeSMCRemoveKeyHandler` returned success the plug-in is still
the handler of its keys (`FakeSMCKey.cpp:200-207` refuses the NULL that
`FakeSMCDevice.cpp:921` passes). `iMacPro1,1`, which `utils.h:119-126` lists as a
machine without revision keys, is not found to be one, because "MacPro" is
looked for first and occurs in it. `ExternalPower` (`VoodooBattery.cpp:896`)
never calls the `updateStatus` that `VoodooBattery.h:287` asks for after every
change, so that clients keep the "connected" that each poll publishes (line 682).

`astray` has sensors from three places, one to each conjunct of its property; any
of them alone violates it (`MemorySensors`, `GpuFans` or `CpuCores` in the place of
`AstraySensors`). The keys of cores 10 and up report cores 0 and up, since
`IntelCPUMonitor.cpp:645` decodes the letter `A` as 0. Of the four modules that
`IntelMCHMonitor.h:25-32` finds in the registers, the four keys show two, each
twice (`IntelMCHMonitor.cpp:199-206` takes channel and byte from the same bit of the
key's number); the property does not depend on which key should have which. And
`NVClockX.cpp:391` fills the key of a fan, registered as fpe2 at line 169, by
`encode_fp2e`, which is for millivolts (`utils.h:14`): a fan at 1500 rpm is shown
with 6144.

### Bounds

- *Bytes* of the store are 0..2, 0..4, 0..6 or 0..8 (`ByteMax`) and names one or
  two bytes (`NameLen`). What depends on the width is comparison, the NUL, and
  wrapping of a count or a position; the small byte makes the wrap happen within
  the bound: in `keys` the third key wraps `#KEY`, in `ports_all` five bytes wrap
  `read_pos`.
- *Keys*: `MaxKeys` bounds the store, by a guard of the step that would add one
  more. Two or three beside `#KEY` suffice for duplicates, stealing and order.
- *Requests*: `MaxAborts` bounds what a host gives up (one, at any access),
  `MaxDataLen` what it writes.
- *Fans*: three plug-ins, two of one kind and one of the other, two fans each;
  two racing registrations already show a lost fan, the third completes while
  they race. The two Super I/O drivers are interchangeable (`Alike`), and no
  definition tells them apart. Fans fit the byte (`FansFitTheByte`).
- *Boot*: six keys of the dictionary's and five of the loader's are enough to
  have each kind: in one source, in both, unusable, skipped in one and not in
  the other (RVBF). The three remaining properties (BEMB, WKTP, CLWK) are as
  RPlt. `boot_models` takes the versions around the limits of `isModelREVLess`.
- *Batteries*: nothing is counted and nothing bounded but the threads and the
  devices. Two callers of `CheckDevices` meet at every pair of points; a third
  could only repeat what either does. Two batteries make the loops go round in
  `battery_polls`. In `BatteryKeys` two of a notebook's batteries are supported
  (4 in the code), one adapter (2), and start checks twice (5), so that a third
  battery and a second adapter are beyond; what a firmware answers is a set of
  its notebook. `BatteryLevels` has single batteries and a pair, with a
  `LeastDesign` of 3 in the place of 900.
- *CPU*: counters count modulo 2 and the variables that keep them modulo 5, so
  that a wrap happens at every other step; machines of each kind, with and
  without two processors to a core; a readout may be invalid.
- *Laptops*: two fan numbers, speeds up to 1; a fan that is not the first, a
  second processor, fans of another plug-in.
- *I2C*: bytes of two bits, one of which is a chip's address, every call the
  plug-ins make; no call begins on a bus a time-out left in the middle
  (`MaxLate` 0).
- *Readings*: some eighty sensors, for each plug-in one to each formula, encoding
  and kind of configuration the module has, those of `Astray` among them, of which
  `DisplayedIsMeasured` says nothing; bytes are the multiples of five and those at the limits of a formula (1, 124, 126 to 128,
  187, 204, 254), numbers of sixteen bits those at their boundaries; a register
  that is not ready is read three times (`MaxTries`, 1000 in the code).
- *Chips, boards, cards, images, disks, notebooks, stocks of keys*: the sets
  `MC...` of `MCPlugins`, each with the comment that says what is in it. A set has a
  machine for every branch of the code's tables that the module has: revisions
  that fall through, chips that are opened and refused, images from each source,
  tables of each version.
- *GPU indices*: 0..3 (`LastIndex`, 15 in the code), so that restarts use them
  up. *Clocks*: the four that are asked for. *Speeds*: some thirty requests, with
  the limits of the code and with tight ones, post dividers up to 15.
  *NVClockX*: one reader beside start, at most two cards; a second card is enough
  to take the current one's place.
- *HWMonitor*: two temperatures (`Degrees`), one favourite.

`CHECK_DEADLOCK FALSE` stands where the system stops: plug-ins have registered
and stopped, `init` has returned, a listing is printed.

### Fairness

`FairHostSpec` asks weak fairness of `Access`, the next byte of the request
under way: the host driver polls the status register in a loop and goes on with
a request it does not give up. Nothing is asked of plug-ins, nor that a host
makes requests. That the device answers needs no fairness, its handlers run
within the access. `FairBatterySpec` asks weak fairness of each thread inside the
driver (threads are scheduled and ACPI evaluations return) and of the timer (a
timeout that is set and not cancelled expires); it asks nothing of notifications,
wake-ups or key reads. `CpuFair` asks it of the timer, of the thread that runs a
round, of start, and of the wake that clears the arrays; not of sleep, stop or
readers. The other specifications have no fairness and no liveness property.

### What no property can say

Some weaknesses are in the statements of the properties rather than in findings,
since the code promises nothing else.

- *Store.* Beyond 255 keys `#KEY` wraps, and a listing leaves keys out:
  `DumpIsWhole` is about fewer. When two registrations of fans overlap,
  both may take the same number, and one fan is lost.
- *VoodooBattery.* Whether to go on polling is decided from what the poll before
  saw (`VoodooBattery.cpp:473` before 485), so that a battery found to be charging
  again may be left unpolled; only running *on* battery guarantees polling. On a
  machine without an adapter device two threads that deduce the power source at
  once may lose even that. A source may say there is external power when there is
  none (`PublishBatteryInfo`), and a battery whose `_STA` fails stays in and is
  not counted. A battery inserted after start gets no keys. `stop` calls an
  `ACButtonController` that is never made. The driver divides by a design voltage
  and, for BRSC, by a capacity that may be 0. Keys of two bytes are published
  little-endian, where readers take them for big-endian, and AC-N copies two bytes
  into a key of one.
- *SMI.* After a failed call the status word keeps what it was while some fans
  have changed; `misled` excepts that.
- *Super I/O.* F`n`Tg is numbered by the chip's input, F`n`Ac as fans are found: an
  empty input, or another driver's fan, sets them apart. The Winbond driver's check
  for VBAT (`WinbondW836x.cpp:187`) is never true. Nuvoton's sixth fan is beyond
  `fanValue`. Fans of a Fintek chip slower than 366 rpm show 0.
- *Encodings.* `encode_sp4b` of a negative number is not one its reader knows;
  several temperatures are in sign and magnitude where readers take two's
  complement.
- *Keys without an answer.* The GeForce's fan keys (its callback has no case for
  `F`) and NVClockX's clock (its case stands under `F`, `NVClockX.cpp:402`) are
  answered with success and left as they were: HWMonitor shows 0, or what another
  client wrote. `HasNoCase` has them, and nothing says what they should hold. A
  GeForce's TG`n`H, the board's temperature to HWMonitor, is answered with that of
  the core, and an NVClockX fan on the PWM output with its percentage as rpm.
- *GPUs.* With all indices taken `getVacantGPUIndex` says 0, which its caller takes
  for an index; NVClockX does not look. The loop over the image's external devices
  ends only at an entry (`nouveau_bios.cpp:597`), and never finds an address. A
  reading may divide by a register that holds 0 (a PLL's M, a tachometer's count);
  `NoClockFeedsItself` has who calls whom, not the quotients. `g92_get_gpu_temp`
  (`nv50.cpp:227-246`) subtracts 13096 from a register of 13 bits. Generation NV3X
  gets no functions at all.
- *NVClockX.* After a race a reader may be told another card's temperature, or call
  a function that is NULL. `nvclock.card` has four slots and no check.
- *I2C.* A call that begins on a bus a time-out left in the middle may be taken for
  the continuation of the one before; the chip it was meant for then misses it.
- *HWMonitor.* `temp` and `life` are not reset between disks: a disk that fails
  shows what the disk before it told. The keyboard's battery is looked for under
  "BatteryPercent, " and shows 0.

## What is proved

TLC checks the instances above; the theorems below hold for every value of the
constants their modules' assumptions admit: any width of a byte, any number of
keys, threads, batteries, fans and indices, any requests. TLC checked each
invariant on an instance first. A proof module has a lemma for an
operator or an action, a step per action in the lemma about Next, and the
temporal step in a line.

| theorem | module | property |
|---|---|---|
| `KeysInvariant`, `KeysTypeCorrect`, `EnumerationComplete`, `KeysStable`, `NamesAreUnique`, `PublishedCurrent` | SMCKeysProofs | `KeysTypeOK`, `EnumerationIsComplete`, `KeysAreStable`, `UniqueNames`, `PublishedIsCurrent` |
| `DeviceInvariant`, `DeviceTypeCorrect`, `VariablesNameKeys` | FakeSMCDeviceProofs | `TypeOK`, `NvramNamesAKey` |
| `HostInvariant`, `ReadsStayWithin`, `RequestsActAtOnce`, `DeviceIsAService` | SMCHostProofs | `ReadsWithinBuffers`, `RequestsActOnce`, `IsAService` |
| `CountedFansExist`, `FansAreKeptApart`, `SpeedsStayTrue`, `DivisorsStay` | FanRegistrationProofs | `FansCountedExist`, `FansKeptApart`, `SpeedsAreTrue`, `DivisorsDoNotHunt` |
| `BootInvariant`, `BootsToTheSame` | SMCBootProofs | `BootOutcome` |
| `BatteryInvariant`, `OnBatteryItPolls`, `RootDomainIsTold` | VoodooBatteryProofs | `OnBatteryIsPolled`, `PowerIsTold` |
| `SamplesInvariant`, `FrequencyMeasured`, `StoppedIsQuiet` | IntelCPUMonitorProofs | `FrequencyIsMeasured`, `QuietAfterStop` |
| `GpuKeysAreKept`, `RomStaysPutBack`, `CallsStayBound`, `ControlStaysTrue`, `PowerStaysAgreed`, `ClocksEnd` | PluginsProofs | `KeysAreKept`, `RomIsPutBack`, `CallsAreBound`, `ControlIsTrue`, `PowerIsAgreed`, `NoClockFeedsItself` |
| `ProbesFindTheirChips`, `FansAreControlledByNumber`, `BatteriesAreAnsweredFor`, `SensorStaysFound`, `DumpStaysWhole` | PluginsProofs | `ChipsFindTheirDrivers`, `ControlsMatchFans`, `LevelsAreTrue`, `SensorIsFound`, `DumpIsWhole` |

### The arguments

**The store.** `KeysInv` adds to the types that the first key is `#KEY` without a
handler (`SharpOK`): without it, `GetKeyValue` might refresh the count from a
sensor, and a value might be stored in place of the count. `PushKeyPushes` says
what appending a key and counting it does, `IndexOfFound` that `getKey` finds the
first key of the name (from `FirstOf`, by well-foundedness of the strict
subsets); then there is a lemma per call, each stating that the call extends the
store and keeps the invariant. The modules built on the store cite these.

**The ports.** `DeviceInv` is `TypeOK` and `NvramNamesAKey`, inductive as they
stand once the key store's invariant is beside them. The proof is of any access
at all, not of the bytes and commands `HostBytes` and `HostCmds` let TLC write:
`AccessStep` has a case for every port and command. That a variable goes on
naming a key needs that keys keep their places (`VariablesKeepTheirKeys`).

**The host and the service.** Types say nothing about how far a request is, so
`HostInv` adds `InStep`: while a name or an index is spelt the device has just
the bytes sent (`Spelling`; `IndexBy` is the partial sum of an index), while a
value is written it has the key and the bytes so far (`Writing`), and while an
answer is read the status is "data ready" exactly as long as bytes are left
(`Answering`). `DeviceIsAService` then goes access by access: the first byte of a
request is the service's ask (`AskIsAsk`), its last the one act (`SendActs`, one
lemma per command), a byte received stutters since reply = received followed by
what the device still holds (`ReceiveStutters`), the end takes the reply
(`FinishTakes`), and a plug-in's calls are what a service lets plug-ins do
(`PluginsMayChange`).

**Fans.** FNum counts only fans with a key because below the number a registration
read all fans have keys already, and it adds the key of that number before it
writes the next (`NumberIsKey`); keys never go away, so that it does not matter
which of two overlapping registrations writes last, nor that the number wraps.
`FansAreKeptApart` has a hypothesis: all fans the drivers may find fit FNum,
`MaxTachs * Cardinality(Handlers) <= ByteMax`. The code has none; beyond it the
number wraps and is given twice.

**Boot.** `BootInv`: the names of the keys beside `#KEY` are those of the entries
visited together with those of the properties read, each once, and a key has its
type from the dictionary if that has it, its value from the loader if that has it
(`ComesFrom`). What does not mention the order of visits does not depend on it.
`SourcesAssumption` says that names and types of Info.plist and of
`loadKeysFromClover` have nothing after a NUL and that the loader is asked for
each property once, as they are in the source.

**VoodooBattery.** `OnBatteryIsPolled` is about threads at rest, so the invariant
has to say who is on the way. `PollsOrDecides`: off the adapter the timeout is
set, or some thread is before the decision whether to set it. `Unraced`: until
two threads that write the power source meet, one decides, the value it loaded
still holds when it uses it (`LoadsHold`), and the root domain is told or a
thread has yet to tell. The proof of `LoadsHold` goes by the code's order of
evaluation: `ExternalPower`'s argument is loaded before the call.

**CPU.** `CpuInv`: the lock is held exactly while a round runs; after the first
sample of a round no wake disturbed, the variables hold what the counters say;
after the second, the two samples differ by `span`, what the counters counted,
also across a wrap (`CounterAdvances`). So `FrequencyIsMeasured` holds whatever an
earlier round or a wake left in the variables.

**GPU indices.** What a plug-in registered exists (`sensors` within the server's
keys), and an index found vacant has none of the kinds looked for
(`IndexIsVacant`), so that keys claimed under it are new (`ClaimedAreNew`) and
take nothing from anybody. `GraphicsAssumption`: the kinds a Radeon or X3100
registers are those it looks for, D alone.

**Start of GeForce.** `GeforceStartInv`: a window is open only in the steps
PRAMIN and PROM; an image is there from the step that has found it on and none
in the steps that end without; what a family sets stays set, `Bound(chip)`; and a
key is registered only for a function that is set (`Registered`).

**SMI.** `SmiInv`: the shape of the write under way, by which a confirmed speed
stays the fan's while the fan is not left to its temperature (`WriteOK`); the
search has not come to the fans above the one it is at, and what it goes by is
among the found (`ScanOK`); and, unless misled, a fan is manual exactly when
`fansStatus` says so or, while a control write goes on that has come to the fan,
its goal does (`StatusOK`). The first two are what makes the third inductive: a
write may change control while start is still finding fans.

**What is told of power.** `PowerInv` says of the values the driver's functions
are given and leave that the legacy dictionary tells of no battery its source
does not (`Tidy`), that with external power every source says so (`Shown`), that
BATP was answered from the flag (`AnswerOK`), and that from the first check on
power is assumed when no battery is counted. A lemma per function of the driver
states what it keeps; a source's external flag only ever comes to be set by all
of them but `ExternalPower`.

**Clocks.** Every function that finds a clock out is given a height: a clock that
is known has none, a loop fed by one is above it, up to the four clocks that are
asked for. A lemma for the file of each chip states that whatever a function may
call, by any contents of the registers, stands lower (`CurieDescends`,
`TeslaDescends`, `Gt215Descends`, `FermiDescends`). `ClocksInv` is that heights
fall along the calls, so that none is met twice and no chain is longer than seven.

**Tachometers.** `TachInv` is about the copy of the divisors' registers that
`updateTachometers` works on. While one reader is alone, its copy is that of the
registers it has read so far; while it counts, of all of them; and while it
writes, the registers hold what it chose above the place it has come to and what
it read below (`CopyOf`). `MovesFit`: a divisor that was moved fits its fan under
the offset the registers will come to hold, for a move is by a factor of two and
the bounds are 96 and 192 (`MoveFits`): the count after a move asks for no move
back. That the five fans' bits do not meet (`DivisorsApart`) keeps one fan's
setting out of another's. Two readers at once may write back a stale copy: both
properties speak of a reader that is alone.

**Super I/O chips.** `ProbeInv` says which chips are open: those of NSC, and
while a plug-in is at a pair of ports the one it opened there (`OpenIsKnown`). So
an identity that is known was read of an open chip, whose maker is then the
plug-in's (`IdentifyIsTrue`), and every chip a plug-in could use is known to it
when it looks. A chip that goes on was identified, or is the second chip of F718x
after it was refused the first (`SelectedIsKnown`, `ModelIsKnown`): the one
mistake there is. `FirstWasTried` carries what was found at the first ports to
the second, which is what `TakesTheFirst` and `NoneIsMissed` need.

**Fans and their control.** While IT87x alone has fans, FNum counts them in the
order of their inputs (`FansAreCounted`): fan n is at input n or beyond, and inputs
rise with n. If no input before a fan's is empty the n-th fan is at input n, or
the least n where it is not would leave a gap (`LeastOf`); and a control key has
the number of its input (`ControlsAreNumbered`).

**Levels of batteries.** The flag is that of the battery the driver was last
informed of, and a battery's voltage in the driver its own, or 0 while it is not
known (`LevelsInv`). What a battery is made for tells whether its figures are to
be turned (`IsWattIsRight`), and charge times voltage divided by voltage is charge
(`DividesOut`). A percentage is at most 100 because a remainder above the last
full capacity is cut to it before it is divided.

**The search for a sensor.** `SensorInv`: while there is an entry that must be
found (`Due`: all chips answer, and it is the first of the list on the first
port), the first search is not over and has not passed it, nor has a chip been
created for another before; and from "found" on, the chip and the functions are
its own (`OnTime`). Apart from that, whatever was installed fits the chip that
will be asked, over a bus and a device record that still exist (`Installed`).

**The list of keys.** The names of the keys that were counted stay a prefix of
the store's (`ListedSoFar`), since a key is only ever added at the end; of the
first `keyIndex` of them each was printed or missed, in their order (`ListedTo`).
The first key holds their number (`KeysOK`), also between the two calls that read
it. Type and size asked for still hold when the bytes are asked for, unless the
key was set in between (`AskedOK`).

### Assumptions

The assumptions of a module are about what its constants stand for: sizes are
positive, symbols have a first letter, `#KEY` is not what a plug-in registers,
fans' keys differ (`FanAssumption`, from the formats of `definitions.h`), a name
and its length fit the position counter (`PortAssumption`), a host writes no more
than the buffer (`HostAssumption`), a machine has what the tables of the code
know (`MachineAssumption`, `LaptopAssumption`, `GeforceStartAssumption`,
`NotebooksAssumption`, `WinbondAssumption`). Three say more, and why they may:

- `BoardAssumption`: the identity of a chip has no byte that is read of an empty
  socket (for ITE no such word), and is in no table of another maker's plug-in;
  the tables of `probePort` have disjoint sets of ids, but nothing in the code
  keeps a maker from using one again.
- `PacksAssumption`: the guess of `VoodooBattery.cpp:605` is right, that what says
  mWh and would be made for less than 900 mAh, taken for mWh, reports mAh. The
  theorem is about what the driver does when its guess is right.
- `StocksAssumption`: the store has `#KEY` first and names once, which `SMCKeysProofs`
  proves of the store, and plug-ins do not set `#KEY`, which none does.

Every assumption is evaluated by TLC in a run.

### What is only model-checked

- `RequestsEnd`, `LevelIsRead`, `RoundsGoOn`: liveness under fairness is out of
  the prover's reach.
- Of the nineteen properties of `plugins` that say something of a plug-in thirteen
  are proved. `DisplayedIsMeasured`, `SpeedIsSet`, `TablesAreHonoured` and
  `CardsAnswerForThemselves` are about the arithmetic of tables, searches and
  roundings, by operators that recur over data. `TransfersAreTrue` needs an
  invariant about every position in a message, and `MenuIsTrue` one about
  insertions into sequences; neither has been written.
- `PluginsTypeOK`.

## What is not modelled, and why

- Single steps inside a store call. A call is atomic here. The code has no lock,
  so that two threads may also meet inside `setValueFromBuffer` and `setObject`:
  see the plan.
- Key interrupts: `causeInterrupt`, which would run the handler AppleSMC registers,
  is called by nothing in the repository. `FakeSMC` itself: I/O Kit matching.
- The host side beyond its port accesses, memory management, allocations that
  fail in a plug-in's start, logging, tracing.
- Hardware: what a register or an ACPI object holds is any value, or one of a
  set that is named.
- Third-party code nothing of the plug-ins' own logic is in: the Linux
  `nct6775.c`, `atombios.h` and the Radeon tables, `list.h`. Of nouveau and of
  NVClock the model has what the plug-ins run. `i2c_algo_bit`, `nouveau_i2c_bit`
  and the auxiliary channel do no transfer; NVClock's pipeline masks, smart
  dimmer, memory clocks and printing are reached from nothing; no family of
  GeForce chips sets a voltage.
- HWMonitor's start at login and looks; smcdumper's `SMCWriteKey`, which nothing
  calls, values of more than 32 bytes, and its option `-r` without a key, for which
  it formats a NULL (`main.m:166`).
- I2C addresses of two bytes (`xf86i2c.cpp:349`): no sensor chip has one.
- ACPI monitor: the keys a user configures by hand; AMD and MCH monitors: their
  start, which is like those that are modelled.

## Plan

1. `KeyStoreRace`: `setValueFromBuffer`, `getValue`, `addKeyWithValue` and
   GetKeyValue's pointer in single steps, two threads, no lock
   (`FakeSMCKey.cpp:165`); which of `SMCKeys`' properties survive.
2. Proofs: `TransfersAreTrue` for any width of a byte, with an invariant that
   relates the position in a message to the state of the slave; `MenuIsTrue`.
3. VoodooBattery's stop against the poller; the ACPI monitor's own keys.
