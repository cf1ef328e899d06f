---------------------------- MODULE NVClockChips ----------------------------
(* The sensor chips NVClock looks for on the I2C buses of a card (i2c.cpp) and *)
(* how it reads them (lm99.cpp, f75375.cpp, w83781d.cpp, w83l785r.cpp,         *)
(* adt7473.cpp).                                                               *)
(*                                                                             *)
(* A chip is what it measures: its bus, address and kind, the temperatures     *)
(* gpu and board, the speed of its fan in rpm, and, where it has a choice,     *)
(* whether it counts temperatures in two's complement.  What its registers     *)
(* hold then follows from the data sheets; how the driver reads them is from   *)
(* the code.  The transfers are those of I2CBus.                               *)
EXTENDS NVClockBios

NoDevice == [kind |-> "none"]
FanChips == {"F75375", "W83781D", "W83L785R", "ADT7473"}

\* I2cProbeDevices: bus after bus, on each the highest address first.  What is
\* tried at 0x5a goes on to what is tried at 0x5c.
Detects(addr) ==
  CASE addr = \h98 -> {"LM99", "MAX6559"}
    [] addr = \h5A -> FanChips
    [] addr = \h5C -> {"F75375", "ADT7473"}
    [] OTHER -> {}

I2cProbeDevices(chips, num_busses) ==
  LET taken == {c \in chips : c.bus < num_busses /\ c.kind \in Detects(c.addr)}
  IN  IF taken = {} THEN NoDevice
      ELSE CHOOSE c \in taken : \A d \in taken : c.bus < d.bus \/ (c.bus = d.bus /\ c.addr >= d.addr)

-----------------------------------------------------------------------------
\* What the registers hold.  A W83L785R keeps an offset of 3 degrees beside its
\* readings; an ADT7473 counts from -64 where it does not count in two's
\* complement.  Fans give two pulses in a turn; those of GT200 boards have two
\* phases and those of GF100 boards four, of which the chip sees one.
TempRegister(dev, degrees) ==
  CASE dev.kind = "W83L785R" -> (degrees - 3) % 256
    [] dev.kind = "ADT7473" /\ ~dev.signed -> (degrees + 64) % 256
    [] OTHER -> degrees % 256

Phases(arch) == CASE arch = "GT200" -> 2 [] arch = "GF100" -> 4 [] OTHER -> 1

Divisor == 4
CountRegister(dev, arch) ==
  IF dev.rpm = 0 THEN IF dev.kind \in {"W83781D", "W83L785R"} THEN 255 ELSE 65535
  ELSE CASE dev.kind = "F75375" -> 1500000 \div dev.rpm
         [] dev.kind = "ADT7473" -> 5400000 \div (dev.rpm * Phases(arch))
         [] OTHER -> 1350000 \div (dev.rpm * Divisor)

-----------------------------------------------------------------------------
\* A byte as a signed char.
Char(b) == IF b < 128 THEN b ELSE b - 256

\* The correction of the image, or one by architecture where there is none.
CorrectionOr(bios, default) == IF bios # NoBios THEN bios.sensor.correction ELSE default

lm99_get_gpu_temp(dev, arch, bios) ==
  (TempRegister(dev, dev.gpu) + (IF dev.kind = "LM99" THEN 16 ELSE 0)
     + CorrectionOr(bios, CASE arch = "NV43" -> 5 [] arch \in NV4X \ {"NV43"} -> 10 [] OTHER -> 0)) % 256

w83l785r_get_temp(dev, degrees) == TempRegister(dev, degrees) + 3

adt7473_get_temp(dev, degrees) ==
  IF dev.signed THEN Char(TempRegister(dev, degrees)) ELSE TempRegister(dev, degrees) - 64

adt7473_get_gpu_temp(dev, arch, bios) ==
  adt7473_get_temp(dev, dev.gpu)
    + CorrectionOr(bios, CASE arch \in NV4X -> 10 [] arch \in NV5X -> 8 [] OTHER -> 0)

get_gpu_temp(dev, arch, bios) ==
  CASE dev.kind \in {"LM99", "MAX6559"} -> lm99_get_gpu_temp(dev, arch, bios)
    [] dev.kind = "W83L785R" -> w83l785r_get_temp(dev, dev.gpu)
    [] dev.kind = "ADT7473" -> adt7473_get_gpu_temp(dev, arch, bios)
    [] OTHER -> TempRegister(dev, dev.gpu)

get_board_temp(dev) ==
  CASE dev.kind = "W83L785R" -> w83l785r_get_temp(dev, dev.board)
    [] dev.kind = "ADT7473" -> adt7473_get_temp(dev, dev.board)
    [] OTHER -> TempRegister(dev, dev.board)

\* A count of 255 is no fan to the Winbond chips; the others divide by whatever
\* they count.
adt7473_get_fanspeed_rpm(dev, arch) == 5400000 \div (CountRegister(dev, arch) * Phases(arch))

winbond_get_fanspeed_rpm(dev, arch) ==
  LET count == CountRegister(dev, arch) IN IF count = 255 THEN 0 ELSE 1350000 \div (count * Divisor)

get_fanspeed_rpm(dev, arch) ==
  CASE dev.kind = "ADT7473" -> adt7473_get_fanspeed_rpm(dev, arch)
    [] dev.kind = "F75375" -> 1500000 \div CountRegister(dev, arch)
    [] OTHER -> winbond_get_fanspeed_rpm(dev, arch)
=============================================================================
