----------------------------- MODULE GeforceStart -----------------------------
(***************************************************************************)
(* The start of GeforceSensors and the keys it then answers: which chip it *)
(* is, where its BIOS is read from, which functions read its sensors, and  *)
(* what of it is registered.  Start may return early, without a key, at    *)
(* each of its steps.                                                      *)
(*                                                                         *)
(* A BIOS image is what the driver can tell of it: no signature, a wrong   *)
(* checksum, or a good one.  The clocks and what is found on the I2C buses *)
(* are in GeforceClocks and GeforceProbe; here a clock runs or does not.   *)
(***************************************************************************)
EXTENDS Integers, Sequences, SequencesExt

CONSTANT GeforceCards

Chips40 == {"NV40"}
Chips50 == {"G80", "G84", "GT215"}
ChipsC0 == {"GF100", "GF119"}
ChipsE0 == {"GK104", "GM107", "GP100"}
Families == Chips40 \union Chips50 \union ChipsC0 \union ChipsE0

Images == {"none", "bad", "good"}
NoLine == -1   (* no pin, or a function that is not in the table            *)

(* A card: chip; property, the image of the boot loader, or "absent";        *)
(* pramin, prom: the images that can be read; late: how many reads of the    *)
(* ROM give a wrong first byte; gpios: the table of pins, each [func, line]; *)
(* clocks: those that run; turning: the fan does.                            *)

ASSUME GeforceStartAssumption ==
  \A c \in GeforceCards : /\ c.chip \in Families \union {"unknown"}
                          /\ c.property \in Images \union {"absent"}
                          /\ {c.pramin, c.prom} \subseteq Images
                          /\ c.late \in Nat
                          /\ c.clocks \subseteq {"core", "shader", "rop", "memory"}

VARIABLES
  graphicsCard,
  step,       (* of start                                                   *)
  image,      (* bios.data: an image, or "absent"                           *)
  windows,    (* onto the ROM that are open: "PRAMIN" moved, "PROM" enabled *)
  bound,      (* the functions of the card that are set                     *)
  fan_tach,   (* line of the tachometer as found, 0 before it is looked for *)
  counter,    (* line the chip counts revolutions of                        *)
  sensorKeys, (* registered                                                 *)
  called      (* the last function called through the card, and the key for *)
              (* which it was                                               *)

geforceStartVars == <<graphicsCard, step, image, windows, bound, fan_tach, counter, sensorKeys, called>>

-----------------------------------------------------------------------------
(* nouveau_bios.cpp *)

score(data, writeable) ==
  CASE data \in {"absent", "none"} -> 0
    [] data = "bad" -> IF writeable THEN 2 ELSE 1
    [] OTHER -> 3

\* Since NV50 the image is behind a window that can be moved.
Moves(chip) == chip \notin Chips40

\* The first byte is read up to 17 times.  When only the last is right the image is
\* given up, and when none is the second byte decides.
RomRetries == 16
RomFound(c) == c.prom # "none" /\ c.late # RomRetries

\* The first entry of the table with the function, else none.
gpio_find(c, func) ==
  LET i == SelectInSeq(c.gpios, LAMBDA g : g.func = func) IN
  IF i = 0 THEN NoLine ELSE c.gpios[i].line

-----------------------------------------------------------------------------
(* The functions of each family *)

Bound(chip) ==
  {"temp_get", "pwm_get", "gpio_sense", "fan_pwm_get", "fan_rpm_get"}
    \union (IF chip = "GP100" THEN {} ELSE {"clocks_get"})

\* These set up the tachometer's counter, from the line they have of it.
CountsTach(chip) == chip \in {"GT215", "GF100", "GK104", "GM107", "GP100"}

\* fan_rpm_get above zero.  What the counter counts on a line that is not the fan's is
\* anything.  Where the driver times the pin itself, a fan that stands still makes it
\* take one from no changes.
FanAnswers(c, tach, line) ==
  IF CountsTach(c.chip) THEN IF line = tach THEN {c.turning} ELSE BOOLEAN
  ELSE IF tach = NoLine THEN {FALSE} ELSE {c.turning, TRUE}

-----------------------------------------------------------------------------
Unstarted ==
  /\ step = "probed"
  /\ image = "absent"
  /\ windows = {}
  /\ bound = {}
  /\ fan_tach = 0
  /\ counter = NoLine
  /\ sensorKeys = {}
  /\ called = <<>>

GeforceStartInit == graphicsCard \in GeforceCards /\ Unstarted

Give(next) == step' = next

\* Start returns: the kext stays loaded, without a key.
IdentifyCard ==
  /\ step = "probed"
  /\ Give(IF graphicsCard.chip = "unknown" THEN "without keys" ELSE "vbios")
  /\ UNCHANGED <<image, windows, bound, fan_tach, counter, sensorKeys, called>>

ReadProperty ==
  /\ step = "vbios"
  /\ image' = graphicsCard.property
  /\ Give(IF score(graphicsCard.property, TRUE) < 1 THEN "shadow" ELSE "init")
  /\ UNCHANGED <<windows, bound, fan_tach, counter, sensorKeys, called>>

\* nouveau_bios_shadow_pramin and _prom: open the window ...
Open ==
  /\ \/ step = "shadow" /\ Give("PRAMIN")
        /\ windows' = IF Moves(graphicsCard.chip) THEN windows \union {"PRAMIN"} ELSE windows
     \/ step = "shadow prom" /\ Give("PROM") /\ windows' = windows \union {"PROM"}
  /\ UNCHANGED <<image, bound, fan_tach, counter, sensorKeys, called>>

\* ... copy what has a signature, and close it on every path.
CloseWindow_OnSuccess(name, found) == IF found THEN windows \ {name} ELSE windows
CloseWindow(name, found) == windows \ {name}

CopyPramin ==
  /\ step = "PRAMIN"
  /\ LET found == graphicsCard.pramin # "none" IN
       /\ image' = IF found THEN graphicsCard.pramin ELSE image
       /\ windows' = CloseWindow("PRAMIN", found)
  /\ Give(IF score(image', TRUE) > 1 THEN "init" ELSE "shadow prom")
  /\ UNCHANGED <<bound, fan_tach, counter, sensorKeys, called>>

CopyProm ==
  /\ step = "PROM"
  /\ image' = IF RomFound(graphicsCard) THEN graphicsCard.prom ELSE image
  /\ windows' = CloseWindow("PROM", RomFound(graphicsCard))
  /\ Give(IF score(image', FALSE) > 1 THEN "init" ELSE "give up")
  /\ UNCHANGED <<bound, fan_tach, counter, sensorKeys, called>>

\* No image: what there is of one is freed.
GiveUp ==
  /\ step = "give up"
  /\ image' = "absent"
  /\ Give("without keys")
  /\ UNCHANGED <<windows, bound, fan_tach, counter, sensorKeys, called>>

\* nouveau_init.  The counter is set up before the tachometer has been looked for; a
\* line is then in place of it that nothing has written, 0.
nouveau_init ==
  /\ step = "init"
  /\ bound' = Bound(graphicsCard.chip)
  /\ counter' = IF CountsTach(graphicsCard.chip) /\ fan_tach # NoLine THEN fan_tach ELSE counter
  /\ fan_tach' = gpio_find(graphicsCard, "FAN_SENSE")
  /\ Give(IF graphicsCard.chip \in Chips40 \union Chips50 THEN "i2c" ELSE "register")
  /\ UNCHANGED <<image, windows, sensorKeys, called>>

\* A sensor chip on an I2C bus has a core and a board temperature, or one of them.
ProbeI2C ==
  /\ step = "i2c"
  /\ \E chip \in SUBSET {"core_temp_get", "board_temp_get"} : bound' = bound \union chip
  /\ Give("register")
  /\ UNCHANGED <<image, windows, fan_tach, counter, sensorKeys, called>>

TemperatureKeys ==
  CASE {"core_temp_get", "board_temp_get"} \subseteq bound -> {"TGxD", "TGxH"}
    [] OTHER -> {"TGxP"}

ClockOf == [core |-> "CGxC", shader |-> "CGxS", rop |-> "CGxR", memory |-> "CGxM"]
ClockKeys_Unchecked(b) == {ClockOf[k] : k \in graphicsCard.clocks}
ClockKeys(b) == IF "clocks_get" \in b THEN {ClockOf[k] : k \in graphicsCard.clocks} ELSE {}

\* addTachometer registers the fan's key and returns its index, which is taken for a
\* failure if it is 0, the first fan of the machine; or it fails with -1, which is not.
\* What is not taken for a failure is followed by the key for the duty cycle.
Tachometers == {"first", "later", "-1"}
FanKeys(told, duty) ==
  (IF told # "-1" THEN {"FxAc"} ELSE {}) \union (IF told # "first" /\ duty THEN {"FGxP"} ELSE {})

\* The voltage is never registered: no family sets voltage_get.
RegisterSensors ==
  /\ step = "register"
  /\ \E turns \in FanAnswers(graphicsCard, fan_tach, counter), told \in Tachometers, duty \in BOOLEAN :
       /\ duty => gpio_find(graphicsCard, "FAN") # NoLine
       /\ sensorKeys' = TemperatureKeys \union ClockKeys(bound)
                          \union (IF turns THEN FanKeys(told, duty) ELSE {})
  /\ Give("started")
  /\ UNCHANGED <<image, windows, bound, fan_tach, counter, called>>

\* callPlatformFunction: the letter at the end says which function answers; a key of a
\* fan has an answer of none.
AnsweredBy(key) ==
  CASE key \in {"TGxD", "TGxP"} -> "temp_get"
    [] key = "TGxH" -> "core_temp_get"
    [] key \in {ClockOf[k] : k \in DOMAIN ClockOf} -> "clocks_get"
    [] OTHER -> "none"

ReadSensor ==
  /\ step = "started"
  /\ \E key \in sensorKeys : called' = <<key, AnsweredBy(key)>>
  /\ UNCHANGED <<step, image, windows, bound, fan_tach, counter, sensorKeys>>

\* stop and free.
StopGeforce ==
  /\ step \in {"started", "without keys"}
  /\ Give("stopped")
  /\ sensorKeys' = {}
  /\ image' = "absent"
  /\ called' = <<>>
  /\ UNCHANGED <<windows, bound, fan_tach, counter>>

GeforceStartNext ==
  /\ \/ IdentifyCard \/ ReadProperty \/ Open \/ CopyPramin \/ CopyProm \/ GiveUp
     \/ nouveau_init \/ ProbeI2C \/ RegisterSensors \/ ReadSensor \/ StopGeforce
  /\ UNCHANGED graphicsCard

GeforceStartSpec == GeforceStartInit /\ [][GeforceStartNext]_geforceStartVars

-----------------------------------------------------------------------------
GeforceStartTypeOK ==
  /\ graphicsCard \in GeforceCards
  /\ image \in Images \union {"absent"}
  /\ windows \subseteq {"PRAMIN", "PROM"}
  /\ {fan_tach, counter} \subseteq Int
  /\ called = <<>> \/ called[1] \in sensorKeys

\* Whichever way start ends, with keys or at any of its early returns, the windows it
\* opened onto the ROM are closed again and it holds no image it would not read: the
\* card's own driver uses the same registers.
RomIsPutBack ==
  step \in {"started", "without keys", "stopped"} =>
    windows = {} /\ (step = "started" <=> image # "absent")

\* A key that is read reaches a function its chip has: families differ in what they
\* set, and a pointer nothing has set is called all the same.
CallsAreBound == called # <<>> /\ called[2] # "none" => called[2] \in bound
=============================================================================
