------------------------------ MODULE SMIMonitor ------------------------------
(***************************************************************************)
(* The SMIMonitor plug-in: fans and temperatures of a Dell behind calls of *)
(* the System Management Mode.  Every call is made by the first processor  *)
(* while the others are held; its outcome is left in the one global gRc    *)
(* that all processors write and every caller reads afterwards.            *)
(*                                                                         *)
(* Three threads make calls: start, which looks for fans; the one host     *)
(* that writes the control keys; and the user's programs that have values  *)
(* refreshed.  A set bit of "FS! " is a member of a set of fans.           *)
(***************************************************************************)
EXTENDS Integers, FiniteSets, FiniteSetsExt

CONSTANTS
  FanSlots,      (* fan numbers that are probed: 0 to 5 in the code         *)
  I8K_FAN_MAX,   (* the highest speed a fan has: 2 in the code              *)
  Kinds,         (* temperature types that have a key                       *)
  Laptops        (* the machines: their fans, the types of their sensors,   *)
                 (* the fans other plug-ins registered, the processors, and *)
                 (* what the user's programs read                           *)

ASSUME LaptopAssumption ==
  /\ Max(FanSlots) \in Nat /\ FanSlots = 0..Max(FanSlots) /\ I8K_FAN_MAX \in Nat
  /\ \A m \in Laptops :
       /\ m.fans \subseteq FanSlots /\ m.sensors \subseteq Kinds
       /\ m.others \in Nat /\ m.cpus \in Nat /\ m.reads \subseteq {"fan", "temperature"}

VARIABLES
  laptop,      (* the machine; one without fans is no Dell                  *)
  scan,        (* start's loop: the fan it is at and whether it was asked   *)
  fanKeys,     (* number in the "F<n>Ac" of each fan that was found         *)
  fanNum, fansStatus,
  kindKeys,    (* temperature types with a key                              *)
  write,       (* the key write under way; afterwards the speed that was    *)
               (* confirmed, if one was                                     *)
  read,        (* the key read under way                                    *)
  gRc,         (* the last call succeeded                                   *)
  manual,      (* hardware: fans that do not follow the temperature         *)
  level,       (* hardware: their speed, 0 to 2                             *)
  misled       (* history: a control call failed, or its caller read the    *)
               (* outcome of another                                        *)

smiVars == <<laptop, scan, fanKeys, fanNum, fansStatus, kindKeys, write, read, gRc, manual, level, misled>>

NoWrite == [at |-> "idle"]
Scanning == scan.at # "done"

\* What may be left in gRc: read_smi stores -1 on every processor but the first,
\* before or after the first stores what smm returned.
Left_Sure(ok) == {ok}
Left(ok) == {ok} \union (IF laptop.cpus > 1 THEN {FALSE} ELSE {})

\* Calls about a fan the machine does not have fail, others may.
Outcomes(fan) == IF fan \in laptop.fans THEN BOOLEAN ELSE {FALSE}

-----------------------------------------------------------------------------
(* start.                                                                   *)

\* I8K_SMM_GET_FAN for the next number ...
AskFan ==
  /\ scan.at = "ask"
  /\ \E ok \in Outcomes(scan.fan) : gRc' \in Left(ok)
  /\ scan' = [scan EXCEPT !.at = "asked"]
  /\ UNCHANGED <<laptop, fanKeys, fanNum, fansStatus, kindKeys, write, read, manual, level, misled>>

\* ... after which the search goes on, after the last fan with the sensors.
NextSlot == IF scan.fan + 1 \in FanSlots THEN [at |-> "ask", fan |-> scan.fan + 1]
                                         ELSE [at |-> "temps", fan |-> 0]

SkipFan ==
  /\ scan.at = "asked" /\ ~gRc
  /\ scan' = NextSlot
  /\ UNCHANGED <<laptop, fanKeys, fanNum, fansStatus, kindKeys, write, read, gRc, manual, level, misled>>

\* The tachometer's key has the number that FNum tells, the keys for the range
\* and the control of the fan have the fan's own.
TachKey == laptop.others + fanNum

\* The fan is put under automatic control, whatever comes of it; its type and
\* its nominal speeds, asked for afterwards, only go to the log and the name.
FoundFan ==
  /\ scan.at = "asked" /\ gRc
  /\ \E ok \in Outcomes(scan.fan) :
       /\ manual' = IF ok THEN manual \ {scan.fan} ELSE manual
       /\ gRc' \in BOOLEAN
       /\ misled' = (misled \/ ~ok)
  /\ fanKeys' = [f \in DOMAIN fanKeys \union {scan.fan} |-> IF f = scan.fan THEN TachKey ELSE fanKeys[f]]
  /\ fanNum' = fanNum + 1
  /\ scan' = NextSlot
  /\ UNCHANGED <<laptop, fansStatus, kindKeys, write, read, level>>

\* A sensor that answers and tells a known type gets the key of its type.
FindSensors(answering) ==
  /\ scan.at = "temps"
  /\ kindKeys' = answering
  /\ scan' = [scan EXCEPT !.at = "done"]
  /\ UNCHANGED <<laptop, fanKeys, fanNum, fansStatus, write, read, gRc, manual, level, misled>>

-----------------------------------------------------------------------------
(* Writing a key.                                                           *)

\* "F<n>As": the speed is masked to two bits, which leaves one that is too high;
\* i8k_set_fan takes it for the highest.
WriteSpeed(fan, speed) ==
  /\ write.at = "idle" /\ fan \in DOMAIN fanKeys
  /\ write' = [at |-> "set", fan |-> fan, speed |-> speed]
  /\ UNCHANGED <<laptop, scan, fanKeys, fanNum, fansStatus, kindKeys, read, gRc, manual, level, misled>>

SetFan ==
  /\ write.at = "set"
  /\ \E ok \in Outcomes(write.fan) :
       /\ level' = IF ok THEN [level EXCEPT ![write.fan] = Min({write.speed, I8K_FAN_MAX})] ELSE level
       /\ gRc' \in Left(ok)
  /\ write' = [write EXCEPT !.at = "was set"]
  /\ UNCHANGED <<laptop, scan, fanKeys, fanNum, fansStatus, kindKeys, read, manual, misled>>

\* The status of the fan is asked for when the call is taken to have worked.
\* After a failed call the register still holds the number of the function.
NoStatus == -1
AskStatus ==
  /\ write.at = "was set" /\ gRc
  /\ \E ok \in Outcomes(write.fan) :
       /\ write' = [at |-> "status", fan |-> write.fan, speed |-> write.speed,
                    eax |-> IF ok THEN level[write.fan] ELSE NoStatus]
       /\ gRc' \in Left(ok)
  /\ UNCHANGED <<laptop, scan, fanKeys, fanNum, fansStatus, kindKeys, read, manual, level, misled>>

\* kIOReturnSuccess when the status is the speed that was asked for.
Confirms_Nearly(status, speed) == status <= speed
Confirms(status, speed) == status = speed

SpeedWritten ==
  /\ write.at = "status" \/ (write.at = "was set" /\ ~gRc)
  /\ write' = IF write.at = "status" /\ gRc /\ Confirms(write.eax, write.speed)
              THEN [at |-> "idle", fan |-> write.fan, speed |-> write.speed] ELSE NoWrite
  /\ UNCHANGED <<laptop, scan, fanKeys, fanNum, fansStatus, kindKeys, read, gRc, manual, level, misled>>

\* "F<n>Md" and "FS! ": todo are the fans whose bit differs from fansStatus,
\* goal is what fansStatus becomes if no call fails.  FS! knows the fans below
\* fanNum.
WriteControl(todo, goal) ==
  /\ write.at = "idle"
  /\ write' = [at |-> "control", todo |-> todo, goal |-> goal, rc |-> TRUE, ok |-> TRUE]
  /\ UNCHANGED <<laptop, scan, fanKeys, fanNum, fansStatus, kindKeys, read, gRc, manual, level, misled>>

Differing_Shy(goal) == {f \in 0..(fanNum - 2) : (f \in goal) # (f \in fansStatus)}
Differing(goal) == {f \in 0..(fanNum - 1) : (f \in goal) # (f \in fansStatus)}

WriteForce(bits) == ~Scanning /\ WriteControl(Differing(bits), bits)

WriteMode(fan, on) ==
  /\ fan \in DOMAIN fanKeys
  /\ WriteControl(IF on = (fan \in fansStatus) THEN {} ELSE {fan},
                  IF on THEN fansStatus \union {fan} ELSE fansStatus \ {fan})

\* i8k_set_fan_control_manual or _auto for the next fan ...
ControlFan ==
  /\ write.at = "control" /\ write.todo # {}
  /\ LET fan == Min(write.todo)
     IN  \E ok \in Outcomes(fan) :
           /\ manual' = CASE ~ok -> manual
                          [] ok /\ fan \in write.goal -> manual \union {fan}
                          [] OTHER -> manual \ {fan}
           /\ gRc' \in Left(ok)
           /\ write' = [write EXCEPT !.at = "controlled", !.todo = @ \ {fan}, !.ok = ok]
  /\ UNCHANGED <<laptop, scan, fanKeys, fanNum, fansStatus, kindKeys, read, level, misled>>

\* ... and its outcome, or that of a call another thread made since.
Controlled ==
  /\ write.at = "controlled"
  /\ write' = [write EXCEPT !.at = "control", !.rc = @ /\ gRc]
  /\ misled' = (misled \/ ~write.ok \/ ~gRc)
  /\ UNCHANGED <<laptop, scan, fanKeys, fanNum, fansStatus, kindKeys, read, gRc, manual, level>>

\* fansStatus is changed when every fan was.
NewStatus == IF write.rc THEN write.goal ELSE fansStatus

ControlWritten ==
  /\ write.at = "control" /\ write.todo = {}
  /\ fansStatus' = NewStatus
  /\ write' = NoWrite
  /\ UNCHANGED <<laptop, scan, fanKeys, fanNum, kindKeys, read, gRc, manual, level, misled>>

-----------------------------------------------------------------------------
(* Reading a key: one call, or two when a temperature is 0x99 at first.     *)

ReadKey(what) ==
  /\ read = "idle"
  /\ IF what = "temperature" THEN kindKeys # {} ELSE DOMAIN fanKeys # {}
  /\ read' = what
  /\ UNCHANGED <<laptop, scan, fanKeys, fanNum, fansStatus, kindKeys, write, gRc, manual, level, misled>>

\* Asleep for 100 ms in between.
AskValue ==
  /\ read \in {"fan", "temperature", "again"}
  /\ \E ok \in BOOLEAN : gRc' \in Left(ok)
  /\ \E busy \in BOOLEAN : read' = IF read = "temperature" /\ busy THEN "busy" ELSE "asked"
  /\ UNCHANGED <<laptop, scan, fanKeys, fanNum, fansStatus, kindKeys, write, manual, level, misled>>

Answer ==
  /\ read \in {"busy", "asked"}
  /\ read' = IF read = "busy" /\ gRc THEN "again" ELSE "idle"
  /\ UNCHANGED <<laptop, scan, fanKeys, fanNum, fansStatus, kindKeys, write, gRc, manual, level, misled>>

\* The firmware changes the speed of a fan it controls.
Firmware ==
  /\ \E f \in laptop.fans \ manual, l \in 0..I8K_FAN_MAX : level' = [level EXCEPT ![f] = l]
  /\ UNCHANGED <<laptop, scan, fanKeys, fanNum, fansStatus, kindKeys, write, read, gRc, manual, misled>>

-----------------------------------------------------------------------------
\* The firmware may have left fans under manual control, at any speed.  probe
\* wants a Dell's signature.
SmiInit ==
  /\ laptop \in Laptops
  /\ scan = IF laptop.fans = {} THEN [at |-> "done", fan |-> 0] ELSE [at |-> "ask", fan |-> 0]
  /\ fanKeys = <<>> /\ fanNum = 0 /\ fansStatus = {} /\ kindKeys = {}
  /\ write = NoWrite /\ read = "idle" /\ gRc = TRUE
  /\ manual \in {{}, laptop.fans} /\ level = [f \in laptop.fans |-> 0]
  /\ misled = FALSE

SmiStart == AskFan \/ SkipFan \/ FoundFan \/ \E answering \in SUBSET laptop.sensors : FindSensors(answering)

SmiWrite ==
  \/ \E fan \in FanSlots, speed \in 0..(I8K_FAN_MAX + 1) : WriteSpeed(fan, speed)
  \/ \E bits \in SUBSET FanSlots : fanNum > 0 /\ WriteForce(bits)
  \/ \E fan \in FanSlots, on \in BOOLEAN : WriteMode(fan, on)

SmiGoOn == SetFan \/ AskStatus \/ SpeedWritten \/ ControlFan \/ Controlled \/ ControlWritten

SmiRead == AskValue \/ Answer \/ \E what \in laptop.reads : ReadKey(what)

SmiNext == SmiStart \/ SmiWrite \/ SmiGoOn \/ SmiRead \/ Firmware

SmiSpec == SmiInit /\ [][SmiNext]_smiVars

-----------------------------------------------------------------------------
SmiTypeOK ==
  /\ laptop \in Laptops
  /\ scan \in [at : {"ask", "asked", "temps", "done"}, fan : FanSlots]
  /\ DOMAIN fanKeys \subseteq FanSlots /\ \A f \in DOMAIN fanKeys : fanKeys[f] \in Nat
  /\ fanNum = Cardinality(DOMAIN fanKeys) /\ fansStatus \subseteq FanSlots
  /\ kindKeys \subseteq laptop.sensors
  /\ write.at \in {"idle", "set", "was set", "status", "control", "controlled"}
  /\ read \in {"idle", "fan", "temperature", "again", "busy", "asked"}
  /\ gRc \in BOOLEAN /\ misled \in BOOLEAN
  /\ manual \subseteq laptop.fans /\ level \in [laptop.fans -> 0..I8K_FAN_MAX]

\* A write of "F<n>As" that is answered with success has set the speed of a fan
\* the firmware has let go, although any call may fail, a processor may overwrite
\* gRc, and another thread's call may come between a call and the look at its
\* outcome.
SuccessMeansSet ==
  (write.at = "idle" /\ write # NoWrite /\ write.fan \in manual) => level[write.fan] = write.speed

\* As long as no control call failed or seemed to, the fans the driver counts
\* are under the control fansStatus tells: after a start that found them so or
\* not, and whatever mix of "FS! " and "F<n>Md" was written.  (After a failure
\* nothing brings the two together again.)
StatusIsTrue ==
  (~Scanning /\ ~misled /\ write.at = "idle" /\ DOMAIN fanKeys = 0..(fanNum - 1)) =>
    fansStatus \intersect DOMAIN fanKeys = manual \intersect DOMAIN fanKeys

\* Neither the answer to a write nor the status word says of a fan what the
\* firmware does not do.
ControlIsTrue == SuccessMeansSet /\ StatusIsTrue
=============================================================================
