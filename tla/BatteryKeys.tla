----------------------------- MODULE BatteryKeys -----------------------------
(***************************************************************************)
(* VoodooBattery: which batteries, adapters and lid probe finds, how start *)
(* attaches a power source to each battery and registers keys, what it     *)
(* answers for the keys, and what it publishes of power in the sources     *)
(* (AppleSmartBattery), which the system reads, at the same time.          *)
(*                                                                         *)
(* Calls follow one another here; their interleavings and the poller's     *)
(* timeouts are in VoodooBattery, capacities in BatteryLevels.  What ACPI  *)
(* answers, of a battery, an adapter or the lid, is any value its firmware *)
(* knows, each time.  Left out are allocations that fail and the flags of  *)
(* the legacy dictionary other than that a battery is installed.           *)
(***************************************************************************)
EXTENDS Naturals

CONSTANTS
  Notebooks,              (* machines: what is in ACPI, [batteries,         *)
                          (* adapters, lid], and what their _BST says       *)
  MaxBatteriesSupported,  (* 4 in the code                                  *)
  AdaptersSupported,      (* 2                                              *)
  StartChecks             (* 5 calls of CheckDevices in start               *)

ASSUME NotebooksAssumption ==
  /\ {MaxBatteriesSupported, AdaptersSupported, StartChecks} \subseteq Nat \ {0}
  /\ \A n \in Notebooks : n.batteries \in Nat /\ n.adapters \in Nat /\ n.lid \in BOOLEAN
                          /\ n.says \subseteq {"unanswered", "empty", "full", "discharging", "charging", "bogus"}

VARIABLES
  notebook,
  batteryStage,   (* where start and stop are                               *)
  checksLeft,     (* CheckDevices calls start has still to make             *)
  driverHas,      (* what the driver keeps: connected, calculated and State *)
                  (* (full) of each battery; external, inserted, firstTime  *)
  powerSource,    (* of each battery, published: installed, external, and   *)
                  (* installed in the legacy dictionary                     *)
  batteryKeys,    (* those the driver serves                                *)
  keyAnswer       (* of the key just read: [key, value, first]              *)

batteryKeyVars == <<notebook, batteryStage, checksLeft, driverHas, powerSource, batteryKeys, keyAnswer>>

AtMost(n, limit) == IF n < limit THEN n ELSE limit
Bays == 0..(AtMost(notebook.batteries, MaxBatteriesSupported) - 1)
AdapterBays == 0..(AtMost(notebook.adapters, AdaptersSupported) - 1)

PerBattery == {"voltage", "amperage", "status", "capacity"}   \* B0AV, B0AC, B0St, B0RM
NotOfOne == {"BATP", "BNum", "BBIN", "CHLC", "AC-N", "AC-W", "ACIC"}
NoKeyAnswer == [key |-> <<"none">>, value |-> 0, first |-> FALSE]

\* What _BST may say: no answer at all, an answer that is empty, or a state; what
\* _BIX and _BIF between them may.
StatusReplies == notebook.says
InfoReplies == {"published"} \union (notebook.says \intersect {"unanswered", "empty"})

\* What the driver and the sources hold, as one value that its functions pass on.
Held == [has |-> driverHas, source |-> powerSource]
Hold(now) == driverHas' = now.has /\ powerSource' = now.source

-----------------------------------------------------------------------------
(* AppleSmartBattery *)

rebuildLegacyIOBatteryInfo(s) == [s EXCEPT !.legacy = s.installed]

BlankOutBattery(s) == rebuildLegacyIOBatteryInfo([s EXCEPT !.installed = FALSE])

\* Says that there is external power, whether there is or not.
PublishBatteryInfo(s) == [s EXCEPT !.installed = TRUE, !.external = TRUE]

-----------------------------------------------------------------------------
(* The driver's functions *)

StatusOf(now, b, reply) ==
  CASE reply = "unanswered" -> now
    [] reply = "empty" -> [now EXCEPT !.has.connected[b] = FALSE]
    [] OTHER ->
         [has |-> [now.has EXCEPT !.full[b] = reply = "full",
                                   !.calculated[b] = IF reply = "bogus" THEN @ ELSE reply # "discharging"],
          source |-> [now.source EXCEPT ![b] = rebuildLegacyIOBatteryInfo([@ EXCEPT !.installed = TRUE])]]

\* A battery that was found to be in is asked for its status and for what it is; one
\* that is out is blanked out.
InformationOf(now, b, reply, info) ==
  IF now.has.connected[b]
  THEN LET asked == StatusOf(now, b, reply)
       IN CASE info = "unanswered" -> asked
            [] info = "empty" -> [asked EXCEPT !.has.connected[b] = FALSE]
            [] OTHER -> [asked EXCEPT !.source[b] = PublishBatteryInfo(@)]
  ELSE [now EXCEPT !.source[b] = BlankOutBattery(@), !.has.calculated[b] = FALSE]

ExternalPower_WhenInserted(now) ==
  [now EXCEPT !.source = [b \in Bays |-> IF now.has.connected[b] THEN [@[b] EXCEPT !.external = now.has.external]
                                                                   ELSE @[b]]]
ExternalPower(now) ==
  [now EXCEPT !.source = [b \in Bays |-> [@[b] EXCEPT !.external = now.has.external]]]

\* What is held after something was done to each battery, given what each of these
\* each leaves: none looks at another's.
Joined(now, each) ==
  [has |-> [now.has EXCEPT !.connected = [b \in Bays |-> each[b].has.connected[b]],
                            !.calculated = [b \in Bays |-> each[b].has.calculated[b]],
                            !.full = [b \in Bays |-> each[b].has.full[b]]],
   source |-> [b \in Bays |-> each[b].source[b]]]

InformAll(now, bs, reply, info) ==
  Joined(now, [b \in Bays |-> IF b \in bs THEN InformationOf(now, b, reply[b], info[b]) ELSE now])

\* Update: the batteries that are in; without an adapter they tell whether there is
\* external power, and power that was there stays.
Updated(now, reply, info) ==
  LET polled == InformAll(now, {b \in Bays : now.has.connected[b]}, reply, info)
  IN IF AdapterBays # {} THEN polled
     ELSE ExternalPower([polled EXCEPT !.has.external = @ \/ \E b \in Bays : polled.has.calculated[b]])

\* CheckDevices: sta says of the batteries whose _STA answers whether they are in,
\* psr which adapters answer that they have power.
Checked(now, sta, psr, reply, info) ==
  LET found == [now EXCEPT !.has.connected = [b \in Bays |-> IF b \in DOMAIN sta THEN sta[b] ELSE @[b]]]
      changed == {b \in DOMAIN sta : sta[b] # now.has.connected[b]}
      asked == InformAll(found, changed, reply, info)
      anyIn == \E b \in DOMAIN sta : asked.has.connected[b]
      told == [asked EXCEPT !.has.inserted = anyIn, !.has.external = psr # {}]
  IN ExternalPower(IF anyIn THEN Updated(told, reply, info) ELSE [told EXCEPT !.has.external = TRUE])

CheckDevices ==
  \E answering \in SUBSET Bays, psr \in SUBSET AdapterBays, reply \in [Bays -> StatusReplies], info \in [Bays -> InfoReplies] :
    \E sta \in [answering -> BOOLEAN] : Hold(Checked(Held, sta, psr, reply, info))

-----------------------------------------------------------------------------
(* probe, start and stop *)

BatteryKeysInit ==
  /\ notebook \in Notebooks
  /\ batteryStage = "matched"
  /\ checksLeft = 0
  /\ driverHas = [connected |-> [b \in Bays |-> FALSE], full |-> [b \in Bays |-> TRUE],
                  calculated |-> [b \in Bays |-> FALSE],
                  external |-> FALSE, inserted |-> FALSE, firstTime |-> TRUE]
  /\ powerSource = [b \in Bays |-> [installed |-> FALSE, external |-> FALSE, legacy |-> FALSE]]
  /\ batteryKeys = {}
  /\ keyAnswer = NoKeyAnswer

\* Without a battery probe gives up; start does if a source cannot be attached.
ProbeAndAttach ==
  /\ batteryStage = "matched"
  /\ \E attached \in BOOLEAN :
       batteryStage' = IF Bays = {} THEN "unloaded" ELSE IF attached THEN "checking" ELSE "failed"
  /\ checksLeft' = IF batteryStage' = "checking" THEN StartChecks ELSE 0
  /\ UNCHANGED <<notebook, driverHas, powerSource, batteryKeys, keyAnswer>>

StartCheck ==
  /\ batteryStage = "checking" /\ checksLeft > 0
  /\ CheckDevices
  /\ checksLeft' = checksLeft - 1
  /\ UNCHANGED <<notebook, batteryStage, batteryKeys, keyAnswer>>

\* Batteries that are in now get keys; MSLD may be another plug-in's already.
KeysOf(bs) == PerBattery \X bs
AddBatteryKeys ==
  /\ batteryStage = "checking" /\ checksLeft = 0
  /\ batteryStage' = "serving"
  /\ \E lidKey \in SUBSET (IF notebook.lid THEN {<<"MSLD">>} ELSE {}) :
       batteryKeys' = KeysOf({b \in Bays : driverHas.connected[b]}) \union {<<k>> : k \in NotOfOne} \union lidKey
  /\ UNCHANGED <<notebook, checksLeft, driverHas, powerSource, keyAnswer>>

\* stop calls a button controller that nothing has made.
StopBattery ==
  /\ batteryStage = "serving"
  /\ batteryStage' = "panicked"
  /\ UNCHANGED <<notebook, checksLeft, driverHas, powerSource, batteryKeys, keyAnswer>>

\* A battery, through its power source, or waking up: CheckDevices, also during start.
DeviceNotification ==
  /\ batteryStage \in {"checking", "serving"}
  /\ CheckDevices
  /\ UNCHANGED <<notebook, batteryStage, checksLeft, batteryKeys, keyAnswer>>

PollBatteries ==
  /\ batteryStage \in {"checking", "serving"}
  /\ \E reply \in [Bays -> StatusReplies], info \in [Bays -> InfoReplies] : Hold(Updated(Held, reply, info))
  /\ UNCHANGED <<notebook, batteryStage, checksLeft, batteryKeys, keyAnswer>>

-----------------------------------------------------------------------------
(* callPlatformFunction *)

\* A battery's own keys ask for its information or its status, in or out.
ReadOfBattery ==
  \E key \in batteryKeys \intersect KeysOf(Bays), reply \in StatusReplies, info \in InfoReplies :
    /\ Hold(IF key[1] \in {"voltage", "amperage"} THEN InformationOf(Held, key[2], reply, info)
                                                  ELSE StatusOf(Held, key[2], reply))
    /\ UNCHANGED keyAnswer

\* CHLC asks the batteries that are in, up to the first that is full.
ReadChargeCode ==
  \E reply \in [Bays -> StatusReplies] :
    LET full == {b \in Bays : driverHas.connected[b] /\ StatusOf(Held, b, reply[b]).has.full[b]}
        asked == {b \in Bays : driverHas.connected[b] /\ \A f \in full : b <= f}
    IN /\ <<"CHLC">> \in batteryKeys
       /\ Hold(Joined(Held, [b \in Bays |-> IF b \in asked THEN StatusOf(Held, b, reply[b]) ELSE Held]))
       /\ keyAnswer' = [key |-> <<"CHLC">>, value |-> IF full # {} THEN 2 ELSE 1, first |-> FALSE]

\* BATP says "on battery" the first time, whatever there is.
PlainValue(key) ==
  CASE key = "BATP" -> {IF driverHas.firstTime \/ ~driverHas.external THEN 1 ELSE 0}
    [] key = "BNum" -> {AtMost(notebook.batteries, MaxBatteriesSupported)}
    [] key = "BBIN" -> {IF driverHas.inserted THEN 1 ELSE 0}
    [] key = "AC-N" -> {AtMost(notebook.adapters, AdaptersSupported)}
    [] key = "AC-W" -> {1}
    [] key = "ACIC" -> {32}
    [] key = "MSLD" -> {0, 1}

ReadPlain ==
  \E key \in (NotOfOne \union {"MSLD"}) \ {"CHLC"} : \E value \in PlainValue(key) :
    /\ <<key>> \in batteryKeys
    /\ keyAnswer' = [key |-> <<key>>, value |-> value, first |-> key = "BATP" /\ driverHas.firstTime]
    /\ driverHas' = IF key = "BATP" THEN [driverHas EXCEPT !.firstTime = FALSE] ELSE driverHas
    /\ UNCHANGED powerSource

ReadBatteryKey ==
  /\ batteryStage = "serving"
  /\ ReadOfBattery \/ ReadChargeCode \/ ReadPlain
  /\ UNCHANGED <<notebook, batteryStage, checksLeft, batteryKeys>>

\* The caller has its answer.
Delivered == keyAnswer' = NoKeyAnswer /\ UNCHANGED <<notebook, batteryStage, checksLeft, driverHas, powerSource, batteryKeys>>

BatteryKeysNext ==
  \/ /\ keyAnswer = NoKeyAnswer
     /\ \/ ProbeAndAttach \/ StartCheck \/ AddBatteryKeys \/ StopBattery
        \/ DeviceNotification \/ PollBatteries \/ ReadBatteryKey
  \/ keyAnswer # NoKeyAnswer /\ Delivered

BatteryKeysSpec == BatteryKeysInit /\ [][BatteryKeysNext]_batteryKeyVars

-----------------------------------------------------------------------------
BatteryKeysTypeOK ==
  /\ notebook \in Notebooks
  /\ batteryStage \in {"matched", "unloaded", "failed", "checking", "serving", "panicked"}
  /\ checksLeft \in 0..StartChecks
  /\ \A f \in {"connected", "calculated", "full"} : driverHas[f] \in [Bays -> BOOLEAN]
  /\ {driverHas.external, driverHas.inserted, driverHas.firstTime} \subseteq BOOLEAN
  /\ powerSource \in [Bays -> [{"installed", "external", "legacy"} -> BOOLEAN]]
  /\ batteryKeys \subseteq KeysOf(Bays) \union {<<k>> : k \in NotOfOne \union {"MSLD"}}

\* The four places that tell of power and batteries agree, through start, polls,
\* notifications and keys that are read, and whatever ACPI answers or fails to.  With
\* external power every source says so, and so does BATP after its first answer; when
\* BBIN counts no battery, power is assumed; and the legacy dictionary tells of no
\* battery that its source does not.  Not so the other way round: a source may tell of
\* external power there is none of (PublishBatteryInfo), and a battery whose _STA does
\* not answer is in and not counted.
PowerIsAgreed ==
  /\ driverHas.external => \A b \in Bays : powerSource[b].external
  /\ \A b \in Bays : powerSource[b].legacy => powerSource[b].installed
  /\ batteryStage = "serving" /\ ~driverHas.inserted => driverHas.external
  /\ keyAnswer.key = <<"BATP">> /\ ~keyAnswer.first =>
       (keyAnswer.value = 0 <=> driverHas.external)
=============================================================================
