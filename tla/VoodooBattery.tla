---------------------------- MODULE VoodooBattery ----------------------------
(***************************************************************************)
(* VoodooBattery: which power source the machine is on, and when batteries *)
(* are polled.  CheckDevices runs on the thread of start, of an ACPI       *)
(* notification or of power management, Update on the poller's and inside  *)
(* CheckDevices, and BatteryInformation and BatteryStatus inside both and  *)
(* on the thread of whoever reads a battery key.  Nothing is locked: each  *)
(* access to a shared flag is a step, and x |= y is a load and a store.    *)
(*                                                                         *)
(* What ACPI answers is any value it can answer, at every evaluation.      *)
(* Capacities, rates and the interval of the poller (QuickPoll) decide     *)
(* nothing here and are left out.                                          *)
(***************************************************************************)
EXTENDS Naturals

CONSTANTS
  BatteryCount,            (* batteries there are                           *)
  MaxAcAdaptersSupported,  (* probe finds no more adapters                  *)
  Handlers,                (* threads that call CheckDevices                *)
  Starter,                 (* the one of start, which makes the first call  *)
  Readers,                 (* threads that read keys                        *)
  Poller                   (* the thread of the timer                       *)

ASSUME BatteryAssumption ==
  /\ BatteryCount \in Nat \ {0}
  /\ MaxAcAdaptersSupported \in Nat
  /\ Starter \in Handlers
  /\ Poller \notin Handlers \cup Readers

VARIABLES
  AcAdapterCount,   (* what probe found; it does not change                 *)
  BatteryConnected,
  CalculatedAcAdapterConnected,
  ExternalPowerConnected,
  BatteriesConnected,
  BatteriesAreFull,
  armed,     (* the poller has a timeout                                    *)
  told,      (* AC state last passed to the root domain                     *)
  flushed,   (* property changes of a power source were followed by         *)
             (* updateStatus                                                *)
  frame,     (* where each thread is                                        *)
  raced      (* history: since the last call of CheckDevices began, two     *)
             (* threads that change ExternalPowerConnected ran at once      *)

batteries == <<BatteryConnected, CalculatedAcAdapterConnected, flushed>>
flags == <<ExternalPowerConnected, BatteriesConnected, BatteriesAreFull>>
vars == <<AcAdapterCount, batteries, flags, armed, told, frame, raced>>

Batteries == 1..BatteryCount
Threads == Handlers \cup Readers \cup {Poller}

\* Update changes ExternalPowerConnected on a machine without adapters only.
PowerWriters == Handlers \cup (IF AcAdapterCount = 0 THEN {Poller} ELSE {})

\* A thread that is in none of the functions.
Idle == [at |-> "idle", dev |-> 0, caller |-> "none", reg |-> FALSE]

\* A key that was read asks for BatteryInformation, or for BatteryStatus alone.
KeyCallers == {"information key", "status key"}

At(t, stage) == frame[t].at = stage

\* None of the threads is in CheckDevices or in the poller's Update.
Quiet(T) == \A t \in T : At(t, "idle") \/ frame[t].caller \in KeyCallers

\* The thread goes on to a stage; with the first device of a loop; with a value
\* loaded in a register.
To(t, stage) == frame' = [frame EXCEPT ![t].at = stage]
Loop(t, stage) == frame' = [frame EXCEPT ![t].at = stage, ![t].dev = 1]
With(t, stage, v) == frame' = [frame EXCEPT ![t].at = stage, ![t].reg = v]
Leave(t) == frame' = [frame EXCEPT ![t] = Idle]

IsLast(d, count) == d = count

\* i++ of a loop over count devices, and the stage after the loop.
Continue(t, count, stage, after) ==
  LET d == frame[t].dev IN
  frame' = [frame EXCEPT ![t] = IF IsLast(d, count)
                                THEN [Idle EXCEPT !.at = after]
                                ELSE [Idle EXCEPT !.at = stage, !.dev = d + 1]]

-----------------------------------------------------------------------------
(* CheckDevices *)

CancelTimeout(t) ==
  /\ At(t, "cancel")
  /\ armed' = FALSE
  /\ To(t, "forget")
  /\ UNCHANGED <<batteries, flags, told, raced>>

ForgetBatteries(t) ==
  /\ At(t, "forget")
  /\ BatteriesConnected' = FALSE
  /\ Loop(t, "status of device")
  /\ UNCHANGED <<batteries, ExternalPowerConnected, BatteriesAreFull, armed, told, raced>>

\* _STA of a battery; no answer leaves everything about the battery as it is.
CheckBattery(t) ==
  /\ At(t, "status of device")
  /\ \/ Continue(t, BatteryCount, "status of device", "no power") /\ UNCHANGED BatteryConnected
     \/ \E present \in BOOLEAN :
          /\ BatteryConnected' = [BatteryConnected EXCEPT ![frame[t].dev] = present]
          /\ IF present = BatteryConnected[frame[t].dev]
             THEN To(t, "join")
             ELSE frame' = [frame EXCEPT ![t].at = "information", ![t].caller = "check"]
  /\ UNCHANGED <<CalculatedAcAdapterConnected, flushed, flags, armed, told, raced>>

LoadBatteries(t) ==
  /\ At(t, "join")
  /\ With(t, "joined", BatteriesConnected \/ BatteryConnected[frame[t].dev])
  /\ UNCHANGED <<batteries, flags, armed, told, raced>>

StoreBatteries(t) ==
  /\ At(t, "joined")
  /\ BatteriesConnected' = frame[t].reg
  /\ Continue(t, BatteryCount, "status of device", "no power")
  /\ UNCHANGED <<batteries, ExternalPowerConnected, BatteriesAreFull, armed, told, raced>>

ForgetPower(t) ==
  /\ At(t, "no power")
  /\ ExternalPowerConnected' = FALSE
  /\ IF AcAdapterCount = 0 THEN To(t, "branch") ELSE Loop(t, "power source")
  /\ UNCHANGED <<batteries, BatteriesConnected, BatteriesAreFull, armed, told, raced>>

\* _PSR of an adapter; no answer leaves the flag.
CheckAdapter(t) ==
  /\ At(t, "power source")
  /\ \/ Continue(t, AcAdapterCount, "power source", "branch")
     \/ \E online \in BOOLEAN : With(t, "powered", ExternalPowerConnected \/ online)
  /\ UNCHANGED <<batteries, flags, armed, told, raced>>

StorePower(t) ==
  /\ At(t, "powered")
  /\ ExternalPowerConnected' = frame[t].reg
  /\ Continue(t, AcAdapterCount, "power source", "branch")
  /\ UNCHANGED <<batteries, BatteriesConnected, BatteriesAreFull, armed, told, raced>>

WithoutBatteries == "assume power"

Branch(t) ==
  /\ At(t, "branch")
  /\ To(t, IF BatteriesConnected THEN "decide" ELSE WithoutBatteries)
  /\ UNCHANGED <<batteries, flags, armed, told, raced>>

AssumePower_Returns(t) ==
  /\ At(t, "assume power")
  /\ ExternalPowerConnected' = TRUE
  /\ Leave(t)
  /\ UNCHANGED <<batteries, BatteriesConnected, BatteriesAreFull, armed, told, raced>>

AssumePower(t) ==
  /\ At(t, "assume power")
  /\ ExternalPowerConnected' = TRUE
  /\ To(t, "tell")
  /\ UNCHANGED <<batteries, BatteriesConnected, BatteriesAreFull, armed, told, raced>>

\* ExternalPower: setExternalConnected of every power source is not followed by
\* updateStatus.
ExternalPower(status) ==
  /\ told' = status
  /\ flushed' = [b \in Batteries |-> FALSE]

\* The argument is loaded before the call.
LoadPower(t) ==
  /\ At(t, "tell")
  /\ With(t, "telling", ExternalPowerConnected)
  /\ UNCHANGED <<batteries, flags, armed, told, raced>>

TellPower(t) ==
  /\ At(t, "telling")
  /\ ExternalPower(frame[t].reg)
  /\ Leave(t)
  /\ UNCHANGED <<BatteryConnected, CalculatedAcAdapterConnected, flags, armed, raced>>

Check(t) ==
  \/ CancelTimeout(t) \/ ForgetBatteries(t) \/ CheckBattery(t)
  \/ LoadBatteries(t) \/ StoreBatteries(t)
  \/ ForgetPower(t) \/ CheckAdapter(t) \/ StorePower(t)
  \/ Branch(t) \/ AssumePower(t) \/ LoadPower(t) \/ TellPower(t)

-----------------------------------------------------------------------------
(* Update *)

\* ExternalPowerConnected && BatteriesAreFull, read one after the other.
WhenPowered_Always(power) == "decide full"
WhenPowered(power) == IF power THEN "decide full" ELSE "arm"

DecidePower(t) ==
  /\ At(t, "decide")
  /\ To(t, WhenPowered(ExternalPowerConnected))
  /\ UNCHANGED <<batteries, flags, armed, told, raced>>

DecideFull(t) ==
  /\ At(t, "decide full")
  /\ To(t, IF BatteriesAreFull THEN "full" ELSE "arm")
  /\ UNCHANGED <<batteries, flags, armed, told, raced>>

SetTimeout(t) ==
  /\ At(t, "arm")
  /\ armed' = TRUE
  /\ To(t, "full")
  /\ UNCHANGED <<batteries, flags, told, raced>>

AssumeFull(t) ==
  /\ At(t, "full")
  /\ BatteriesAreFull' = TRUE
  /\ Loop(t, "poll")
  /\ UNCHANGED <<batteries, ExternalPowerConnected, BatteriesConnected, armed, told, raced>>

\* What follows the loop of Update on this thread.
AfterUpdate(t) ==
  IF AcAdapterCount = 0 THEN "tell deduced" ELSE IF t \in Handlers THEN "tell" ELSE "idle"

\* The next battery of Update, once this one's information is there.
NextBattery(t) ==
  IF AcAdapterCount = 0 THEN To(t, "deduce")
                        ELSE Continue(t, BatteryCount, "poll", AfterUpdate(t))

PollBattery(t) ==
  /\ At(t, "poll")
  /\ IF BatteryConnected[frame[t].dev]
     THEN frame' = [frame EXCEPT ![t].at = "information", ![t].caller = "update"]
     ELSE NextBattery(t)
  /\ UNCHANGED <<batteries, flags, armed, told, raced>>

LoadDeduced(t) ==
  /\ At(t, "deduce")
  /\ With(t, "deduced",
          ExternalPowerConnected \/ CalculatedAcAdapterConnected[frame[t].dev])
  /\ UNCHANGED <<batteries, flags, armed, told, raced>>

StoreDeduced(t) ==
  /\ At(t, "deduced")
  /\ ExternalPowerConnected' = frame[t].reg
  /\ Continue(t, BatteryCount, "poll", AfterUpdate(t))
  /\ UNCHANGED <<batteries, BatteriesConnected, BatteriesAreFull, armed, told, raced>>

LoadDeducedPower(t) ==
  /\ At(t, "tell deduced")
  /\ With(t, "telling deduced", ExternalPowerConnected)
  /\ UNCHANGED <<batteries, flags, armed, told, raced>>

TellDeduced(t) ==
  /\ At(t, "telling deduced")
  /\ ExternalPower(frame[t].reg)
  /\ IF t \in Handlers THEN To(t, "tell") ELSE Leave(t)
  /\ UNCHANGED <<BatteryConnected, CalculatedAcAdapterConnected, flags, armed, raced>>

Update(t) ==
  \/ DecidePower(t) \/ DecideFull(t) \/ SetTimeout(t) \/ AssumeFull(t)
  \/ PollBattery(t) \/ LoadDeduced(t) \/ StoreDeduced(t)
  \/ LoadDeducedPower(t) \/ TellDeduced(t)

-----------------------------------------------------------------------------
(* BatteryInformation and BatteryStatus *)

\* Return to CheckDevices, to Update or to callPlatformFunction.
Return(t) ==
  \/ frame[t].caller = "check" /\ To(t, "join")
  \/ frame[t].caller = "update" /\ NextBattery(t)
  \/ frame[t].caller = "information key" /\ Leave(t)

\* A battery that is gone is blanked out and deduces no adapter.
Information(t) ==
  /\ At(t, "information")
  /\ \/ /\ BatteryConnected[frame[t].dev]
        /\ To(t, "status")
        /\ UNCHANGED <<CalculatedAcAdapterConnected, flushed>>
     \/ /\ ~BatteryConnected[frame[t].dev]
        /\ CalculatedAcAdapterConnected' =
             [CalculatedAcAdapterConnected EXCEPT ![frame[t].dev] = FALSE]
        /\ flushed' = [flushed EXCEPT ![frame[t].dev] = TRUE]
        /\ Return(t)
  /\ UNCHANGED <<BatteryConnected, flags, armed, told, raced>>

\* What BatteryStatus makes of the state in _BST.
Charge == {"full", "discharging", "charging", "bogus"}

Deduces(charge, old) ==
  CASE charge \in {"full", "charging"} -> TRUE
    [] charge = "discharging" -> FALSE
    [] OTHER -> old

\* _BST answers a state, no object, or nothing.
Status(t) ==
  LET b == frame[t].dev IN
  /\ At(t, "status")
  /\ \/ \E charge \in Charge :
          /\ CalculatedAcAdapterConnected' =
               [CalculatedAcAdapterConnected EXCEPT ![b] = Deduces(charge, @)]
          /\ BatteriesAreFull' = (BatteriesAreFull /\ charge = "full")
          /\ flushed' = [flushed EXCEPT ![b] = TRUE]
          /\ UNCHANGED BatteryConnected
     \/ /\ flushed' = [flushed EXCEPT ![b] = FALSE]
        /\ BatteryConnected' \in {BatteryConnected, [BatteryConnected EXCEPT ![b] = FALSE]}
        /\ UNCHANGED <<CalculatedAcAdapterConnected, BatteriesAreFull>>
  /\ IF frame[t].caller = "status key" THEN Leave(t) ELSE To(t, "publish")
  /\ UNCHANGED <<ExternalPowerConnected, BatteriesConnected, armed, told, raced>>

\* _BIX, else _BIF: without an object the battery is taken for disconnected.
\* Every path ends in updateStatus.
Publish(t) ==
  /\ At(t, "publish")
  /\ BatteryConnected' \in {BatteryConnected, [BatteryConnected EXCEPT ![frame[t].dev] = FALSE]}
  /\ flushed' = [flushed EXCEPT ![frame[t].dev] = TRUE]
  /\ Return(t)
  /\ UNCHANGED <<CalculatedAcAdapterConnected, flags, armed, told, raced>>

BatteryInformation(t) == Information(t) \/ Status(t) \/ Publish(t)

-----------------------------------------------------------------------------
BatteryInit ==
  /\ AcAdapterCount \in 0..MaxAcAdaptersSupported
  /\ BatteryConnected = [b \in Batteries |-> FALSE]
  /\ CalculatedAcAdapterConnected = [b \in Batteries |-> FALSE]
  /\ flushed = [b \in Batteries |-> TRUE]
  /\ ExternalPowerConnected = FALSE
  /\ BatteriesConnected = FALSE
  /\ BatteriesAreFull = FALSE
  /\ armed = FALSE
  /\ told = FALSE
  /\ frame = [t \in Threads |-> IF t = Starter THEN [Idle EXCEPT !.at = "cancel"] ELSE Idle]
  /\ raced = FALSE

\* start, message or setPowerState(1) calls CheckDevices.
Event(t) ==
  /\ At(t, "idle")
  /\ To(t, "cancel")
  /\ raced' = ~Quiet(PowerWriters)
  /\ UNCHANGED <<batteries, flags, armed, told>>

Fire ==
  /\ armed
  /\ At(Poller, "idle")
  /\ armed' = FALSE
  /\ To(Poller, "decide")
  /\ raced' = (raced \/ (Poller \in PowerWriters /\ ~Quiet(Handlers)))
  /\ UNCHANGED <<batteries, flags, told>>

\* A key is read: voltage and current ask for BatteryInformation, status,
\* remaining capacity, BRSC and CHLC for BatteryStatus.
ReadKey(t) ==
  /\ At(t, "idle")
  /\ \E b \in Batteries :
       frame' \in {[frame EXCEPT ![t] = [Idle EXCEPT !.at = s[1], !.dev = b, !.caller = s[2]]] :
                     s \in {<<"information", "information key">>, <<"status", "status key">>}}
  /\ UNCHANGED <<batteries, flags, armed, told, raced>>

Run(t) == Check(t) \/ Update(t) \/ BatteryInformation(t)

BatteryNext ==
  /\ \/ \E t \in Threads : Run(t)
     \/ \E t \in Handlers : Event(t)
     \/ \E t \in Readers : ReadKey(t)
     \/ Fire
  /\ UNCHANGED AcAdapterCount

BatterySpec == BatteryInit /\ [][BatteryNext]_vars

\* Threads are scheduled, ACPI evaluations return, and a timeout that is set and
\* not cancelled expires.
FairBatterySpec ==
  /\ BatterySpec
  /\ \A t \in Handlers \cup {Poller} : WF_vars(Run(t) /\ UNCHANGED AcAdapterCount)
  /\ WF_vars(Fire /\ UNCHANGED AcAdapterCount)

-----------------------------------------------------------------------------
\* The functions that change flags and timeout are not running.
Settled == Quiet(Handlers \cup {Poller})

\* While the machine runs on its batteries they are polled: whatever notifications,
\* wake-ups, the poller itself and key reads did at the same time, the poller is
\* left with a timeout.  (Without an adapter to ask, unless a store of the deduced
\* power was lost.)
OnBatteryIsPolled ==
  (/\ Settled
   /\ BatteriesConnected /\ ~ExternalPowerConnected
   /\ AcAdapterCount > 0 \/ ~raced) => armed

\* The root domain is left with the power source the driver goes by, unless two
\* threads that decide on it met; polling of a machine with adapters and key reads
\* may run beside it.
PowerIsTold ==
  (Quiet(PowerWriters) /\ ~raced) => told = ExternalPowerConnected

\* "Subclasses must follow all property changes with a call to updateStatus() to
\* flush settings changes to upper level battery API clients."
ChangesAreFlushed == (\A t \in Threads : At(t, "idle")) => \A b \in Batteries : flushed[b]

\* On battery, if there is an adapter to tell, a connected battery's status is read
\* again and again by the driver itself, whatever else happens.
LevelIsRead ==
  \A b \in Batteries :
    <>[](/\ AcAdapterCount > 0 /\ ~ExternalPowerConnected
         /\ BatteriesConnected /\ BatteryConnected[b]) =>
      []<>(\E t \in Threads :
             At(t, "status") /\ frame[t].dev = b /\ frame[t].caller \notin KeyCallers)

=============================================================================
