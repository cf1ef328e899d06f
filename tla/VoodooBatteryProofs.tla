------------------------- MODULE VoodooBatteryProofs -------------------------
(***************************************************************************)
(* Proofs that VoodooBattery polls while the machine runs on batteries and *)
(* tells the root domain which source it runs on, for any number of        *)
(* batteries, adapters and threads.                                        *)
(***************************************************************************)
EXTENDS VoodooBattery, TLAPS

CheckStages == {"cancel", "forget", "status of device", "join", "joined", "no power",
                "power source", "powered", "branch", "assume power", "tell", "telling"}
DeducingStages == {"deduce", "deduced", "tell deduced", "telling deduced"}
UpdateStages == {"decide", "decide full", "arm", "full", "poll"} \cup DeducingStages
BatteryStages == {"information", "status", "publish"}

Stages == {"idle"} \cup CheckStages \cup UpdateStages \cup BatteryStages

Frame ==
  [at : Stages, dev : Nat, caller : {"none", "check", "update"} \cup KeyCallers,
   reg : BOOLEAN]

Flags ==
  /\ BatteryConnected \in [Batteries -> BOOLEAN]
  /\ CalculatedAcAdapterConnected \in [Batteries -> BOOLEAN]
  /\ flushed \in [Batteries -> BOOLEAN]
  /\ ExternalPowerConnected \in BOOLEAN /\ BatteriesConnected \in BOOLEAN
  /\ BatteriesAreFull \in BOOLEAN
  /\ armed \in BOOLEAN /\ told \in BOOLEAN /\ raced \in BOOLEAN

\* A thread is where it may be: CheckDevices runs on handlers, Update on the poller
\* as well, power is deduced without adapters only, and the device a loop has come
\* to exists.
Placed(t) ==
  LET f == frame[t]
  IN  /\ f.at \in CheckStages => t \in Handlers
      /\ f.at \in UpdateStages => t \in Handlers \cup {Poller}
      /\ f.at \in DeducingStages => AcAdapterCount = 0
      /\ f.at \in BatteryStages =>
           \/ f.caller = "check" /\ t \in Handlers
           \/ f.caller = "update" /\ t \in Handlers \cup {Poller}
           \/ f.caller = "information key"
           \/ f.caller = "status key" /\ f.at = "status"
      /\ f.caller \in KeyCallers => f.at \in BatteryStages
      /\ f.at \in {"status of device", "join", "joined", "poll", "deduce", "deduced"} \cup BatteryStages =>
           f.dev \in Batteries
      /\ f.at \in {"power source", "powered"} => f.dev \in 1..AcAdapterCount

BatteryTypeOK ==
  /\ AcAdapterCount \in Nat
  /\ Flags
  /\ frame \in [Threads -> Frame]
  /\ \A t \in Threads : Placed(t)

\* In CheckDevices or the poller's Update.
Busy(t) == ~At(t, "idle") /\ frame[t].caller \notin KeyCallers

\* On the way to the decision whether to poll, in its outcome that it must, or on
\* the way to assume power.
Deciding(t) ==
  \/ frame[t].at \in CheckStages \ {"tell", "telling"}
  \/ frame[t].at \in BatteryStages /\ frame[t].caller = "check"
  \/ frame[t].at \in {"decide", "arm"}

\* Off the adapter, the poller has a timeout or some thread will set one.
PollsOrDecides ==
  ((AcAdapterCount > 0 \/ ~raced) /\ ~ExternalPowerConnected) =>
    armed \/ \E t \in Handlers \cup {Poller} : Deciding(t)

\* Without a race one thread decides, what it loaded is still true when it uses
\* it, and as long as it runs it has yet to tell.
OneDecides == \A t, u \in PowerWriters : Busy(t) /\ Busy(u) => t = u

LoadsHold ==
  \A t \in PowerWriters :
    /\ At(t, "deduced") => (ExternalPowerConnected => frame[t].reg)
    /\ frame[t].at \in {"telling", "telling deduced"} => frame[t].reg = ExternalPowerConnected

ToldOrTells == told = ExternalPowerConnected \/ \E t \in PowerWriters : Busy(t)

Unraced == ~raced => OneDecides /\ LoadsHold /\ ToldOrTells

BatteryInv == BatteryTypeOK /\ PollsOrDecides /\ Unraced

-----------------------------------------------------------------------------
(* Steps of a thread *)

\* Thread t goes on to a frame and the others stay where they are.
Moves(t, stage, d, c, r) ==
  /\ frame' \in [Threads -> Frame]
  /\ frame'[t].at = stage /\ frame'[t].dev = d /\ frame'[t].caller = c /\ frame'[t].reg = r
  /\ \A u \in Threads \ {t} : frame'[u] = frame[u]

\* The frame of a stage, a device, a caller and a register.
FrameOf(stage, d, c, r) == [at |-> stage, dev |-> d, caller |-> c, reg |-> r]

(***************************************************************************)
(* The frame that is stored is where the thread is.                        *)
(***************************************************************************)
LEMMA FrameStored ==
  ASSUME frame \in [Threads -> Frame], NEW t \in Threads, NEW stage, NEW d, NEW c, NEW r,
         FrameOf(stage, d, c, r) \in Frame,
         frame' = [frame EXCEPT ![t] = FrameOf(stage, d, c, r)]
  PROVE  Moves(t, stage, d, c, r)
<1>1. \A g \in Frame : frame' = [frame EXCEPT ![t] = g] =>
        /\ frame' \in [Threads -> Frame]
        /\ frame'[t] = g
        /\ \A u \in Threads \ {t} : frame'[u] = frame[u]
  OBVIOUS
<1>2. /\ frame' \in [Threads -> Frame]
      /\ frame'[t] = FrameOf(stage, d, c, r)
      /\ \A u \in Threads \ {t} : frame'[u] = frame[u]
  BY <1>1
<1> QED BY <1>2 DEF Moves, FrameOf

(***************************************************************************)
(* What the ways to go on do to a frame.                                   *)
(***************************************************************************)
LEMMA FramesMove ==
  ASSUME frame \in [Threads -> Frame], NEW t \in Threads, NEW s \in Stages
  PROVE  LET f == frame[t] IN
         /\ To(t, s) => Moves(t, s, f.dev, f.caller, f.reg)
         /\ Loop(t, s) => Moves(t, s, 1, f.caller, f.reg)
         /\ \A v \in BOOLEAN : With(t, s, v) => Moves(t, s, f.dev, f.caller, v)
         /\ Leave(t) => Moves(t, "idle", 0, "none", FALSE)
         /\ \A n : \A after \in Stages : Continue(t, n, s, after) =>
              IF f.dev = n THEN Moves(t, after, 0, "none", FALSE)
                           ELSE Moves(t, s, f.dev + 1, "none", FALSE)
         /\ \A c \in {"check", "update"} :
              frame' = [frame EXCEPT ![t].at = s, ![t].caller = c] => Moves(t, s, f.dev, c, f.reg)
<1> DEFINE f == frame[t]
           Stored(stage, d, c, r) == frame' = [frame EXCEPT ![t] = FrameOf(stage, d, c, r)]
<1>1. /\ f = FrameOf(f.at, f.dev, f.caller, f.reg)
      /\ f.at \in Stages /\ f.dev \in Nat /\ f.caller \in {"none", "check", "update"} \cup KeyCallers
      /\ f.reg \in BOOLEAN
  BY DEF Frame, FrameOf
<1>2. \A stage \in Stages, d \in Nat, c \in {"none", "check", "update"} \cup KeyCallers, r \in BOOLEAN :
        Stored(stage, d, c, r) => Moves(t, stage, d, c, r)
  <2>1. \A stage \in Stages, d \in Nat, c \in {"none", "check", "update"} \cup KeyCallers, r \in BOOLEAN :
          FrameOf(stage, d, c, r) \in Frame
    BY DEF Frame, FrameOf
  <2> QED BY <2>1, FrameStored
<1>3. /\ To(t, s) => Stored(s, f.dev, f.caller, f.reg)
      /\ Loop(t, s) => Stored(s, 1, f.caller, f.reg)
      /\ \A v : With(t, s, v) => Stored(s, f.dev, f.caller, v)
      /\ \A c : frame' = [frame EXCEPT ![t].at = s, ![t].caller = c] => Stored(s, f.dev, c, f.reg)
  BY <1>1 DEF To, Loop, With, FrameOf, Frame
<1>4. /\ Leave(t) => Stored("idle", 0, "none", FALSE)
      /\ \A n, after : Continue(t, n, s, after) =>
           IF f.dev = n THEN Stored(after, 0, "none", FALSE)
                        ELSE Stored(s, f.dev + 1, "none", FALSE)
  BY DEF Leave, Continue, IsLast, Idle, FrameOf
<1>5. "idle" \in Stages /\ f.dev + 1 \in Nat
  BY <1>1 DEF Stages
<1> HIDE DEF f, Stored
<1>6. /\ To(t, s) => Moves(t, s, f.dev, f.caller, f.reg)
      /\ Loop(t, s) => Moves(t, s, 1, f.caller, f.reg)
      /\ \A v \in BOOLEAN : With(t, s, v) => Moves(t, s, f.dev, f.caller, v)
      /\ Leave(t) => Moves(t, "idle", 0, "none", FALSE)
  BY <1>1, <1>2, <1>3, <1>4, <1>5
<1>7. \A n : \A after \in Stages : Continue(t, n, s, after) =>
        IF f.dev = n THEN Moves(t, after, 0, "none", FALSE)
                     ELSE Moves(t, s, f.dev + 1, "none", FALSE)
  BY <1>1, <1>2, <1>4, <1>5
<1>8. \A c \in {"check", "update"} :
        frame' = [frame EXCEPT ![t].at = s, ![t].caller = c] => Moves(t, s, f.dev, c, f.reg)
  <2> SUFFICES ASSUME NEW c \in {"check", "update"},
                      frame' = [frame EXCEPT ![t].at = s, ![t].caller = c]
               PROVE  Moves(t, s, f.dev, c, f.reg)
    OBVIOUS
  <2>1. Stored(s, f.dev, c, f.reg)
    BY <1>3
  <2> QED BY <1>1, <1>2, <2>1
<1> QED BY <1>6, <1>7, <1>8 DEF f

\* A step of thread t keeps the types, and leaves t where it may be.
Lands(t) ==
  /\ Flags' /\ raced' = raced /\ AcAdapterCount' = AcAdapterCount
  /\ frame' \in [Threads -> Frame]
  /\ \A u \in Threads \ {t} : frame'[u] = frame[u]
  /\ Placed(t)'

\* It changes the power and what was told only where one may who decides, and ends
\* its decision having told what it loaded; what it loads is true then.
KeepsTelling(t) ==
  /\ Busy(t)' => Busy(t)
  /\ ExternalPowerConnected' # ExternalPowerConnected \/ told' # told => t \in PowerWriters /\ Busy(t)
  /\ t \in PowerWriters /\ Busy(t) /\ ~Busy(t)' =>
       /\ frame[t].at \in {"telling", "telling deduced"} /\ told' = frame[t].reg
       /\ ExternalPowerConnected' = ExternalPowerConnected
  /\ At(t, "deduced")' => (ExternalPowerConnected' => frame'[t].reg)
  /\ frame'[t].at \in {"telling", "telling deduced"} => frame'[t].reg = ExternalPowerConnected'

\* It takes the timeout or the power away only when it will decide, and decides by
\* setting the timeout.
KeepsPolling(t) ==
  /\ armed => armed' \/ Deciding(t)'
  /\ Deciding(t) => Deciding(t)' \/ armed' \/ ExternalPowerConnected'
  /\ ExternalPowerConnected =>
       \/ ExternalPowerConnected'
       \/ Deciding(t)'
       \/ At(t, "deduced") /\ ~frame[t].reg

StepOf(t) == Lands(t) /\ KeepsTelling(t) /\ KeepsPolling(t)

LEMMA BatteryConstants ==
  /\ 1 \in Batteries /\ BatteryCount \in Nat
  /\ \A b \in Batteries : b \in Nat /\ (b # BatteryCount => b + 1 \in Batteries)
  BY BatteryAssumption DEF Batteries

LEMMA LoopsStay ==
  \A n \in Nat : /\ n # 0 => 1 \in 1..n
               /\ \A d \in 1..n : d # n => d + 1 \in 1..n
  OBVIOUS

-----------------------------------------------------------------------------
(* CheckDevices *)

LEMMA CheckStep ==
  ASSUME BatteryTypeOK, NEW t \in Threads, Check(t), AcAdapterCount' = AcAdapterCount
  PROVE  StepOf(t)
<1>1. /\ BatteryTypeOK /\ frame \in [Threads -> Frame] /\ frame[t] \in Frame /\ Placed(t) /\ Flags
      /\ AcAdapterCount \in Nat /\ AcAdapterCount' = AcAdapterCount
  BY DEF BatteryTypeOK
<1>2. /\ CheckStages \subseteq Stages /\ UpdateStages \subseteq Stages
      /\ BatteryStages \subseteq Stages /\ "idle" \in Stages
  BY DEF Stages
<1>3. ASSUME CancelTimeout(t) PROVE StepOf(t)
  <2>1. Moves(t, "forget", frame[t].dev, frame[t].caller, frame[t].reg)
    BY <1>1, <1>2, <1>3, FramesMove DEF CancelTimeout, CheckStages, UpdateStages,
       DeducingStages, BatteryStages
  <2>2. Flags' /\ raced' = raced /\ AcAdapterCount' = AcAdapterCount
    BY <1>1, <1>3 DEF Flags, Placed, At, batteries, flags, CheckStages, UpdateStages,
       DeducingStages, BatteryStages, CancelTimeout, Frame
  <2>3. Lands(t)
    BY <1>1, <1>3, <2>1, <2>2, BatteryConstants, LoopsStay DEF Lands, Moves, Placed, At,
       KeyCallers, CheckStages, UpdateStages, DeducingStages, BatteryStages, CancelTimeout
  <2>4. KeepsTelling(t)
    BY <1>1, <1>3, <2>1, <2>2 DEF KeepsTelling, Moves, Placed, At, Busy, PowerWriters, flags,
       KeyCallers, CheckStages, UpdateStages, DeducingStages, BatteryStages, CancelTimeout
  <2>5. KeepsPolling(t)
    BY <1>1, <1>3, <2>1, <2>2 DEF KeepsPolling, Moves, At, Deciding, Placed, flags, KeyCallers,
       Flags, CheckStages, UpdateStages, DeducingStages, BatteryStages, CancelTimeout
  <2> QED BY <2>3, <2>4, <2>5 DEF StepOf
<1>4. ASSUME ForgetBatteries(t) PROVE StepOf(t)
  <2>1. Moves(t, "status of device", 1, frame[t].caller, frame[t].reg)
    BY <1>1, <1>2, <1>4, FramesMove DEF ForgetBatteries, CheckStages, UpdateStages,
       DeducingStages, BatteryStages
  <2>2. Flags' /\ raced' = raced /\ AcAdapterCount' = AcAdapterCount
    BY <1>1, <1>4 DEF Flags, Placed, At, batteries, flags, CheckStages, UpdateStages,
       DeducingStages, BatteryStages, ForgetBatteries, Frame
  <2>3. Lands(t)
    BY <1>1, <1>4, <2>1, <2>2, BatteryConstants, LoopsStay DEF Lands, Moves, Placed, At,
       KeyCallers, CheckStages, UpdateStages, DeducingStages, BatteryStages, ForgetBatteries
  <2>4. KeepsTelling(t)
    BY <1>1, <1>4, <2>1, <2>2 DEF KeepsTelling, Moves, Placed, At, Busy, PowerWriters, flags,
       KeyCallers, CheckStages, UpdateStages, DeducingStages, BatteryStages, ForgetBatteries
  <2>5. KeepsPolling(t)
    BY <1>1, <1>4, <2>1, <2>2 DEF KeepsPolling, Moves, At, Deciding, Placed, flags, KeyCallers,
       Flags, CheckStages, UpdateStages, DeducingStages, BatteryStages, ForgetBatteries
  <2> QED BY <2>3, <2>4, <2>5 DEF StepOf
<1>5. ASSUME CheckBattery(t) PROVE StepOf(t)
  <2>1. \/ Moves(t, "no power", 0, "none", FALSE) /\ frame[t].dev = BatteryCount
        \/ Moves(t, "status of device", frame[t].dev + 1, "none", FALSE) /\ frame[t].dev # BatteryCount
        \/ Moves(t, "join", frame[t].dev, frame[t].caller, frame[t].reg)
        \/ Moves(t, "information", frame[t].dev, "check", frame[t].reg)
    BY <1>1, <1>2, <1>5, FramesMove DEF CheckBattery, CheckStages, UpdateStages,
       DeducingStages, BatteryStages
  <2>2. Flags' /\ raced' = raced /\ AcAdapterCount' = AcAdapterCount
    BY <1>1, <1>5 DEF Flags, Placed, At, batteries, flags, CheckStages, UpdateStages,
       DeducingStages, BatteryStages, CheckBattery, Frame
  <2>3. Lands(t)
    BY <1>1, <1>5, <2>1, <2>2, BatteryConstants, LoopsStay DEF Lands, Moves, Placed, At,
       KeyCallers, CheckStages, UpdateStages, DeducingStages, BatteryStages, CheckBattery
  <2>4. KeepsTelling(t)
    BY <1>1, <1>5, <2>1, <2>2 DEF KeepsTelling, Moves, Placed, At, Busy, PowerWriters, flags,
       KeyCallers, CheckStages, UpdateStages, DeducingStages, BatteryStages, CheckBattery
  <2>5. KeepsPolling(t)
    BY <1>1, <1>5, <2>1, <2>2 DEF KeepsPolling, Moves, At, Deciding, Placed, flags, KeyCallers,
       Flags, CheckStages, UpdateStages, DeducingStages, BatteryStages, CheckBattery
  <2> QED BY <2>3, <2>4, <2>5 DEF StepOf
<1>6. ASSUME LoadBatteries(t) PROVE StepOf(t)
  <2>1. Moves(t, "joined", frame[t].dev, frame[t].caller, BatteriesConnected \/ BatteryConnected[frame[t].dev])
    <3>1. "joined" \in Stages /\ (BatteriesConnected \/ BatteryConnected[frame[t].dev]) \in BOOLEAN
      BY <1>1, <1>2, <1>6 DEF Flags, Placed, At, CheckStages, UpdateStages, DeducingStages,
         BatteryStages, Batteries, LoadDeduced, LoadBatteries
    <3>2. \A v \in BOOLEAN : With(t, "joined", v) => Moves(t, "joined", frame[t].dev, frame[t].caller, v)
      BY <1>1, <3>1, FramesMove
    <3> QED BY <1>6, <3>1, <3>2, Zenon DEF LoadBatteries
  <2>2. Flags' /\ raced' = raced /\ AcAdapterCount' = AcAdapterCount
    BY <1>1, <1>6 DEF Flags, Placed, At, batteries, flags, CheckStages, UpdateStages,
       DeducingStages, BatteryStages, LoadBatteries, Frame
  <2>3. Lands(t)
    BY <1>1, <1>6, <2>1, <2>2, BatteryConstants, LoopsStay DEF Lands, Moves, Placed, At,
       KeyCallers, CheckStages, UpdateStages, DeducingStages, BatteryStages, LoadBatteries
  <2>4. KeepsTelling(t)
    BY <1>1, <1>6, <2>1, <2>2 DEF KeepsTelling, Moves, Placed, At, Busy, PowerWriters, flags,
       KeyCallers, CheckStages, UpdateStages, DeducingStages, BatteryStages, LoadBatteries
  <2>5. KeepsPolling(t)
    BY <1>1, <1>6, <2>1, <2>2 DEF KeepsPolling, Moves, At, Deciding, Placed, flags, KeyCallers,
       Flags, CheckStages, UpdateStages, DeducingStages, BatteryStages, LoadBatteries
  <2> QED BY <2>3, <2>4, <2>5 DEF StepOf
<1>7. ASSUME StoreBatteries(t) PROVE StepOf(t)
  <2>1. \/ Moves(t, "no power", 0, "none", FALSE) /\ frame[t].dev = BatteryCount
        \/ Moves(t, "status of device", frame[t].dev + 1, "none", FALSE) /\ frame[t].dev # BatteryCount
    BY <1>1, <1>2, <1>7, FramesMove DEF StoreBatteries, CheckStages, UpdateStages,
       DeducingStages, BatteryStages
  <2>2. Flags' /\ raced' = raced /\ AcAdapterCount' = AcAdapterCount
    BY <1>1, <1>7 DEF Flags, Placed, At, batteries, flags, CheckStages, UpdateStages,
       DeducingStages, BatteryStages, StoreBatteries, Frame
  <2>3. Lands(t)
    BY <1>1, <1>7, <2>1, <2>2, BatteryConstants, LoopsStay DEF Lands, Moves, Placed, At,
       KeyCallers, CheckStages, UpdateStages, DeducingStages, BatteryStages, StoreBatteries
  <2>4. KeepsTelling(t)
    BY <1>1, <1>7, <2>1, <2>2 DEF KeepsTelling, Moves, Placed, At, Busy, PowerWriters, flags,
       KeyCallers, CheckStages, UpdateStages, DeducingStages, BatteryStages, StoreBatteries
  <2>5. KeepsPolling(t)
    BY <1>1, <1>7, <2>1, <2>2 DEF KeepsPolling, Moves, At, Deciding, Placed, flags, KeyCallers,
       Flags, CheckStages, UpdateStages, DeducingStages, BatteryStages, StoreBatteries
  <2> QED BY <2>3, <2>4, <2>5 DEF StepOf
<1>8. ASSUME ForgetPower(t) PROVE StepOf(t)
  <2>1. \/ AcAdapterCount = 0 /\ Moves(t, "branch", frame[t].dev, frame[t].caller, frame[t].reg)
        \/ AcAdapterCount # 0 /\ Moves(t, "power source", 1, frame[t].caller, frame[t].reg)
    BY <1>1, <1>2, <1>8, FramesMove DEF ForgetPower, CheckStages, UpdateStages, DeducingStages,
       BatteryStages
  <2>2. Flags' /\ raced' = raced /\ AcAdapterCount' = AcAdapterCount
    BY <1>1, <1>8 DEF Flags, Placed, At, batteries, flags, CheckStages, UpdateStages,
       DeducingStages, BatteryStages, ForgetPower, Frame
  <2>3. Lands(t)
    BY <1>1, <1>8, <2>1, <2>2, BatteryConstants, LoopsStay DEF Lands, Moves, Placed, At,
       KeyCallers, CheckStages, UpdateStages, DeducingStages, BatteryStages, ForgetPower
  <2>4. KeepsTelling(t)
    BY <1>1, <1>8, <2>1, <2>2 DEF KeepsTelling, Moves, Placed, At, Busy, PowerWriters, flags,
       KeyCallers, CheckStages, UpdateStages, DeducingStages, BatteryStages, ForgetPower
  <2>5. KeepsPolling(t)
    BY <1>1, <1>8, <2>1, <2>2 DEF KeepsPolling, Moves, At, Deciding, Placed, flags, KeyCallers,
       Flags, CheckStages, UpdateStages, DeducingStages, BatteryStages, ForgetPower
  <2> QED BY <2>3, <2>4, <2>5 DEF StepOf
<1>9. ASSUME CheckAdapter(t) PROVE StepOf(t)
  <2>1. \/ Moves(t, "branch", 0, "none", FALSE) /\ frame[t].dev = AcAdapterCount
        \/ Moves(t, "power source", frame[t].dev + 1, "none", FALSE) /\ frame[t].dev # AcAdapterCount
        \/ \E v \in BOOLEAN : (ExternalPowerConnected => v) /\ Moves(t, "powered", frame[t].dev, frame[t].caller, v)
    BY <1>1, <1>2, <1>9, FramesMove DEF CheckAdapter, CheckStages, UpdateStages,
       DeducingStages, BatteryStages
  <2>2. Flags' /\ raced' = raced /\ AcAdapterCount' = AcAdapterCount
    BY <1>1, <1>9 DEF Flags, Placed, At, batteries, flags, CheckStages, UpdateStages,
       DeducingStages, BatteryStages, CheckAdapter, Frame
  <2>3. Lands(t)
    BY <1>1, <1>9, <2>1, <2>2, BatteryConstants, LoopsStay DEF Lands, Moves, Placed, At,
       KeyCallers, CheckStages, UpdateStages, DeducingStages, BatteryStages, CheckAdapter
  <2>4. KeepsTelling(t)
    BY <1>1, <1>9, <2>1, <2>2 DEF KeepsTelling, Moves, Placed, At, Busy, PowerWriters, flags,
       KeyCallers, CheckStages, UpdateStages, DeducingStages, BatteryStages, CheckAdapter
  <2>5. KeepsPolling(t)
    BY <1>1, <1>9, <2>1, <2>2 DEF KeepsPolling, Moves, At, Deciding, Placed, flags, KeyCallers,
       Flags, CheckStages, UpdateStages, DeducingStages, BatteryStages, CheckAdapter
  <2> QED BY <2>3, <2>4, <2>5 DEF StepOf
<1>10. ASSUME StorePower(t) PROVE StepOf(t)
  <2>1. \/ Moves(t, "branch", 0, "none", FALSE) /\ frame[t].dev = AcAdapterCount
        \/ Moves(t, "power source", frame[t].dev + 1, "none", FALSE) /\ frame[t].dev # AcAdapterCount
    BY <1>1, <1>2, <1>10, FramesMove DEF StorePower, CheckStages, UpdateStages, DeducingStages,
       BatteryStages
  <2>2. Flags' /\ raced' = raced /\ AcAdapterCount' = AcAdapterCount
    BY <1>1, <1>10 DEF Flags, Placed, At, batteries, flags, CheckStages, UpdateStages,
       DeducingStages, BatteryStages, StorePower, Frame
  <2>3. Lands(t)
    BY <1>1, <1>10, <2>1, <2>2, BatteryConstants, LoopsStay DEF Lands, Moves, Placed, At,
       KeyCallers, CheckStages, UpdateStages, DeducingStages, BatteryStages, StorePower
  <2>4. KeepsTelling(t)
    BY <1>1, <1>10, <2>1, <2>2 DEF KeepsTelling, Moves, Placed, At, Busy, PowerWriters, flags,
       KeyCallers, CheckStages, UpdateStages, DeducingStages, BatteryStages, StorePower
  <2>5. KeepsPolling(t)
    BY <1>1, <1>10, <2>1, <2>2 DEF KeepsPolling, Moves, At, Deciding, Placed, flags,
       KeyCallers, Flags, CheckStages, UpdateStages, DeducingStages, BatteryStages, StorePower
  <2> QED BY <2>3, <2>4, <2>5 DEF StepOf
<1>11. ASSUME Branch(t) PROVE StepOf(t)
  <2>1. \/ Moves(t, "decide", frame[t].dev, frame[t].caller, frame[t].reg)
        \/ Moves(t, "assume power", frame[t].dev, frame[t].caller, frame[t].reg)
    BY <1>1, <1>2, <1>11, FramesMove DEF Branch, WithoutBatteries, CheckStages, UpdateStages,
       DeducingStages, BatteryStages
  <2>2. Flags' /\ raced' = raced /\ AcAdapterCount' = AcAdapterCount
    BY <1>1, <1>11 DEF Flags, Placed, At, batteries, flags, CheckStages, UpdateStages,
       DeducingStages, BatteryStages, Branch, WithoutBatteries, Frame
  <2>3. Lands(t)
    BY <1>1, <1>11, <2>1, <2>2, BatteryConstants, LoopsStay DEF Lands, Moves, Placed, At,
       KeyCallers, CheckStages, UpdateStages, DeducingStages, BatteryStages, Branch,
       WithoutBatteries
  <2>4. KeepsTelling(t)
    BY <1>1, <1>11, <2>1, <2>2 DEF KeepsTelling, Moves, Placed, At, Busy, PowerWriters, flags,
       KeyCallers, CheckStages, UpdateStages, DeducingStages, BatteryStages, Branch,
       WithoutBatteries
  <2>5. KeepsPolling(t)
    BY <1>1, <1>11, <2>1, <2>2 DEF KeepsPolling, Moves, At, Deciding, Placed, flags,
       KeyCallers, Flags, CheckStages, UpdateStages, DeducingStages, BatteryStages, Branch,
       WithoutBatteries
  <2> QED BY <2>3, <2>4, <2>5 DEF StepOf
<1>12. ASSUME AssumePower(t) PROVE StepOf(t)
  <2>1. Moves(t, "tell", frame[t].dev, frame[t].caller, frame[t].reg)
    BY <1>1, <1>2, <1>12, FramesMove DEF AssumePower, CheckStages, UpdateStages,
       DeducingStages, BatteryStages
  <2>2. Flags' /\ raced' = raced /\ AcAdapterCount' = AcAdapterCount
    BY <1>1, <1>12 DEF Flags, Placed, At, batteries, flags, CheckStages, UpdateStages,
       DeducingStages, BatteryStages, AssumePower, Frame
  <2>3. Lands(t)
    BY <1>1, <1>12, <2>1, <2>2, BatteryConstants, LoopsStay DEF Lands, Moves, Placed, At,
       KeyCallers, CheckStages, UpdateStages, DeducingStages, BatteryStages, AssumePower
  <2>4. KeepsTelling(t)
    BY <1>1, <1>12, <2>1, <2>2 DEF KeepsTelling, Moves, Placed, At, Busy, PowerWriters, flags,
       KeyCallers, CheckStages, UpdateStages, DeducingStages, BatteryStages, AssumePower
  <2>5. KeepsPolling(t)
    BY <1>1, <1>12, <2>1, <2>2 DEF KeepsPolling, Moves, At, Deciding, Placed, flags,
       KeyCallers, Flags, CheckStages, UpdateStages, DeducingStages, BatteryStages, AssumePower
  <2> QED BY <2>3, <2>4, <2>5 DEF StepOf
<1>13. ASSUME LoadPower(t) PROVE StepOf(t)
  <2>1. Moves(t, "telling", frame[t].dev, frame[t].caller, ExternalPowerConnected)
    <3>1. "telling" \in Stages /\ (ExternalPowerConnected) \in BOOLEAN
      BY <1>1, <1>2, <1>13 DEF Flags, Placed, At, CheckStages, UpdateStages, DeducingStages,
         BatteryStages, Batteries, LoadDeduced, LoadBatteries
    <3>2. \A v \in BOOLEAN : With(t, "telling", v) => Moves(t, "telling", frame[t].dev, frame[t].caller, v)
      BY <1>1, <3>1, FramesMove
    <3> QED BY <1>13, <3>1, <3>2, Zenon DEF LoadPower
  <2>2. Flags' /\ raced' = raced /\ AcAdapterCount' = AcAdapterCount
    BY <1>1, <1>13 DEF Flags, Placed, At, batteries, flags, CheckStages, UpdateStages,
       DeducingStages, BatteryStages, LoadPower, Frame
  <2>3. Lands(t)
    BY <1>1, <1>13, <2>1, <2>2, BatteryConstants, LoopsStay DEF Lands, Moves, Placed, At,
       KeyCallers, CheckStages, UpdateStages, DeducingStages, BatteryStages, LoadPower
  <2>4. KeepsTelling(t)
    BY <1>1, <1>13, <2>1, <2>2 DEF KeepsTelling, Moves, Placed, At, Busy, PowerWriters, flags,
       KeyCallers, CheckStages, UpdateStages, DeducingStages, BatteryStages, LoadPower
  <2>5. KeepsPolling(t)
    BY <1>1, <1>13, <2>1, <2>2 DEF KeepsPolling, Moves, At, Deciding, Placed, flags,
       KeyCallers, Flags, CheckStages, UpdateStages, DeducingStages, BatteryStages, LoadPower
  <2> QED BY <2>3, <2>4, <2>5 DEF StepOf
<1>14. ASSUME TellPower(t) PROVE StepOf(t)
  <2>1. Moves(t, "idle", 0, "none", FALSE)
    BY <1>1, <1>2, <1>14, FramesMove DEF TellPower, ExternalPower, CheckStages, UpdateStages,
       DeducingStages, BatteryStages
  <2>2. Flags' /\ raced' = raced /\ AcAdapterCount' = AcAdapterCount
    BY <1>1, <1>14 DEF Flags, Placed, At, batteries, flags, CheckStages, UpdateStages,
       DeducingStages, BatteryStages, TellPower, ExternalPower, Frame
  <2>3. Lands(t)
    BY <1>1, <1>14, <2>1, <2>2, BatteryConstants, LoopsStay DEF Lands, Moves, Placed, At,
       KeyCallers, CheckStages, UpdateStages, DeducingStages, BatteryStages, TellPower,
       ExternalPower
  <2>4. KeepsTelling(t)
    BY <1>1, <1>14, <2>1, <2>2 DEF KeepsTelling, Moves, Placed, At, Busy, PowerWriters, flags,
       KeyCallers, CheckStages, UpdateStages, DeducingStages, BatteryStages, TellPower,
       ExternalPower
  <2>5. KeepsPolling(t)
    BY <1>1, <1>14, <2>1, <2>2 DEF KeepsPolling, Moves, At, Deciding, Placed, flags,
       KeyCallers, Flags, CheckStages, UpdateStages, DeducingStages, BatteryStages, TellPower,
       ExternalPower
  <2> QED BY <2>3, <2>4, <2>5 DEF StepOf
<1> QED BY <1>3, <1>4, <1>5, <1>6, <1>7, <1>8, <1>9, <1>10, <1>11, <1>12, <1>13, <1>14 DEF Check

-----------------------------------------------------------------------------
(* Update *)

LEMMA UpdateStep ==
  ASSUME BatteryTypeOK, NEW t \in Threads, Update(t), AcAdapterCount' = AcAdapterCount
  PROVE  StepOf(t)
<1>1. /\ BatteryTypeOK /\ frame \in [Threads -> Frame] /\ frame[t] \in Frame /\ Placed(t) /\ Flags
      /\ AcAdapterCount \in Nat /\ AcAdapterCount' = AcAdapterCount
  BY DEF BatteryTypeOK
<1>2. /\ CheckStages \subseteq Stages /\ UpdateStages \subseteq Stages
      /\ BatteryStages \subseteq Stages /\ "idle" \in Stages
  BY DEF Stages
<1>3. ASSUME DecidePower(t) PROVE StepOf(t)
  <2>1. \/ ExternalPowerConnected /\ Moves(t, "decide full", frame[t].dev, frame[t].caller, frame[t].reg)
        \/ ~ExternalPowerConnected /\ Moves(t, "arm", frame[t].dev, frame[t].caller, frame[t].reg)
    BY <1>1, <1>2, <1>3, FramesMove DEF DecidePower, WhenPowered, CheckStages, UpdateStages,
       DeducingStages, BatteryStages
  <2>2. Flags' /\ raced' = raced /\ AcAdapterCount' = AcAdapterCount
    BY <1>1, <1>3 DEF Flags, Placed, At, batteries, flags, CheckStages, UpdateStages,
       DeducingStages, BatteryStages, DecidePower, WhenPowered, Frame
  <2>3. Lands(t)
    BY <1>1, <1>3, <2>1, <2>2, BatteryConstants, LoopsStay DEF Lands, Moves, Placed, At,
       KeyCallers, CheckStages, UpdateStages, DeducingStages, BatteryStages, DecidePower,
       WhenPowered
  <2>4. KeepsTelling(t)
    BY <1>1, <1>3, <2>1, <2>2 DEF KeepsTelling, Moves, Placed, At, Busy, PowerWriters, flags,
       KeyCallers, CheckStages, UpdateStages, DeducingStages, BatteryStages, DecidePower,
       WhenPowered
  <2>5. KeepsPolling(t)
    BY <1>1, <1>3, <2>1, <2>2 DEF KeepsPolling, Moves, At, Deciding, Placed, flags, KeyCallers,
       Flags, CheckStages, UpdateStages, DeducingStages, BatteryStages, DecidePower, WhenPowered
  <2> QED BY <2>3, <2>4, <2>5 DEF StepOf
<1>4. ASSUME DecideFull(t) PROVE StepOf(t)
  <2>1. \/ Moves(t, "full", frame[t].dev, frame[t].caller, frame[t].reg)
        \/ Moves(t, "arm", frame[t].dev, frame[t].caller, frame[t].reg)
    BY <1>1, <1>2, <1>4, FramesMove DEF DecideFull, CheckStages, UpdateStages, DeducingStages,
       BatteryStages
  <2>2. Flags' /\ raced' = raced /\ AcAdapterCount' = AcAdapterCount
    BY <1>1, <1>4 DEF Flags, Placed, At, batteries, flags, CheckStages, UpdateStages,
       DeducingStages, BatteryStages, DecideFull, Frame
  <2>3. Lands(t)
    BY <1>1, <1>4, <2>1, <2>2, BatteryConstants, LoopsStay DEF Lands, Moves, Placed, At,
       KeyCallers, CheckStages, UpdateStages, DeducingStages, BatteryStages, DecideFull
  <2>4. KeepsTelling(t)
    BY <1>1, <1>4, <2>1, <2>2 DEF KeepsTelling, Moves, Placed, At, Busy, PowerWriters, flags,
       KeyCallers, CheckStages, UpdateStages, DeducingStages, BatteryStages, DecideFull
  <2>5. KeepsPolling(t)
    BY <1>1, <1>4, <2>1, <2>2 DEF KeepsPolling, Moves, At, Deciding, Placed, flags, KeyCallers,
       Flags, CheckStages, UpdateStages, DeducingStages, BatteryStages, DecideFull
  <2> QED BY <2>3, <2>4, <2>5 DEF StepOf
<1>5. ASSUME SetTimeout(t) PROVE StepOf(t)
  <2>1. Moves(t, "full", frame[t].dev, frame[t].caller, frame[t].reg)
    BY <1>1, <1>2, <1>5, FramesMove DEF SetTimeout, CheckStages, UpdateStages, DeducingStages,
       BatteryStages
  <2>2. Flags' /\ raced' = raced /\ AcAdapterCount' = AcAdapterCount
    BY <1>1, <1>5 DEF Flags, Placed, At, batteries, flags, CheckStages, UpdateStages,
       DeducingStages, BatteryStages, SetTimeout, Frame
  <2>3. Lands(t)
    BY <1>1, <1>5, <2>1, <2>2, BatteryConstants, LoopsStay DEF Lands, Moves, Placed, At,
       KeyCallers, CheckStages, UpdateStages, DeducingStages, BatteryStages, SetTimeout
  <2>4. KeepsTelling(t)
    BY <1>1, <1>5, <2>1, <2>2 DEF KeepsTelling, Moves, Placed, At, Busy, PowerWriters, flags,
       KeyCallers, CheckStages, UpdateStages, DeducingStages, BatteryStages, SetTimeout
  <2>5. KeepsPolling(t)
    BY <1>1, <1>5, <2>1, <2>2 DEF KeepsPolling, Moves, At, Deciding, Placed, flags, KeyCallers,
       Flags, CheckStages, UpdateStages, DeducingStages, BatteryStages, SetTimeout
  <2> QED BY <2>3, <2>4, <2>5 DEF StepOf
<1>6. ASSUME AssumeFull(t) PROVE StepOf(t)
  <2>1. Moves(t, "poll", 1, frame[t].caller, frame[t].reg)
    BY <1>1, <1>2, <1>6, FramesMove DEF AssumeFull, CheckStages, UpdateStages, DeducingStages,
       BatteryStages
  <2>2. Flags' /\ raced' = raced /\ AcAdapterCount' = AcAdapterCount
    BY <1>1, <1>6 DEF Flags, Placed, At, batteries, flags, CheckStages, UpdateStages,
       DeducingStages, BatteryStages, AssumeFull, Frame
  <2>3. Lands(t)
    BY <1>1, <1>6, <2>1, <2>2, BatteryConstants, LoopsStay DEF Lands, Moves, Placed, At,
       KeyCallers, CheckStages, UpdateStages, DeducingStages, BatteryStages, AssumeFull
  <2>4. KeepsTelling(t)
    BY <1>1, <1>6, <2>1, <2>2 DEF KeepsTelling, Moves, Placed, At, Busy, PowerWriters, flags,
       KeyCallers, CheckStages, UpdateStages, DeducingStages, BatteryStages, AssumeFull
  <2>5. KeepsPolling(t)
    BY <1>1, <1>6, <2>1, <2>2 DEF KeepsPolling, Moves, At, Deciding, Placed, flags, KeyCallers,
       Flags, CheckStages, UpdateStages, DeducingStages, BatteryStages, AssumeFull
  <2> QED BY <2>3, <2>4, <2>5 DEF StepOf
<1>7. ASSUME PollBattery(t) PROVE StepOf(t)
  <2>1. \/ Moves(t, "information", frame[t].dev, "update", frame[t].reg)
        \/ AcAdapterCount = 0 /\ Moves(t, "deduce", frame[t].dev, frame[t].caller, frame[t].reg)
        \/ AcAdapterCount # 0 /\ t \in Handlers /\ frame[t].dev = BatteryCount /\ Moves(t, "tell", 0, "none", FALSE)
        \/ AcAdapterCount # 0 /\ t \notin Handlers /\ frame[t].dev = BatteryCount /\ Moves(t, "idle", 0, "none", FALSE)
        \/ AcAdapterCount # 0 /\ frame[t].dev # BatteryCount /\ Moves(t, "poll", frame[t].dev + 1, "none", FALSE)
    BY <1>1, <1>2, <1>7, FramesMove DEF PollBattery, NextBattery, AfterUpdate, CheckStages,
       UpdateStages, DeducingStages, BatteryStages
  <2>2. Flags' /\ raced' = raced /\ AcAdapterCount' = AcAdapterCount
    BY <1>1, <1>7 DEF Flags, Placed, At, batteries, flags, CheckStages, UpdateStages,
       DeducingStages, BatteryStages, PollBattery, NextBattery, AfterUpdate, Frame
  <2>3. Lands(t)
    BY <1>1, <1>7, <2>1, <2>2, BatteryConstants, LoopsStay DEF Lands, Moves, Placed, At,
       KeyCallers, CheckStages, UpdateStages, DeducingStages, BatteryStages, PollBattery,
       NextBattery, AfterUpdate
  <2>4. KeepsTelling(t)
    BY <1>1, <1>7, <2>1, <2>2 DEF KeepsTelling, Moves, Placed, At, Busy, PowerWriters, flags,
       KeyCallers, CheckStages, UpdateStages, DeducingStages, BatteryStages, PollBattery,
       NextBattery, AfterUpdate
  <2>5. KeepsPolling(t)
    BY <1>1, <1>7, <2>1, <2>2 DEF KeepsPolling, Moves, At, Deciding, Placed, flags, KeyCallers,
       Flags, CheckStages, UpdateStages, DeducingStages, BatteryStages, PollBattery,
       NextBattery, AfterUpdate
  <2> QED BY <2>3, <2>4, <2>5 DEF StepOf
<1>8. ASSUME LoadDeduced(t) PROVE StepOf(t)
  <2>1. Moves(t, "deduced", frame[t].dev, frame[t].caller, ExternalPowerConnected \/ CalculatedAcAdapterConnected[frame[t].dev])
    <3>1. "deduced" \in Stages /\ (ExternalPowerConnected \/ CalculatedAcAdapterConnected[frame[t].dev]) \in BOOLEAN
      BY <1>1, <1>2, <1>8 DEF Flags, Placed, At, CheckStages, UpdateStages, DeducingStages,
         BatteryStages, Batteries, LoadDeduced, LoadBatteries
    <3>2. \A v \in BOOLEAN : With(t, "deduced", v) => Moves(t, "deduced", frame[t].dev, frame[t].caller, v)
      BY <1>1, <3>1, FramesMove
    <3> QED BY <1>8, <3>1, <3>2, Zenon DEF LoadDeduced
  <2>2. Flags' /\ raced' = raced /\ AcAdapterCount' = AcAdapterCount
    BY <1>1, <1>8 DEF Flags, Placed, At, batteries, flags, CheckStages, UpdateStages,
       DeducingStages, BatteryStages, LoadDeduced, Frame
  <2>3. Lands(t)
    BY <1>1, <1>8, <2>1, <2>2, BatteryConstants, LoopsStay DEF Lands, Moves, Placed, At,
       KeyCallers, CheckStages, UpdateStages, DeducingStages, BatteryStages, LoadDeduced
  <2>4. KeepsTelling(t)
    BY <1>1, <1>8, <2>1, <2>2 DEF KeepsTelling, Moves, Placed, At, Busy, PowerWriters, flags,
       KeyCallers, CheckStages, UpdateStages, DeducingStages, BatteryStages, LoadDeduced
  <2>5. KeepsPolling(t)
    BY <1>1, <1>8, <2>1, <2>2 DEF KeepsPolling, Moves, At, Deciding, Placed, flags, KeyCallers,
       Flags, CheckStages, UpdateStages, DeducingStages, BatteryStages, LoadDeduced
  <2> QED BY <2>3, <2>4, <2>5 DEF StepOf
<1>9. ASSUME StoreDeduced(t) PROVE StepOf(t)
  <2>1. \/ frame[t].dev = BatteryCount /\ Moves(t, "tell deduced", 0, "none", FALSE)
        \/ frame[t].dev # BatteryCount /\ Moves(t, "poll", frame[t].dev + 1, "none", FALSE)
    <3>1. /\ AcAdapterCount = 0 /\ AfterUpdate(t) = "tell deduced"
          /\ "poll" \in Stages /\ "tell deduced" \in Stages
      BY <1>1, <1>2, <1>9 DEF StoreDeduced, Placed, At, AfterUpdate, CheckStages, UpdateStages,
         DeducingStages, BatteryStages
    <3>2. Continue(t, BatteryCount, "poll", "tell deduced")
      BY <1>9, <3>1 DEF StoreDeduced
    <3> QED BY <1>1, <3>1, <3>2, FramesMove
  <2>2. Flags' /\ raced' = raced /\ AcAdapterCount' = AcAdapterCount
    BY <1>1, <1>9 DEF Flags, Placed, At, batteries, flags, CheckStages, UpdateStages,
       DeducingStages, BatteryStages, StoreDeduced, AfterUpdate, Frame
  <2>3. Lands(t)
    BY <1>1, <1>9, <2>1, <2>2, BatteryConstants, LoopsStay DEF Lands, Moves, Placed, At,
       KeyCallers, CheckStages, UpdateStages, DeducingStages, BatteryStages, StoreDeduced,
       AfterUpdate
  <2>4. KeepsTelling(t)
    BY <1>1, <1>9, <2>1, <2>2 DEF KeepsTelling, Moves, Placed, At, Busy, PowerWriters, flags,
       KeyCallers, CheckStages, UpdateStages, DeducingStages, BatteryStages, StoreDeduced,
       AfterUpdate
  <2>5. KeepsPolling(t)
    BY <1>1, <1>9, <2>1, <2>2 DEF KeepsPolling, Moves, At, Deciding, Placed, flags, KeyCallers,
       Flags, CheckStages, UpdateStages, DeducingStages, BatteryStages, StoreDeduced,
       AfterUpdate
  <2> QED BY <2>3, <2>4, <2>5 DEF StepOf
<1>10. ASSUME LoadDeducedPower(t) PROVE StepOf(t)
  <2>1. Moves(t, "telling deduced", frame[t].dev, frame[t].caller, ExternalPowerConnected)
    <3>1. "telling deduced" \in Stages /\ (ExternalPowerConnected) \in BOOLEAN
      BY <1>1, <1>2, <1>10 DEF Flags, Placed, At, CheckStages, UpdateStages, DeducingStages,
         BatteryStages, Batteries, LoadDeduced, LoadBatteries
    <3>2. \A v \in BOOLEAN : With(t, "telling deduced", v) => Moves(t, "telling deduced", frame[t].dev, frame[t].caller, v)
      BY <1>1, <3>1, FramesMove
    <3> QED BY <1>10, <3>1, <3>2, Zenon DEF LoadDeducedPower
  <2>2. Flags' /\ raced' = raced /\ AcAdapterCount' = AcAdapterCount
    BY <1>1, <1>10 DEF Flags, Placed, At, batteries, flags, CheckStages, UpdateStages,
       DeducingStages, BatteryStages, LoadDeducedPower, Frame
  <2>3. Lands(t)
    BY <1>1, <1>10, <2>1, <2>2, BatteryConstants, LoopsStay DEF Lands, Moves, Placed, At,
       KeyCallers, CheckStages, UpdateStages, DeducingStages, BatteryStages, LoadDeducedPower
  <2>4. KeepsTelling(t)
    BY <1>1, <1>10, <2>1, <2>2 DEF KeepsTelling, Moves, Placed, At, Busy, PowerWriters, flags,
       KeyCallers, CheckStages, UpdateStages, DeducingStages, BatteryStages, LoadDeducedPower
  <2>5. KeepsPolling(t)
    BY <1>1, <1>10, <2>1, <2>2 DEF KeepsPolling, Moves, At, Deciding, Placed, flags,
       KeyCallers, Flags, CheckStages, UpdateStages, DeducingStages, BatteryStages,
       LoadDeducedPower
  <2> QED BY <2>3, <2>4, <2>5 DEF StepOf
<1>11. ASSUME TellDeduced(t) PROVE StepOf(t)
  <2>1. \/ t \in Handlers /\ Moves(t, "tell", frame[t].dev, frame[t].caller, frame[t].reg)
        \/ t \notin Handlers /\ Moves(t, "idle", 0, "none", FALSE)
    BY <1>1, <1>2, <1>11, FramesMove DEF TellDeduced, ExternalPower, CheckStages, UpdateStages,
       DeducingStages, BatteryStages
  <2>2. Flags' /\ raced' = raced /\ AcAdapterCount' = AcAdapterCount
    BY <1>1, <1>11 DEF Flags, Placed, At, batteries, flags, CheckStages, UpdateStages,
       DeducingStages, BatteryStages, TellDeduced, ExternalPower, Frame
  <2>3. Lands(t)
    BY <1>1, <1>11, <2>1, <2>2, BatteryConstants, LoopsStay DEF Lands, Moves, Placed, At,
       KeyCallers, CheckStages, UpdateStages, DeducingStages, BatteryStages, TellDeduced,
       ExternalPower
  <2>4. KeepsTelling(t)
    BY <1>1, <1>11, <2>1, <2>2 DEF KeepsTelling, Moves, Placed, At, Busy, PowerWriters, flags,
       KeyCallers, CheckStages, UpdateStages, DeducingStages, BatteryStages, TellDeduced,
       ExternalPower
  <2>5. KeepsPolling(t)
    BY <1>1, <1>11, <2>1, <2>2 DEF KeepsPolling, Moves, At, Deciding, Placed, flags,
       KeyCallers, Flags, CheckStages, UpdateStages, DeducingStages, BatteryStages,
       TellDeduced, ExternalPower
  <2> QED BY <2>3, <2>4, <2>5 DEF StepOf
<1> QED BY <1>3, <1>4, <1>5, <1>6, <1>7, <1>8, <1>9, <1>10, <1>11 DEF Update

-----------------------------------------------------------------------------
(* BatteryInformation and BatteryStatus *)

LEMMA InformationStep ==
  ASSUME BatteryTypeOK, NEW t \in Threads, BatteryInformation(t),
  AcAdapterCount' = AcAdapterCount
  PROVE  StepOf(t)
<1>1. /\ BatteryTypeOK /\ frame \in [Threads -> Frame] /\ frame[t] \in Frame /\ Placed(t) /\ Flags
      /\ AcAdapterCount \in Nat /\ AcAdapterCount' = AcAdapterCount
  BY DEF BatteryTypeOK
<1>2. /\ CheckStages \subseteq Stages /\ UpdateStages \subseteq Stages
      /\ BatteryStages \subseteq Stages /\ "idle" \in Stages
  BY DEF Stages
<1>3. ASSUME Information(t) PROVE StepOf(t)
  <2>1. \/ Moves(t, "status", frame[t].dev, frame[t].caller, frame[t].reg)
        \/ frame[t].caller = "check" /\ Moves(t, "join", frame[t].dev, frame[t].caller, frame[t].reg)
        \/ frame[t].caller = "update" /\ AcAdapterCount = 0 /\ Moves(t, "deduce", frame[t].dev, frame[t].caller, frame[t].reg)
        \/ frame[t].caller = "update" /\ AcAdapterCount # 0 /\ t \in Handlers /\ frame[t].dev = BatteryCount /\ Moves(t, "tell", 0, "none", FALSE)
        \/ frame[t].caller = "update" /\ AcAdapterCount # 0 /\ t \notin Handlers /\ frame[t].dev = BatteryCount /\ Moves(t, "idle", 0, "none", FALSE)
        \/ frame[t].caller = "update" /\ AcAdapterCount # 0 /\ frame[t].dev # BatteryCount /\ Moves(t, "poll", frame[t].dev + 1, "none", FALSE)
        \/ frame[t].caller = "information key" /\ Moves(t, "idle", 0, "none", FALSE)
    BY <1>1, <1>2, <1>3, FramesMove DEF Information, Return, NextBattery, AfterUpdate,
       CheckStages, UpdateStages, DeducingStages, BatteryStages
  <2>2. Flags' /\ raced' = raced /\ AcAdapterCount' = AcAdapterCount
    BY <1>1, <1>3 DEF Flags, Placed, At, batteries, flags, CheckStages, UpdateStages,
       DeducingStages, BatteryStages, Information, Return, NextBattery, AfterUpdate, Frame
  <2>3. Lands(t)
    BY <1>1, <1>3, <2>1, <2>2, BatteryConstants, LoopsStay DEF Lands, Moves, Placed, At,
       KeyCallers, CheckStages, UpdateStages, DeducingStages, BatteryStages, Information,
       Return, NextBattery, AfterUpdate
  <2>4. KeepsTelling(t)
    BY <1>1, <1>3, <2>1, <2>2 DEF KeepsTelling, Moves, Placed, At, Busy, PowerWriters, flags,
       KeyCallers, CheckStages, UpdateStages, DeducingStages, BatteryStages, Information,
       Return, NextBattery, AfterUpdate
  <2>5. KeepsPolling(t)
    BY <1>1, <1>3, <2>1, <2>2 DEF KeepsPolling, Moves, At, Deciding, Placed, flags, KeyCallers,
       Flags, CheckStages, UpdateStages, DeducingStages, BatteryStages, Information, Return,
       NextBattery, AfterUpdate
  <2> QED BY <2>3, <2>4, <2>5 DEF StepOf
<1>4. ASSUME Status(t) PROVE StepOf(t)
  <2>1. \/ frame[t].caller = "status key" /\ Moves(t, "idle", 0, "none", FALSE)
        \/ frame[t].caller # "status key" /\ Moves(t, "publish", frame[t].dev, frame[t].caller, frame[t].reg)
    BY <1>1, <1>2, <1>4, FramesMove DEF Status, CheckStages, UpdateStages, DeducingStages,
       BatteryStages
  <2>2. Flags' /\ raced' = raced /\ AcAdapterCount' = AcAdapterCount
    BY <1>1, <1>4 DEF Flags, Placed, At, batteries, flags, CheckStages, UpdateStages,
       DeducingStages, BatteryStages, Status, Deduces, Frame
  <2>3. Lands(t)
    BY <1>1, <1>4, <2>1, <2>2, BatteryConstants, LoopsStay DEF Lands, Moves, Placed, At,
       KeyCallers, CheckStages, UpdateStages, DeducingStages, BatteryStages, Status, Deduces
  <2>4. KeepsTelling(t)
    BY <1>1, <1>4, <2>1, <2>2 DEF KeepsTelling, Moves, Placed, At, Busy, PowerWriters, flags,
       KeyCallers, CheckStages, UpdateStages, DeducingStages, BatteryStages, Status, Deduces
  <2>5. KeepsPolling(t)
    BY <1>1, <1>4, <2>1, <2>2 DEF KeepsPolling, Moves, At, Deciding, Placed, flags, KeyCallers,
       Flags, CheckStages, UpdateStages, DeducingStages, BatteryStages, Status, Deduces
  <2> QED BY <2>3, <2>4, <2>5 DEF StepOf
<1>5. ASSUME Publish(t) PROVE StepOf(t)
  <2>1. \/ frame[t].caller = "check" /\ Moves(t, "join", frame[t].dev, frame[t].caller, frame[t].reg)
        \/ frame[t].caller = "update" /\ AcAdapterCount = 0 /\ Moves(t, "deduce", frame[t].dev, frame[t].caller, frame[t].reg)
        \/ frame[t].caller = "update" /\ AcAdapterCount # 0 /\ t \in Handlers /\ frame[t].dev = BatteryCount /\ Moves(t, "tell", 0, "none", FALSE)
        \/ frame[t].caller = "update" /\ AcAdapterCount # 0 /\ t \notin Handlers /\ frame[t].dev = BatteryCount /\ Moves(t, "idle", 0, "none", FALSE)
        \/ frame[t].caller = "update" /\ AcAdapterCount # 0 /\ frame[t].dev # BatteryCount /\ Moves(t, "poll", frame[t].dev + 1, "none", FALSE)
        \/ frame[t].caller = "information key" /\ Moves(t, "idle", 0, "none", FALSE)
    BY <1>1, <1>2, <1>5, FramesMove DEF Publish, Return, NextBattery, AfterUpdate, CheckStages,
       UpdateStages, DeducingStages, BatteryStages
  <2>2. Flags' /\ raced' = raced /\ AcAdapterCount' = AcAdapterCount
    BY <1>1, <1>5 DEF Flags, Placed, At, batteries, flags, CheckStages, UpdateStages,
       DeducingStages, BatteryStages, Publish, Return, NextBattery, AfterUpdate, Frame
  <2>3. Lands(t)
    BY <1>1, <1>5, <2>1, <2>2, BatteryConstants, LoopsStay DEF Lands, Moves, Placed, At,
       KeyCallers, CheckStages, UpdateStages, DeducingStages, BatteryStages, Publish, Return,
       NextBattery, AfterUpdate
  <2>4. KeepsTelling(t)
    BY <1>1, <1>5, <2>1, <2>2 DEF KeepsTelling, Moves, Placed, At, Busy, PowerWriters, flags,
       KeyCallers, CheckStages, UpdateStages, DeducingStages, BatteryStages, Publish, Return,
       NextBattery, AfterUpdate
  <2>5. KeepsPolling(t)
    BY <1>1, <1>5, <2>1, <2>2 DEF KeepsPolling, Moves, At, Deciding, Placed, flags, KeyCallers,
       Flags, CheckStages, UpdateStages, DeducingStages, BatteryStages, Publish, Return,
       NextBattery, AfterUpdate
  <2> QED BY <2>3, <2>4, <2>5 DEF StepOf
<1> QED BY <1>3, <1>4, <1>5 DEF BatteryInformation

-----------------------------------------------------------------------------
(* The invariant *)

(***************************************************************************)
(* A thread that has loaded the power or set out to decide is busy.        *)
(***************************************************************************)
LEMMA LoadersAreBusy ==
  ASSUME BatteryTypeOK, NEW t \in Threads
  PROVE  /\ frame[t].at \in {"deduced", "telling", "telling deduced"} => Busy(t)
         /\ Deciding(t) => t \in Handlers \cup {Poller}
         /\ At(t, "idle") => ~Busy(t) /\ ~Deciding(t) /\ frame[t].caller \notin KeyCallers
  BY DEF BatteryTypeOK, Placed, Busy, At, Deciding, CheckStages, UpdateStages, DeducingStages,
         BatteryStages, KeyCallers

(***************************************************************************)
(* The types need the thread that moved only.                              *)
(***************************************************************************)
LEMMA OthersStayPlaced ==
  ASSUME BatteryTypeOK, NEW t \in Threads, Flags', AcAdapterCount' = AcAdapterCount,
         frame' \in [Threads -> Frame], \A u \in Threads \ {t} : frame'[u] = frame[u], Placed(t)'
  PROVE  BatteryTypeOK'
<1>1. \A u \in Threads \ {t} : Placed(u)'
  BY DEF BatteryTypeOK, Placed
<1> QED BY <1>1 DEF BatteryTypeOK

(***************************************************************************)
(* A step of a thread that runs the driver's code keeps the invariant.     *)
(***************************************************************************)
LEMMA StepKeepsInv ==
  ASSUME BatteryInv, NEW t \in Threads, StepOf(t)
  PROVE  BatteryInv'
<1>1. BatteryTypeOK /\ BatteryTypeOK' /\ AcAdapterCount' = AcAdapterCount /\ raced' = raced
  BY OthersStayPlaced DEF BatteryInv, StepOf, Lands
<1>2. /\ Deciding(t)' => t \in Handlers \cup {Poller}
      /\ \A u \in Threads : frame[u].at \in {"deduced", "telling", "telling deduced"} => Busy(u)
  <2>2. Deciding(t)' => t \in Handlers \cup {Poller}
    BY <1>1 DEF BatteryTypeOK, Placed, Deciding, CheckStages, UpdateStages, DeducingStages,
       BatteryStages
  <2> QED BY <1>1, <2>2, LoadersAreBusy
<1>3. /\ PowerWriters' = PowerWriters /\ PowerWriters \subseteq Threads
      /\ \A u \in Threads \ {t} : Busy(u)' = Busy(u) /\ Deciding(u)' = Deciding(u)
  BY <1>1 DEF StepOf, Lands, PowerWriters, Threads, Busy, Deciding, At
<1>4. PollsOrDecides'
  <2> SUFFICES ASSUME AcAdapterCount > 0 \/ ~raced, ~ExternalPowerConnected', ~armed'
               PROVE  \E u \in Handlers \cup {Poller} : Deciding(u)'
    BY <1>1 DEF PollsOrDecides
  <2>1. CASE ExternalPowerConnected
    <3>1. ~(At(t, "deduced") /\ ~frame[t].reg)
      <4> SUFFICES ASSUME At(t, "deduced") PROVE frame[t].reg
        OBVIOUS
      <4>1. AcAdapterCount = 0 /\ t \in PowerWriters
        BY <1>1 DEF BatteryTypeOK, Placed, At, PowerWriters, CheckStages, UpdateStages,
           DeducingStages
      <4>2. LoadsHold
        BY <4>1 DEF BatteryInv, Unraced
      <4> QED BY <2>1, <4>1, <4>2 DEF LoadsHold
    <3> QED BY <1>2, <2>1, <3>1 DEF StepOf, KeepsPolling
  <2>2. CASE ~ExternalPowerConnected
    <3>1. armed \/ \E u \in Handlers \cup {Poller} : Deciding(u)
      BY <2>2 DEF BatteryInv, PollsOrDecides
    <3>2. CASE armed
      BY <1>2, <3>2 DEF StepOf, KeepsPolling
    <3>3. ASSUME NEW u \in Handlers \cup {Poller}, Deciding(u)
          PROVE  \E w \in Handlers \cup {Poller} : Deciding(w)'
      BY <1>3, <3>3 DEF StepOf, KeepsPolling, Threads
    <3> QED BY <3>1, <3>2, <3>3
  <2> QED BY <2>1, <2>2
<1>5. Unraced'
  <2> SUFFICES ASSUME ~raced PROVE OneDecides' /\ LoadsHold' /\ ToldOrTells'
    BY <1>1 DEF Unraced
  <2>1. OneDecides /\ LoadsHold /\ ToldOrTells
    BY DEF BatteryInv, Unraced
  <2>2. KeepsTelling(t)
    BY DEF StepOf
  <2>3. OneDecides'
    BY <1>3, <2>1, <2>2 DEF OneDecides, KeepsTelling
  <2>4. LoadsHold'
    <3> SUFFICES ASSUME NEW u \in PowerWriters
                 PROVE  /\ At(u, "deduced")' => (ExternalPowerConnected' => frame'[u].reg)
                        /\ frame'[u].at \in {"telling", "telling deduced"} =>
                             frame'[u].reg = ExternalPowerConnected'
      BY <1>3 DEF LoadsHold
    <3>1. CASE u = t
      BY <2>2, <3>1 DEF KeepsTelling
    <3>2. CASE u # t
      <4>1. frame'[u] = frame[u]
        BY <1>3, <3>2 DEF StepOf, Lands
      <4>2. CASE ExternalPowerConnected' = ExternalPowerConnected
        BY <2>1, <4>1, <4>2 DEF LoadsHold, At
      <4>3. CASE ExternalPowerConnected' # ExternalPowerConnected
        BY <1>2, <1>3, <2>1, <2>2, <3>2, <4>1, <4>3 DEF KeepsTelling, OneDecides, At
      <4> QED BY <4>2, <4>3
    <3> QED BY <3>1, <3>2
  <2>5. ToldOrTells'
    <3> SUFFICES ASSUME \A u \in PowerWriters : ~Busy(u)'
                 PROVE  told' = ExternalPowerConnected'
      BY <1>3 DEF ToldOrTells
    <3>1. CASE t \in PowerWriters /\ Busy(t)
      BY <2>1, <2>2, <3>1 DEF KeepsTelling, LoadsHold
    <3>2. CASE ~(t \in PowerWriters /\ Busy(t))
      BY <1>3, <2>1, <2>2, <3>2 DEF KeepsTelling, ToldOrTells
    <3> QED BY <3>1, <3>2
  <2> QED BY <2>3, <2>4, <2>5
<1> QED BY <1>1, <1>4, <1>5 DEF BatteryInv

(***************************************************************************)
(* Whoever calls CheckDevices will decide, and races with whoever is busy. *)
(***************************************************************************)
LEMMA EventKeepsInv ==
  ASSUME BatteryInv, NEW t \in Handlers, Event(t), AcAdapterCount' = AcAdapterCount
  PROVE  BatteryInv'
<1>1. BatteryTypeOK /\ t \in Threads /\ "cancel" \in Stages /\ At(t, "idle")
  BY DEF BatteryInv, Threads, Event, Stages, CheckStages
<1>2. Moves(t, "cancel", frame[t].dev, frame[t].caller, frame[t].reg)
  BY <1>1, FramesMove DEF Event, BatteryTypeOK
<1>3. frame[t].caller \notin KeyCallers
  BY <1>1, LoadersAreBusy
<1>4. Flags' /\ Placed(t)' /\ Deciding(t)' /\ Busy(t)'
  BY <1>1, <1>2, <1>3 DEF BatteryTypeOK, Flags, Event, batteries, flags, Placed, Moves,
     CheckStages,
       UpdateStages, DeducingStages, BatteryStages, Deciding, Busy, At
<1>5. BatteryTypeOK'
  BY <1>1, <1>2, <1>4, OthersStayPlaced DEF Moves
<1>6. PollsOrDecides'
  BY <1>4 DEF PollsOrDecides
<1>7. Unraced'
  <2> SUFFICES ASSUME Quiet(PowerWriters) PROVE OneDecides' /\ LoadsHold' /\ ToldOrTells'
    BY DEF Unraced, Event
  <2>1. PowerWriters' = PowerWriters /\ PowerWriters \subseteq Threads /\ t \in PowerWriters
    BY DEF PowerWriters, Threads
  <2>2. \A u \in PowerWriters \ {t} : ~Busy(u) /\ frame'[u] = frame[u]
    BY <1>2, <2>1 DEF Moves, Quiet, Busy
  <2>3. \A u \in PowerWriters \ {t} : ~Busy(u)'
    BY <2>2 DEF Busy, At
  <2>4. \A u \in PowerWriters : frame'[u].at \notin {"deduced", "telling", "telling deduced"}
    BY <1>1, <1>2, <2>1, <2>2, LoadersAreBusy DEF Moves
  <2> QED BY <1>4, <2>1, <2>3, <2>4 DEF OneDecides, LoadsHold, ToldOrTells, At
<1> QED BY <1>5, <1>6, <1>7 DEF BatteryInv

(***************************************************************************)
(* A key that is read decides nothing.                                     *)
(***************************************************************************)
LEMMA ReadKeepsInv ==
  ASSUME BatteryInv, NEW t \in Readers, ReadKey(t), AcAdapterCount' = AcAdapterCount
  PROVE  BatteryInv'
<1>1. BatteryTypeOK /\ t \in Threads /\ At(t, "idle") /\ frame \in [Threads -> Frame]
  BY DEF BatteryInv, Threads, ReadKey, BatteryTypeOK
<1>2. PICK b \in Batteries, stage \in {"information", "status"}, c \in KeyCallers :
        /\ c = "status key" => stage = "status"
        /\ frame' = [frame EXCEPT ![t] = FrameOf(stage, b, c, FALSE)]
  <2>1. \A x \in Stages, y \in KeyCallers, z \in Nat :
          [Idle EXCEPT !.at = x, !.dev = z, !.caller = y] = FrameOf(x, z, y, FALSE)
    <3> SUFFICES ASSUME NEW x \in Stages, NEW y \in KeyCallers, NEW z \in Nat
                 PROVE  [Idle EXCEPT !.at = x, !.dev = z, !.caller = y] = FrameOf(x, z, y,
                 FALSE)
      OBVIOUS
    <3> DEFINE g == [Idle EXCEPT !.at = x, !.dev = z, !.caller = y]
    <3>1. g \in Frame /\ g.at = x /\ g.dev = z /\ g.caller = y /\ g.reg = FALSE
      BY DEF Frame, Idle, Stages
    <3>2. \A f \in Frame : f = FrameOf(f.at, f.dev, f.caller, f.reg)
      BY DEF Frame, FrameOf
    <3> HIDE DEF g
    <3>3. g = FrameOf(x, z, y, FALSE)
      BY <3>1, <3>2
    <3> QED BY <3>3 DEF g
  <2>2. PICK b \in Batteries, s \in {<<"information", "information key">>, <<"status", "status key">>} :
          frame' = [frame EXCEPT ![t] = [Idle EXCEPT !.at = s[1], !.dev = b, !.caller = s[2]]]
    BY DEF ReadKey
  <2>3. \/ s[1] = "information" /\ s[2] = "information key"
        \/ s[1] = "status" /\ s[2] = "status key"
    <3>1. CASE s = <<"information", "information key">>
      BY <3>1
    <3>2. CASE s = <<"status", "status key">>
      BY <3>2
    <3> QED BY <3>1, <3>2
  <2>4. s[1] \in Stages /\ s[2] \in KeyCallers /\ b \in Nat
    <3>1. b \in Nat
      BY BatteryConstants
    <3>2. /\ {"information", "status"} \subseteq Stages
          /\ {"information key", "status key"} \subseteq KeyCallers
      BY DEF Stages, BatteryStages, KeyCallers
    <3> QED BY <2>3, <3>1, <3>2
  <2>5. frame' = [frame EXCEPT ![t] = FrameOf(s[1], b, s[2], FALSE)]
    BY <2>1, <2>2, <2>4
  <2> QED BY <2>3, <2>4, <2>5
<1>3. Moves(t, stage, b, c, FALSE)
  <2>1. b \in Nat /\ stage \in Stages
    BY BatteryConstants DEF Batteries, Stages, BatteryStages
  <2>2. FrameOf(stage, b, c, FALSE) \in Frame
    BY <2>1 DEF FrameOf, Frame
  <2> QED BY <1>1, <1>2, <2>2, FrameStored
<1>4. Flags' /\ Placed(t)' /\ ~Busy(t)' /\ raced' = raced
  BY <1>1, <1>2, <1>3 DEF BatteryTypeOK, Flags, ReadKey, batteries, flags, Placed, Moves,
     CheckStages,
       UpdateStages, DeducingStages, BatteryStages, KeyCallers, Busy, At
<1>5. BatteryTypeOK'
  BY <1>1, <1>3, <1>4, OthersStayPlaced DEF Moves
<1>6. /\ PowerWriters' = PowerWriters /\ PowerWriters \subseteq Threads
      /\ ~Busy(t) /\ ~Deciding(t)
      /\ \A u \in Threads \ {t} : frame'[u] = frame[u]
  BY <1>1, <1>3, LoadersAreBusy DEF PowerWriters, Threads, Moves
<1>7. /\ \A u \in Threads : Busy(u)' => Busy(u)
      /\ \A u \in Threads : Busy(u) => Busy(u)'
      /\ \A u \in Threads : Deciding(u) => Deciding(u)'
  BY <1>4, <1>6 DEF Busy, Deciding, At
<1>8. armed' = armed /\ told' = told /\ ExternalPowerConnected' = ExternalPowerConnected
  BY DEF ReadKey, flags
<1>9. PollsOrDecides'
  BY <1>4, <1>7, <1>8 DEF BatteryInv, PollsOrDecides, Threads
<1>10. Unraced'
  <2> SUFFICES ASSUME ~raced PROVE OneDecides' /\ LoadsHold' /\ ToldOrTells'
    BY <1>4 DEF Unraced
  <2>1. OneDecides /\ LoadsHold /\ ToldOrTells
    BY DEF BatteryInv, Unraced
  <2>2. frame'[t].at \notin {"deduced", "telling", "telling deduced"}
    BY <1>2, <1>3 DEF Moves
  <2>3. OneDecides'
    BY <1>6, <1>7, <2>1 DEF OneDecides
  <2>4. LoadsHold'
    BY <1>6, <1>8, <2>1, <2>2 DEF LoadsHold, At
  <2>5. ToldOrTells'
    BY <1>6, <1>7, <1>8, <2>1 DEF ToldOrTells
  <2> QED BY <2>3, <2>4, <2>5
<1> QED BY <1>5, <1>9, <1>10 DEF BatteryInv

(***************************************************************************)
(* The timeout is gone, and the poller decides on the next.                *)
(***************************************************************************)
LEMMA FireKeepsInv ==
  ASSUME BatteryInv, Fire, AcAdapterCount' = AcAdapterCount
  PROVE  BatteryInv'
<1>1. BatteryTypeOK /\ Poller \in Threads /\ "decide" \in Stages /\ At(Poller, "idle")
  BY DEF BatteryInv, Threads, Fire, Stages, UpdateStages
<1>2. Moves(Poller, "decide", frame[Poller].dev, frame[Poller].caller, frame[Poller].reg)
  BY <1>1, FramesMove DEF Fire, BatteryTypeOK
<1>3. frame[Poller].caller \notin KeyCallers
  BY <1>1, LoadersAreBusy
<1>4. Flags'
  <2>1. raced' \in BOOLEAN
    BY DEF Fire
  <2> QED BY <1>1, <2>1 DEF BatteryTypeOK, Flags, Fire, batteries, flags
<1>5. Placed(Poller)' /\ Deciding(Poller)' /\ Busy(Poller)'
  BY <1>1, <1>2, <1>3 DEF Placed, Moves, CheckStages, UpdateStages, DeducingStages,
     BatteryStages,
       Deciding, Busy, At
<1>6. BatteryTypeOK'
  BY <1>1, <1>2, <1>4, <1>5, OthersStayPlaced DEF Moves
<1>7. PollsOrDecides'
  BY <1>5 DEF PollsOrDecides
<1>8. Unraced'
  <2> SUFFICES ASSUME ~raced' PROVE OneDecides' /\ LoadsHold' /\ ToldOrTells'
    BY DEF Unraced
  <2>1. /\ OneDecides /\ LoadsHold /\ ToldOrTells
        /\ Poller \in PowerWriters => Quiet(Handlers)
    BY DEF BatteryInv, Unraced, Fire
  <2>2. /\ PowerWriters' = PowerWriters /\ PowerWriters \subseteq Threads
        /\ PowerWriters \subseteq Handlers \cup {Poller} /\ Poller \notin Handlers
        /\ \A u \in Threads \ {Poller} : frame'[u] = frame[u]
        /\ frame'[Poller].at = "decide"
        /\ told' = told /\ ExternalPowerConnected' = ExternalPowerConnected
    BY <1>2, BatteryAssumption DEF PowerWriters, Threads, Moves, Fire, flags
  <2>3. \A u \in Threads \ {Poller} : Busy(u)' = Busy(u)
    BY <2>2 DEF Busy, At
  <2>4. LoadsHold'
    BY <2>1, <2>2 DEF LoadsHold, At
  <2>5. CASE Poller \in PowerWriters
    <3>1. \A u \in PowerWriters \ {Poller} : ~Busy(u)'
      BY <2>1, <2>2, <2>3, <2>5 DEF Quiet, Busy
    <3> QED BY <1>5, <2>2, <2>4, <2>5, <3>1 DEF OneDecides, ToldOrTells
  <2>6. CASE Poller \notin PowerWriters
    BY <2>1, <2>2, <2>3, <2>4, <2>6 DEF OneDecides, ToldOrTells
  <2> QED BY <2>5, <2>6
<1> QED BY <1>6, <1>7, <1>8 DEF BatteryInv

LEMMA BatteryInitInv == BatteryInit => BatteryInv
<1> SUFFICES ASSUME BatteryInit PROVE BatteryInv
  OBVIOUS
<1>1. Starter \in Threads /\ Starter \in Handlers
  BY BatteryAssumption DEF Threads
<1>2. /\ [Idle EXCEPT !.at = "cancel"] \in Frame /\ Idle \in Frame
      /\ [Idle EXCEPT !.at = "cancel"].at = "cancel" /\ [Idle EXCEPT !.at = "cancel"].caller = "none"
      /\ Idle.at = "idle" /\ Idle.caller = "none"
  BY DEF Idle, Frame, Stages, CheckStages
<1>3. frame \in [Threads -> Frame]
  BY <1>2 DEF BatteryInit
<1>4. /\ At(Starter, "cancel")
      /\ \A t \in Threads : /\ t # Starter => At(t, "idle")
                            /\ frame[t].caller = "none"
  <2> DEFINE first == [Idle EXCEPT !.at = "cancel"]
             other == Idle
  <2>1. \A t \in Threads : frame[t] = IF t = Starter THEN first ELSE other
    BY DEF BatteryInit
  <2>2. /\ first.at = "cancel" /\ first.caller = "none"
        /\ other.at = "idle" /\ other.caller = "none"
    BY <1>2
  <2> HIDE DEF first, other
  <2> QED BY <1>1, <2>1, <2>2 DEF At
<1>5. \A t \in Threads : Placed(t)
  BY <1>1, <1>4 DEF Placed, At, CheckStages, UpdateStages, DeducingStages, BatteryStages,
     KeyCallers
<1>6. AcAdapterCount \in Nat /\ Flags
  <2>1. AcAdapterCount \in Nat
    BY BatteryAssumption DEF BatteryInit
  <2>2. [b \in Batteries |-> FALSE] \in [Batteries -> BOOLEAN]
        /\ [b \in Batteries |-> TRUE] \in [Batteries -> BOOLEAN]
    OBVIOUS
  <2>3. Flags
    BY <2>2 DEF BatteryInit, Flags
  <2> QED BY <2>1, <2>3
<1>7. PollsOrDecides
  <2>1. Deciding(Starter)
    BY <1>4 DEF Deciding, At, CheckStages
  <2> QED BY <1>1, <2>1 DEF PollsOrDecides
<1>8. PowerWriters \subseteq Threads
  BY DEF PowerWriters, Threads
<1>9. OneDecides
  BY <1>4, <1>8 DEF OneDecides, Busy
<1>10. LoadsHold
  BY <1>4, <1>8 DEF LoadsHold, At
<1>11. ToldOrTells
  BY DEF ToldOrTells, BatteryInit
<1> QED BY <1>3, <1>5, <1>6, <1>7, <1>9, <1>10, <1>11 DEF BatteryInv, BatteryTypeOK, Unraced

(***************************************************************************)
(* What the driver relies on holds in every state it reaches.              *)
(***************************************************************************)
THEOREM BatteryInvariant == BatterySpec => []BatteryInv
<1>1. BatteryInv /\ [BatteryNext]_vars => BatteryInv'
  <2> SUFFICES ASSUME BatteryInv, [BatteryNext]_vars PROVE BatteryInv'
    OBVIOUS
  <2>1. ASSUME NEW t \in Threads, Run(t), AcAdapterCount' = AcAdapterCount PROVE BatteryInv'
    BY <2>1, CheckStep, UpdateStep, InformationStep, StepKeepsInv DEF Run, BatteryInv
  <2>2. CASE UNCHANGED vars
    <3> USE <2>2 DEF vars, batteries, flags
    <3>1. BatteryTypeOK'
      BY DEF BatteryInv, BatteryTypeOK, Flags, Placed
    <3>2. PollsOrDecides'
      BY DEF BatteryInv, PollsOrDecides, Deciding
    <3>3. Unraced'
      BY DEF BatteryInv, Unraced, OneDecides, LoadsHold, ToldOrTells, PowerWriters, Busy, At
    <3> QED BY <3>1, <3>2, <3>3 DEF BatteryInv
  <2> QED BY <2>1, <2>2, EventKeepsInv, ReadKeepsInv, FireKeepsInv DEF BatteryNext
<1> QED BY <1>1, BatteryInitInv, PTL DEF BatterySpec

(***************************************************************************)
(* Off the adapter the driver is left with a timeout to poll at, for any   *)
(* number of batteries, adapters and threads.                              *)
(***************************************************************************)
THEOREM OnBatteryItPolls == BatterySpec => []OnBatteryIsPolled
<1>1. BatteryInv => OnBatteryIsPolled
  BY DEF BatteryInv, PollsOrDecides, OnBatteryIsPolled, Settled, Quiet, Deciding, At,
     CheckStages,
         BatteryStages, KeyCallers, BatteryTypeOK, Placed, Threads
<1> QED BY <1>1, BatteryInvariant, PTL

(***************************************************************************)
(* The root domain is left with the power source the driver goes by.       *)
(***************************************************************************)
THEOREM RootDomainIsTold == BatterySpec => []PowerIsTold
<1>1. BatteryInv => PowerIsTold
  BY DEF BatteryInv, Unraced, ToldOrTells, PowerIsTold, Quiet, Busy
<1> QED BY <1>1, BatteryInvariant, PTL

=============================================================================
