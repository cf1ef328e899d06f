--------------------------- MODULE IntelCPUMonitor ---------------------------
(***************************************************************************)
(* The IntelCPUMonitor plug-in: the timer that samples the performance     *)
(* counters and the P-state of every processor once a second, the keys     *)
(* "TC<i>D", "FRC<i>" and "MC<i>C" it serves from what it sampled, and the *)
(* start, stop and wake that run on other threads.                         *)
(*                                                                         *)
(* A reading is represented by the logical processor it was taken from:    *)
(* what the properties ask is whose reading a key reports.  Only the ratio *)
(* of the two fixed counters is computed as the code computes it.          *)
(***************************************************************************)
EXTENDS Integers, FiniteSets

CONSTANTS
  Machines,       (* processors the plug-in may find                       *)
  CounterMod,     (* the fixed counters count modulo 2^40 or 2^48          *)
  UInt64Mod,      (* the variables that keep them, modulo 2^64             *)
  MaxAdvance,     (* bound: most a counter advances between two samples    *)
  BaseFreqRatio,  (* MSR_PLATFORM_INFO                                     *)
  Unreadable      (* sets of processors whose readout may be invalid       *)

\* threads > count means two logical processors per core, numbered in pairs.
ASSUME MachineAssumption ==
  /\ \A m \in Machines :
       /\ m.arch \in {"other", "core", "nehalem", "sandy"}
       /\ m.count \in Nat \ {0} /\ m.threads \in {m.count, 2 * m.count}
  /\ CounterMod \in Nat \ {0} /\ UInt64Mod \in Nat /\ UInt64Mod > CounterMod
  /\ BaseFreqRatio \in Nat \ {0} /\ MaxAdvance \in 1..(CounterMod - 1)

VARIABLES
  cpu,          (* what probe found                                         *)
  phase,        (* how far start and stop got                               *)
  Active, LoopLock,
  armed,        (* TimerEventSource has a time-out pending                  *)
  round,        (* how far loopTimerEvent got                               *)
  registered,   (* cores whose keys are registered                          *)
  pm,           (* which array setPowerState clears next                    *)
  counting,     (* hardware: fixed counters enabled                         *)
  hw,           (* hardware: their values                                   *)
  InitFlags, UCC, UCR, lastUCC, lastUCR,
  GlobalState,  (* processor whose MSR_IA32_PERF_STS is kept for a core     *)
  GlobalThermalValue,  (* processor whose readout is kept, or Nobody        *)
  Frequency, Voltage,
  span,         (* history: what the counters counted in the last round     *)
  spoiled,      (* history: a wake or a wrap came between its samples       *)
  late          (* history: a round was under way when the timer was        *)
                (* cancelled                                                *)

life == <<cpu, phase, Active, registered>>
sampled == <<counting, hw, InitFlags, UCC, UCR, lastUCC, lastUCR>>
told == <<GlobalState, Frequency, Voltage>>
ghosts == <<span, spoiled, late>>
cpuVars == <<life, LoopLock, armed, round, pm, sampled, told, GlobalThermalValue, ghosts>>

Nobody == -1
Cores == 0..(cpu.count - 1)
Logical == 0..(cpu.threads - 1)
PerCore == cpu.threads \div cpu.count
SandyArch == cpu.arch = "sandy"
Zero == [c \in Cores |-> 0]

-----------------------------------------------------------------------------
(* A round of loopTimerEvent.                                               *)

\* The time a counter says has passed.  A counter that fell behind is taken for
\* one that wrapped at 2^64, less one.
Delta(last, now) == IF last > now THEN UInt64Mod - 1 - last + now ELSE now - last

\* (float)a * BaseFreqRatio / (float)b + 0.5, cut to an integer.
Ratio(a, b) == (2 * a * BaseFreqRatio + b) \div (2 * b)

\* UCState on every processor: the counters are enabled if they were not since
\* the last wake, and what was read last time makes room for what is read now.
Advanced(c, kind, by) == IF counting[c] THEN (hw[c][kind] + by[c][kind]) % CounterMod
                                        ELSE hw[c][kind]

UCState_ReadsFirst(by) ==
  /\ hw' = [c \in Cores |-> [ucc |-> Advanced(c, "ucc", by), ucr |-> Advanced(c, "ucr", by)]]
  /\ counting' = [c \in Cores |-> counting[c] \/ ~InitFlags[c]]
  /\ InitFlags' = [c \in Cores |-> TRUE]
  /\ UCC' = [c \in Cores |-> hw'[c].ucc] /\ UCR' = [c \in Cores |-> hw'[c].ucr]
  /\ lastUCC' = UCC' /\ lastUCR' = UCR
UCState(by) ==
  /\ hw' = [c \in Cores |-> [ucc |-> Advanced(c, "ucc", by), ucr |-> Advanced(c, "ucr", by)]]
  /\ counting' = [c \in Cores |-> counting[c] \/ ~InitFlags[c]]
  /\ InitFlags' = [c \in Cores |-> TRUE]
  /\ lastUCC' = UCC /\ lastUCR' = UCR
  /\ UCC' = [c \in Cores |-> hw'[c].ucc] /\ UCR' = [c \in Cores |-> hw'[c].ucr]

Nothing == [c \in Cores |-> [ucc |-> 0, ucr |-> 0]]
Advances == [Cores -> [ucc : 0..MaxAdvance, ucr : 0..MaxAdvance]]

\* IntelState and IntelState2: every logical processor writes what it reads to
\* its core's entry, the last one stays.
Readouts == {[c \in Cores |-> PerCore * c + t[c]] : t \in [Cores -> 0..(PerCore - 1)]}

\* The round that was entered by the timer or by Activate.  One that finds the
\* lock taken returns and does not set the timer again.
EnterLoop ==
  /\ LoopLock' = TRUE
  /\ round' = IF LoopLock THEN round ELSE "locked"
  /\ span' = IF LoopLock THEN span ELSE Nothing
  /\ spoiled' = (LoopLock /\ spoiled)
  /\ UNCHANGED late

FirstSample ==
  /\ round = "locked" /\ SandyArch
  /\ \E by \in Advances : UCState(by)
  /\ round' = "slept"
  /\ UNCHANGED <<life, LoopLock, armed, pm, told, GlobalThermalValue, ghosts>>

\* After IOSleep(2).
SecondSample ==
  /\ round = "slept"
  /\ \E by \in Advances :
       /\ UCState(by)
       /\ span' = [c \in Cores |-> IF counting[c] THEN by[c] ELSE Nothing[c]]
  /\ round' = "sampled"
  /\ spoiled' = (spoiled \/ \E c \in Cores : hw'[c].ucc < hw[c].ucc \/ hw'[c].ucr < hw[c].ucr)
  /\ UNCHANGED <<life, LoopLock, armed, pm, told, GlobalThermalValue, late>>

ReadState ==
  /\ round = IF SandyArch THEN "sampled" ELSE "locked"
  /\ GlobalState' \in Readouts
  /\ round' = "read"
  /\ UNCHANGED <<life, LoopLock, armed, pm, sampled, Frequency, Voltage, GlobalThermalValue, ghosts>>

\* IntelGetFrequency: the measured ratio, or the P-state when the reference
\* counter did not move.
IntelGetFrequency(c) ==
  LET reference == Delta(lastUCR[c], UCR[c])
  IN  IF SandyArch /\ reference > 0
      THEN [of |-> c, ratio |-> Ratio(Delta(lastUCC[c], UCC[c]), reference)]
      ELSE [of |-> GlobalState[c], ratio |-> 0]

\* One voltage for the package: of the processor that wrote last, of the last
\* core, or a constant.
VoltageFrom == CASE SandyArch -> Logical
                 [] cpu.arch = "core" -> {GlobalState[cpu.count - 1]}
                 [] OTHER -> {Nobody}

\* The end of a round: the lock is given up and the timer set, whatever became
\* of the monitor meanwhile.  The first round runs inside Activate.
EndRound_NotAgain ==
  /\ round = "read"
  /\ Frequency' = [c \in Cores |-> IntelGetFrequency(c)]
  /\ Voltage' \in VoltageFrom
  /\ LoopLock' = FALSE
  /\ round' = "idle"
  /\ armed' = (phase # "started")
  /\ phase' = IF phase = "activating" THEN "registering" ELSE phase
  /\ UNCHANGED <<cpu, Active, registered, pm, sampled, GlobalState, GlobalThermalValue, ghosts>>
EndRound ==
  /\ round = "read"
  /\ Frequency' = [c \in Cores |-> IntelGetFrequency(c)]
  /\ Voltage' \in VoltageFrom
  /\ LoopLock' = FALSE
  /\ round' = "idle"
  /\ armed' = TRUE
  /\ phase' = IF phase = "activating" THEN "registering" ELSE phase
  /\ UNCHANGED <<cpu, Active, registered, pm, sampled, GlobalState, GlobalThermalValue, ghosts>>

Timer ==
  /\ armed
  /\ armed' = FALSE
  /\ EnterLoop
  /\ UNCHANGED <<life, pm, sampled, told, GlobalThermalValue>>

-----------------------------------------------------------------------------
(* start, stop, wake and the reading of a temperature, on other threads.    *)

\* start up to the call of Activate.
Activate ==
  /\ phase = "probed"
  /\ phase' = "activating"
  /\ Active' = TRUE
  /\ EnterLoop
  /\ UNCHANGED <<cpu, registered, armed, pm, sampled, told, GlobalThermalValue>>

\* The keys of one core.  start gives up when the temperature is refused.
Register(accepted) ==
  /\ phase = "registering"
  /\ registered' = IF accepted THEN registered + 1 ELSE registered
  /\ phase' = IF ~accepted THEN "failed" ELSE IF registered' = cpu.count THEN "started" ELSE "registering"
  /\ UNCHANGED <<cpu, Active, LoopLock, armed, round, pm, sampled, told, GlobalThermalValue, ghosts>>

\* stop, as far as Deactivate's cancelTimeout ...
Cancel_Forgets ==
  /\ phase = "started" /\ Active
  /\ phase' = "cancelled"
  /\ armed' = armed
  /\ late' = (round # "idle")
  /\ UNCHANGED <<cpu, Active, registered, LoopLock, round, pm, sampled, told, GlobalThermalValue, span, spoiled>>
Cancel ==
  /\ phase = "started" /\ Active
  /\ phase' = "cancelled"
  /\ armed' = FALSE
  /\ late' = (round # "idle")
  /\ UNCHANGED <<cpu, Active, registered, LoopLock, round, pm, sampled, told, GlobalThermalValue, span, spoiled>>

\* ... and the rest of it.  (Removing the handler changes nothing: see SMCKeys.)
Deactivate ==
  /\ phase = "cancelled"
  /\ phase' = "stopped"
  /\ Active' = FALSE
  /\ UNCHANGED <<cpu, registered, LoopLock, armed, round, pm, sampled, told, GlobalThermalValue, ghosts>>

\* The power management turns the machine on: at first, and after a sleep that
\* stopped the counters and lost their values.
PowerOn(lost) ==
  /\ phase # "absent" /\ pm = "on"
  /\ pm' = "UCC"
  /\ hw' = IF lost THEN Nothing ELSE hw
  /\ counting' = [c \in Cores |-> counting[c] /\ ~lost]
  /\ spoiled' = (spoiled \/ round # "idle")
  /\ UNCHANGED <<life, LoopLock, armed, round, InitFlags, UCC, UCR, lastUCC, lastUCR, told, GlobalThermalValue, span, late>>

\* setPowerState clears array after array while the timer may be in a round.
ClearNext == [UCC |-> "lastUCC", lastUCC |-> "UCR", UCR |-> "lastUCR", lastUCR |-> "InitFlags", InitFlags |-> "on"]

Cleared(name, array) == IF pm = name THEN Zero ELSE array

Flags == IF pm = "InitFlags" THEN [c \in Cores |-> FALSE] ELSE InitFlags

Clear ==
  /\ pm # "on"
  /\ UCC' = Cleared("UCC", UCC) /\ lastUCC' = Cleared("lastUCC", lastUCC)
  /\ UCR' = Cleared("UCR", UCR) /\ lastUCR' = Cleared("lastUCR", lastUCR)
  /\ InitFlags' = Flags
  /\ pm' = ClearNext[pm]
  /\ spoiled' = (spoiled \/ round # "idle")
  /\ UNCHANGED <<life, LoopLock, armed, round, counting, hw, told, GlobalThermalValue, span, late>>

\* A temperature key is read: IntelThermal on every processor, each of which
\* keeps the old value when its readout is not valid.
ReadThermal(unreadable) ==
  /\ registered > 0
  /\ \E readout \in Readouts :
       GlobalThermalValue' = [c \in Cores |-> IF readout[c] \in unreadable THEN GlobalThermalValue[c] ELSE readout[c]]
  /\ UNCHANGED <<life, LoopLock, armed, round, pm, sampled, told, ghosts>>

-----------------------------------------------------------------------------
CpuInit ==
  /\ cpu \in Machines
  /\ phase = IF cpu.arch = "other" THEN "absent" ELSE "probed"
  /\ Active = FALSE /\ LoopLock = FALSE /\ armed = FALSE /\ round = "idle"
  /\ registered = 0 /\ pm = "on"
  /\ counting = [c \in Cores |-> FALSE] /\ hw = Nothing
  /\ InitFlags = [c \in Cores |-> FALSE]
  /\ UCC = Zero /\ UCR = Zero /\ lastUCC = Zero /\ lastUCR = Zero
  /\ GlobalState = [c \in Cores |-> Nobody] /\ GlobalThermalValue = [c \in Cores |-> Nobody]
  /\ Frequency = [c \in Cores |-> [of |-> Nobody, ratio |-> 0]] /\ Voltage = Nobody
  /\ span = Nothing /\ spoiled = TRUE /\ late = FALSE

Round == FirstSample \/ SecondSample \/ ReadState \/ EndRound
Starting == Activate \/ \E accepted \in BOOLEAN : Register(accepted)
Stopping == Cancel \/ Deactivate

CpuNext ==
  \/ Timer \/ Round \/ Starting \/ Stopping
  \/ Clear
  \/ \E lost \in BOOLEAN : PowerOn(lost)
  \/ \E unreadable \in Unreadable : ReadThermal(unreadable)

\* The timer fires when its time has come, and the threads that run a round, a
\* start and a wake are not kept from going on.
CpuFair ==
  /\ WF_cpuVars(Timer) /\ WF_cpuVars(Round) /\ WF_cpuVars(Starting) /\ WF_cpuVars(Clear)

CpuSpec == CpuInit /\ [][CpuNext]_cpuVars /\ CpuFair

-----------------------------------------------------------------------------
CpuTypeOK ==
  /\ cpu \in Machines
  /\ phase \in {"absent", "probed", "activating", "registering", "started", "failed", "cancelled", "stopped"}
  /\ {Active, LoopLock, armed, spoiled, late} \subseteq BOOLEAN
  /\ round \in {"idle", "locked", "slept", "sampled", "read"}
  /\ registered \in 0..cpu.count
  /\ pm \in DOMAIN ClearNext \union {"on"}
  /\ counting \in [Cores -> BOOLEAN] /\ InitFlags \in [Cores -> BOOLEAN]
  /\ hw \in [Cores -> [ucc : 0..(CounterMod - 1), ucr : 0..(CounterMod - 1)]]
  /\ \A a \in {UCC, UCR, lastUCC, lastUCR} : a \in [Cores -> 0..(CounterMod - 1)]
  /\ \A a \in {GlobalState, GlobalThermalValue} : a \in [Cores -> Logical \union {Nobody}]
  /\ Frequency \in [Cores -> [of : Logical \union {Nobody}, ratio : Nat]]
  /\ Voltage \in Logical \union {Nobody}

\* Whatever was left in the counter variables by earlier rounds, by a sleep or
\* by a wake that was still clearing them when the round began: the frequency
\* is that of the two milliseconds the round measured, unless a wake or the
\* wrap of a counter fell into them; when the processor did not run at all it
\* is that of its P-state.
FrequencyIsMeasured ==
  (SandyArch /\ round = "idle" /\ ~spoiled) =>
    \A c \in Cores :
      Frequency[c] = IF span[c].ucr > 0
                     THEN [of |-> c, ratio |-> Ratio(span[c].ucc, span[c].ucr)]
                     ELSE [of |-> GlobalState[c], ratio |-> 0]

\* Once stop has cancelled the timer between two rounds there is no further one
\* (a round that was under way sets the timer again, for good).
QuietAfterStop == (phase \in {"cancelled", "stopped"} /\ ~late) => ~armed /\ round = "idle"

\* A monitor that was started goes on sampling: LoopLock never stays taken and
\* the timer never stays unset.  After a wake that stopped the counters it enables
\* them again, although setPowerState clears InitFlags at a time of its own.
RoundsGoOn ==
  /\ <>[](phase = "started") => []<>(round = "read")
  /\ (SandyArch /\ phase = "started" /\ ~counting[0]) ~> (phase # "started" \/ counting[0])
=============================================================================
