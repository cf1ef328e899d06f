------------------------ MODULE IntelCPUMonitorProofs ------------------------
(***************************************************************************)
(* Proofs that IntelCPUMonitor tells the frequency its round measured, and *)
(* that a stopped monitor stays quiet, for any machine, any width of the   *)
(* counters and any interleaving of timer, wake, start and stop.           *)
(***************************************************************************)
EXTENDS IntelCPUMonitor, TLAPS

Counts == 0..(CounterMod - 1)

CountersTypeOK ==
  /\ cpu \in Machines
  /\ counting \in [Cores -> BOOLEAN]
  /\ hw \in [Cores -> [ucc : Counts, ucr : Counts]]
  /\ span \in [Cores -> [ucc : Nat, ucr : Nat]]
  /\ LoopLock \in BOOLEAN /\ spoiled \in BOOLEAN /\ late \in BOOLEAN

\* The lock is taken as long as a round runs.
LockGuards == LoopLock <=> round # "idle"

\* Only rounds that measure take samples, and what they kept of the first one is
\* what the counters still say.
FirstSampleHolds ==
  /\ round \in {"slept", "sampled"} => SandyArch
  /\ (round = "slept" /\ ~spoiled) =>
       \A c \in Cores : UCC[c] = hw[c].ucc /\ UCR[c] = hw[c].ucr

\* Between the two samples lies what the counters counted.
SamplesDiffer ==
  (SandyArch /\ round \in {"sampled", "read"} /\ ~spoiled) =>
    \A c \in Cores : /\ Delta(lastUCC[c], UCC[c]) = span[c].ucc
                     /\ Delta(lastUCR[c], UCR[c]) = span[c].ucr

CpuInv ==
  /\ CountersTypeOK /\ LockGuards /\ FirstSampleHolds /\ SamplesDiffer
  /\ FrequencyIsMeasured

-----------------------------------------------------------------------------
(* Counters *)

(***************************************************************************)
(* A counter that did not fall behind did not wrap.                        *)
(***************************************************************************)
LEMMA CounterAdvances ==
  ASSUME NEW m \in Nat \ {0}, NEW old \in 0..(m - 1), NEW by \in 0..(m - 1)
  PROVE  /\ (old + by) % m \in 0..(m - 1)
         /\ (old + by) % m >= old => (old + by) % m = old + by
<1>1. CASE old + by < m
  <2>1. (old + by) % m = old + by
    BY <1>1
  <2> QED BY <1>1, <2>1
<1>2. CASE old + by >= m
  <2>1. (old + by) % m = old + by - m
    BY <1>2
  <2> QED BY <1>2, <2>1
<1> QED BY <1>1, <1>2

(***************************************************************************)
(* What UCState does to the counters of one processor.                     *)
(***************************************************************************)
LEMMA Sampled ==
  ASSUME CpuInv, NEW by \in Advances, UCState(by), cpu' = cpu
  PROVE  /\ counting' \in [Cores -> BOOLEAN]
         /\ hw' \in [Cores -> [ucc : Counts, ucr : Counts]]
         /\ \A c \in Cores :
              /\ UCC'[c] = hw'[c].ucc /\ UCR'[c] = hw'[c].ucr
              /\ lastUCC'[c] = UCC[c] /\ lastUCR'[c] = UCR[c]
              /\ counting[c] =>
                   /\ hw'[c].ucc >= hw[c].ucc => hw'[c].ucc = hw[c].ucc + by[c].ucc
                   /\ hw'[c].ucr >= hw[c].ucr => hw'[c].ucr = hw[c].ucr + by[c].ucr
              /\ ~counting[c] => hw'[c].ucc = hw[c].ucc /\ hw'[c].ucr = hw[c].ucr
<1>1. /\ hw \in [Cores -> [ucc : Counts, ucr : Counts]] /\ counting \in [Cores -> BOOLEAN]
      /\ CounterMod \in Nat \ {0}
  BY MachineAssumption DEF CpuInv, CountersTypeOK
<1>2. \A c \in Cores : /\ by[c].ucc \in 0..(CounterMod - 1) /\ by[c].ucr \in 0..(CounterMod - 1)
                       /\ hw[c].ucc \in 0..(CounterMod - 1) /\ hw[c].ucr \in 0..(CounterMod - 1)
  <2>1. 0..MaxAdvance \subseteq 0..(CounterMod - 1)
    BY MachineAssumption
  <2>2. by \in [Cores -> [ucc : 0..MaxAdvance, ucr : 0..MaxAdvance]]
    BY DEF Advances
  <2> QED BY <1>1, <2>1, <2>2 DEF Counts
<1>3. \A c \in Cores : hw'[c].ucc = Advanced(c, "ucc", by) /\ hw'[c].ucr = Advanced(c, "ucr", by)
  BY DEF UCState
<1>4. ASSUME NEW c \in Cores
      PROVE  /\ hw'[c].ucc \in Counts /\ hw'[c].ucr \in Counts
             /\ counting[c] =>
                  /\ hw'[c].ucc >= hw[c].ucc => hw'[c].ucc = hw[c].ucc + by[c].ucc
                  /\ hw'[c].ucr >= hw[c].ucr => hw'[c].ucr = hw[c].ucr + by[c].ucr
             /\ ~counting[c] => hw'[c].ucc = hw[c].ucc /\ hw'[c].ucr = hw[c].ucr
  <2>1. CASE counting[c]
    <3>1. /\ hw'[c].ucc = (hw[c].ucc + by[c].ucc) % CounterMod
          /\ hw'[c].ucr = (hw[c].ucr + by[c].ucr) % CounterMod
      BY <1>3, <2>1 DEF Advanced
    <3> DEFINE Step(h, b, h2) == /\ h2 \in 0..(CounterMod - 1)
                                 /\ h2 >= h => h2 = h + b
    <3>2. \A h, b \in 0..(CounterMod - 1) : Step(h, b, (h + b) % CounterMod)
      BY <1>1, CounterAdvances
    <3> HIDE DEF Step
    <3>3. /\ Step(hw[c].ucc, by[c].ucc, (hw[c].ucc + by[c].ucc) % CounterMod)
          /\ Step(hw[c].ucr, by[c].ucr, (hw[c].ucr + by[c].ucr) % CounterMod)
      BY <1>2, <3>2, Zenon
    <3>4. Step(hw[c].ucc, by[c].ucc, hw'[c].ucc) /\ Step(hw[c].ucr, by[c].ucr, hw'[c].ucr)
      BY <3>1, <3>3
    <3> QED BY <2>1, <3>4 DEF Counts, Step
  <2>2. CASE ~counting[c]
    BY <1>2, <1>3, <2>2 DEF Advanced, Counts
  <2> QED BY <2>1, <2>2
<1>5. hw' \in [Cores -> [ucc : Counts, ucr : Counts]]
  <2>1. hw' = [c \in Cores |-> [ucc |-> Advanced(c, "ucc", by), ucr |-> Advanced(c, "ucr", by)]]
    BY DEF UCState
  <2>2. \A c \in Cores : Advanced(c, "ucc", by) \in Counts /\ Advanced(c, "ucr", by) \in Counts
    BY <1>3, <1>4
  <2> QED BY <2>1, <2>2
<1>6. counting' \in [Cores -> BOOLEAN]
  BY <1>1 DEF UCState
<1>7. \A c \in Cores : /\ UCC'[c] = hw'[c].ucc /\ UCR'[c] = hw'[c].ucr
                       /\ lastUCC'[c] = UCC[c] /\ lastUCR'[c] = UCR[c]
  BY DEF UCState
<1> QED BY <1>4, <1>5, <1>6, <1>7

-----------------------------------------------------------------------------
(* The steps *)

LEMMA CpuInitInv == CpuInit => CpuInv
<1> SUFFICES ASSUME CpuInit PROVE CpuInv
  OBVIOUS
<1>1. cpu \in Machines /\ spoiled = TRUE /\ late = FALSE /\ LoopLock = FALSE /\ round = "idle"
  BY DEF CpuInit
<1>2. /\ counting = [c \in Cores |-> FALSE] /\ hw = Nothing /\ span = Nothing
  BY DEF CpuInit
<1>3. Nothing \in [Cores -> [ucc : Counts, ucr : Counts]] /\ Nothing \in [Cores -> [ucc : Nat, ucr : Nat]]
  BY MachineAssumption DEF Nothing, Counts
<1>4. CountersTypeOK
  BY <1>1, <1>2, <1>3 DEF CountersTypeOK
<1> QED BY <1>1, <1>4 DEF CpuInv, LockGuards, FirstSampleHolds, SamplesDiffer, FrequencyIsMeasured

(***************************************************************************)
(* A round that begins has measured nothing yet.                           *)
(***************************************************************************)
LEMMA EnterKeeps ==
  ASSUME CpuInv, EnterLoop, UNCHANGED <<cpu, sampled, told>>
  PROVE  CpuInv'
<1>1. CASE LoopLock
  BY <1>1 DEF CpuInv, CountersTypeOK, LockGuards, FirstSampleHolds, SamplesDiffer,
     FrequencyIsMeasured,
     EnterLoop, sampled, told, Cores, SandyArch, Delta, Ratio
<1>2. CASE ~LoopLock
  <2>1. CountersTypeOK'
    BY <1>2 DEF CpuInv, CountersTypeOK, EnterLoop, sampled, told, Cores, Nothing
  <2> QED BY <1>2, <2>1 DEF CpuInv, LockGuards, FirstSampleHolds, SamplesDiffer,
  FrequencyIsMeasured,
             EnterLoop
<1> QED BY <1>1, <1>2 DEF CpuInv, CountersTypeOK

LEMMA FirstSampleKeeps == ASSUME CpuInv, FirstSample PROVE CpuInv'
<1>1. PICK by \in Advances : UCState(by)
  BY DEF FirstSample
<1>2. /\ round = "locked" /\ round' = "slept" /\ SandyArch /\ SandyArch' = SandyArch
      /\ cpu' = cpu /\ Cores' = Cores /\ UNCHANGED <<LoopLock, span, spoiled, late>>
  BY DEF FirstSample, life, ghosts, Cores, SandyArch
<1>3. CountersTypeOK'
  BY <1>1, <1>2, Sampled DEF CpuInv, CountersTypeOK
<1>4. FirstSampleHolds'
  BY <1>1, <1>2, Sampled DEF FirstSampleHolds
<1> QED BY <1>2, <1>3, <1>4 DEF CpuInv, LockGuards, SamplesDiffer, FrequencyIsMeasured

LEMMA SecondSampleKeeps == ASSUME CpuInv, SecondSample PROVE CpuInv'
<1>1. PICK by \in Advances : /\ UCState(by)
                             /\ span' = [c \in Cores |-> IF counting[c] THEN by[c] ELSE Nothing[c]]
  BY DEF SecondSample
<1>2. /\ round = "slept" /\ round' = "sampled" /\ SandyArch /\ SandyArch' = SandyArch
      /\ cpu' = cpu /\ Cores' = Cores /\ UNCHANGED <<LoopLock, late>>
      /\ spoiled' = (spoiled \/ \E c \in Cores : hw'[c].ucc < hw[c].ucc \/ hw'[c].ucr < hw[c].ucr)
  BY DEF SecondSample, life, Cores, SandyArch, CpuInv, FirstSampleHolds
<1>3. span' \in [Cores -> [ucc : Nat, ucr : Nat]]
  <2>1. \A c \in Cores : by[c] \in [ucc : Nat, ucr : Nat] /\ Nothing[c] \in [ucc : Nat, ucr : Nat]
    BY MachineAssumption DEF Advances, Nothing
  <2> QED BY <1>1, <2>1
<1>4. CountersTypeOK'
  BY <1>1, <1>2, <1>3, Sampled DEF CpuInv, CountersTypeOK
<1>5. SamplesDiffer'
  <2> SUFFICES ASSUME ~spoiled', NEW c \in Cores
               PROVE  /\ Delta(lastUCC'[c], UCC'[c]) = span'[c].ucc
                      /\ Delta(lastUCR'[c], UCR'[c]) = span'[c].ucr
    BY <1>2 DEF SamplesDiffer, Delta
  <2>1. /\ ~spoiled /\ ~(hw'[c].ucc < hw[c].ucc) /\ ~(hw'[c].ucr < hw[c].ucr)
    BY <1>2
  <2>2. UCC[c] = hw[c].ucc /\ UCR[c] = hw[c].ucr
    BY <1>2, <2>1 DEF CpuInv, FirstSampleHolds
  <2>3. /\ hw[c].ucc \in Nat /\ hw[c].ucr \in Nat /\ hw'[c].ucc \in Nat /\ hw'[c].ucr \in Nat
        /\ by[c].ucc \in Nat /\ by[c].ucr \in Nat
    <3>1. Counts \subseteq Nat /\ 0..MaxAdvance \subseteq Nat
      BY DEF Counts
    <3>2. hw[c] \in [ucc : Counts, ucr : Counts] /\ hw'[c] \in [ucc : Counts, ucr : Counts]
      BY <1>1, <1>2, Sampled DEF CpuInv, CountersTypeOK
    <3>3. by[c] \in [ucc : 0..MaxAdvance, ucr : 0..MaxAdvance]
      BY DEF Advances
    <3> QED BY <3>1, <3>2, <3>3
  <2>4. /\ lastUCC'[c] = hw[c].ucc /\ UCC'[c] = hw'[c].ucc
        /\ lastUCR'[c] = hw[c].ucr /\ UCR'[c] = hw'[c].ucr
        /\ counting[c] => /\ hw'[c].ucc >= hw[c].ucc => hw'[c].ucc = hw[c].ucc + by[c].ucc
                          /\ hw'[c].ucr >= hw[c].ucr => hw'[c].ucr = hw[c].ucr + by[c].ucr
        /\ ~counting[c] => hw'[c].ucc = hw[c].ucc /\ hw'[c].ucr = hw[c].ucr
    BY <1>1, <1>2, <2>2, Sampled
  <2>5. CASE counting[c]
    <3>1. span'[c].ucc = by[c].ucc /\ span'[c].ucr = by[c].ucr
      BY <1>1, <2>5
    <3> QED BY <2>1, <2>3, <2>4, <2>5, <3>1 DEF Delta
  <2>6. CASE ~counting[c]
    <3>1. span'[c].ucc = 0 /\ span'[c].ucr = 0
      BY <1>1, <2>6 DEF Nothing
    <3> QED BY <2>3, <2>4, <2>6, <3>1 DEF Delta
  <2> QED BY <2>5, <2>6
<1> QED BY <1>2, <1>4, <1>5 DEF CpuInv, LockGuards, FirstSampleHolds, FrequencyIsMeasured

LEMMA ReadStateKeeps == ASSUME CpuInv, ReadState PROVE CpuInv'
<1>1. /\ round # "idle" /\ round' = "read" /\ SandyArch' = SandyArch /\ Cores' = Cores
      /\ SandyArch => round = "sampled"
      /\ UNCHANGED <<cpu, LoopLock, hw, counting, UCC, UCR, lastUCC, lastUCR, span, spoiled, late>>
  BY DEF ReadState, life, sampled, ghosts, Cores, SandyArch
<1>2. CountersTypeOK'
  BY <1>1 DEF CpuInv, CountersTypeOK
<1>3. SamplesDiffer'
  BY <1>1 DEF CpuInv, SamplesDiffer, Delta
<1> QED BY <1>1, <1>2, <1>3 DEF CpuInv, LockGuards, FirstSampleHolds, FrequencyIsMeasured

LEMMA EndRoundKeeps == ASSUME CpuInv, EndRound PROVE CpuInv'
<1>1. /\ round = "read" /\ round' = "idle" /\ LoopLock' = FALSE /\ SandyArch' = SandyArch /\ Cores' = Cores
      /\ Frequency' = [c \in Cores |-> IntelGetFrequency(c)]
      /\ UNCHANGED <<cpu, hw, counting, UCC, UCR, lastUCC, lastUCR, GlobalState, span, spoiled, late>>
  BY DEF EndRound, sampled, ghosts, Cores, SandyArch
<1>2. CountersTypeOK'
  BY <1>1 DEF CpuInv, CountersTypeOK
<1>3. FrequencyIsMeasured'
  <2> SUFFICES ASSUME SandyArch, ~spoiled, NEW c \in Cores
               PROVE  Frequency'[c] = IF span[c].ucr > 0
                                      THEN [of |-> c, ratio |-> Ratio(span[c].ucc, span[c].ucr)]
                                      ELSE [of |-> GlobalState[c], ratio |-> 0]
    BY <1>1 DEF FrequencyIsMeasured, Ratio
  <2>1. /\ Delta(lastUCC[c], UCC[c]) = span[c].ucc
        /\ Delta(lastUCR[c], UCR[c]) = span[c].ucr
    BY <1>1 DEF CpuInv, SamplesDiffer
  <2>2. Frequency'[c] = IntelGetFrequency(c)
    BY <1>1
  <2> QED BY <2>1, <2>2 DEF IntelGetFrequency
<1> QED BY <1>1, <1>2, <1>3 DEF CpuInv, LockGuards, FirstSampleHolds, SamplesDiffer

(***************************************************************************)
(* A wake in a round spoils it, and does not touch what an earlier round   *)
(* told.                                                                   *)
(***************************************************************************)
LEMMA WakeKeeps ==
  ASSUME CpuInv, spoiled' = (spoiled \/ round # "idle"), CountersTypeOK',
         UNCHANGED <<life, LoopLock, round, told, span>>
  PROVE  CpuInv'
  BY DEF CpuInv, LockGuards, FirstSampleHolds, SamplesDiffer, FrequencyIsMeasured, life, told,
     Cores, SandyArch,
         CountersTypeOK, Ratio

LEMMA PowerOnKeeps == ASSUME CpuInv, NEW lost \in BOOLEAN, PowerOn(lost) PROVE CpuInv'
<1>1. CountersTypeOK'
  <2>1. Nothing \in [Cores -> [ucc : Counts, ucr : Counts]]
    BY MachineAssumption DEF Nothing, Counts
  <2> QED BY <2>1 DEF CpuInv, CountersTypeOK, PowerOn, life, Cores
<1> QED BY <1>1, WakeKeeps DEF PowerOn

LEMMA ClearKeeps == ASSUME CpuInv, Clear PROVE CpuInv'
<1>1. CountersTypeOK'
  BY DEF CpuInv, CountersTypeOK, Clear, life, Cores
<1> QED BY <1>1, WakeKeeps DEF Clear

(***************************************************************************)
(* The other steps change nothing a round works with.                      *)
(***************************************************************************)
LEMMA OthersKeep ==
  ASSUME CpuInv, late' \in BOOLEAN,
         UNCHANGED <<cpu, LoopLock, round, sampled, told, span, spoiled>>
  PROVE  CpuInv'
  BY DEF CpuInv, CountersTypeOK, LockGuards, FirstSampleHolds, SamplesDiffer,
     FrequencyIsMeasured, sampled, told,
         Cores, SandyArch, Delta, Ratio

(***************************************************************************)
(* The invariant of the samples: whoever else runs, a round that was not   *)
(* disturbed has what it measured.                                         *)
(***************************************************************************)
THEOREM SamplesInvariant == CpuSpec => []CpuInv
<1>1. CpuInv /\ [CpuNext]_cpuVars => CpuInv'
  <2> SUFFICES ASSUME CpuInv, [CpuNext]_cpuVars PROVE CpuInv'
    OBVIOUS
  <2>1. late \in BOOLEAN
    BY DEF CpuInv, CountersTypeOK
  <2>2. ASSUME Timer \/ Activate PROVE CpuInv'
    BY <2>2, EnterKeeps DEF Timer, Activate, life
  <2>3. ASSUME Round PROVE CpuInv'
    BY <2>3, FirstSampleKeeps, SecondSampleKeeps, ReadStateKeeps, EndRoundKeeps DEF Round
  <2>4. ASSUME NEW accepted \in BOOLEAN, Register(accepted) PROVE CpuInv'
    BY <2>1, <2>4, OthersKeep DEF Register, ghosts
  <2>5. ASSUME Cancel PROVE CpuInv'
    <3>1. late' \in BOOLEAN
      BY <2>5 DEF Cancel
    <3> QED BY <2>5, <3>1, OthersKeep DEF Cancel
  <2>6. ASSUME Deactivate PROVE CpuInv'
    BY <2>1, <2>6, OthersKeep DEF Deactivate, ghosts
  <2>7. ASSUME NEW unreadable \in Unreadable, ReadThermal(unreadable) PROVE CpuInv'
    BY <2>1, <2>7, OthersKeep DEF ReadThermal, life, ghosts
  <2>8. CASE UNCHANGED cpuVars
    BY <2>1, <2>8, OthersKeep DEF cpuVars, life, ghosts
  <2> QED BY <2>2, <2>3, <2>4, <2>5, <2>6, <2>7, <2>8, PowerOnKeeps, ClearKeeps
          DEF CpuNext, Starting, Stopping
<1> QED BY <1>1, CpuInitInv, PTL DEF CpuSpec

(***************************************************************************)
(* The frequency a key tells is that of the two milliseconds the last      *)
(* undisturbed round measured, whatever was left in the variables before.  *)
(***************************************************************************)
THEOREM FrequencyMeasured == CpuSpec => []FrequencyIsMeasured
  BY SamplesInvariant, PTL DEF CpuInv

-----------------------------------------------------------------------------
(* stop *)

(***************************************************************************)
(* Once stop has cancelled the timer between two rounds there is no        *)
(* further round.                                                          *)
(***************************************************************************)
THEOREM StoppedIsQuiet == CpuSpec => []QuietAfterStop
<1>1. CpuInit => QuietAfterStop
  BY DEF CpuInit, QuietAfterStop
<1>2. QuietAfterStop /\ [CpuNext]_cpuVars => QuietAfterStop'
  <2> SUFFICES ASSUME QuietAfterStop, [CpuNext]_cpuVars PROVE QuietAfterStop'
    OBVIOUS
  <2> USE DEF QuietAfterStop
  <2>1. CASE Timer
    BY <2>1 DEF Timer, EnterLoop, life
  <2>2. CASE Round
    BY <2>2 DEF Round, FirstSample, SecondSample, ReadState, EndRound, life, ghosts
  <2>3. CASE Starting
    BY <2>3 DEF Starting, Activate, Register
  <2>4. CASE Cancel
    BY <2>4 DEF Cancel
  <2>5. CASE Deactivate
    BY <2>5 DEF Deactivate, ghosts
  <2>6. CASE Clear
    BY <2>6 DEF Clear, life
  <2>7. CASE \E lost \in BOOLEAN : PowerOn(lost)
    BY <2>7 DEF PowerOn, life
  <2>8. CASE \E unreadable \in Unreadable : ReadThermal(unreadable)
    BY <2>8 DEF ReadThermal, life, ghosts
  <2>9. CASE UNCHANGED cpuVars
    BY <2>9 DEF cpuVars, life, ghosts
  <2> QED BY <2>1, <2>2, <2>3, <2>4, <2>5, <2>6, <2>7, <2>8, <2>9 DEF CpuNext, Stopping
<1> QED BY <1>1, <1>2, PTL DEF CpuSpec

=============================================================================
