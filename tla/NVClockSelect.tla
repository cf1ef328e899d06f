---------------------------- MODULE NVClockSelect ----------------------------
(* How NVClock sets the speed of the graphics chip (nv40.cpp, overclock.cpp,    *)
(* nv50.cpp) when the property GPUSpeed asks for it at start.                   *)
(*                                                                              *)
(* A PLL makes N/M of its reference clock, on Geforce 6 and 7 optionally a      *)
(* second one makes N2/M2 of that, and the result is halved P times.  The       *)
(* driver searches for dividers one by one, in loops that give up early, packs  *)
(* what it found into two registers and reads the speed back from those.        *)
(*                                                                              *)
(* Frequencies are in kHz.  The floating-point quotients of the code are taken  *)
(* as exact before they are cut; a rounded one may be a kHz off.                *)
EXTENDS NVClockBios

CONSTANT SpeedAsks   (* what is asked of which card: [arch, bios, base_freq, pll, mhz] *)

ASSUME SpeedAssumption ==
  \A a \in SpeedAsks : a.base_freq \in {13500, 14318, 27000} /\ a.mhz \in 0..2000 /\ a.pll.p \in 0..15

VARIABLES
  pllAsk,      (* of SpeedAsks                                                 *)
  pllAt,       (* "asked", "search", "found", "set"                            *)
  tried,       (* the M and N that the loops have come to                      *)
  best,        (* the best dividers so far, or NoDividers                      *)
  bestDelta,   (* how far they are from what is asked                          *)
  nvpll        (* the registers of the PLL: [bits, p, m, n, m2, n2]            *)
selectVars == <<pllAsk, pllAt, tried, best, bestDelta, nvpll>>

NoDividers == [m |-> 0, n |-> 0, m2 |-> 0, n2 |-> 0, p |-> 0]
Unwritten == [NoDividers EXCEPT !.m = -1]
clockIn == pllAsk.mhz * 1000
Apart(a, b) == IF a < b THEN b - a ELSE a - b

Older == pllAsk.arch \notin NV3X \union NV4X \union NV5X

-----------------------------------------------------------------------------
\* The limits of the PLL: those of the image or, without one, constants.
refClk == 27000

VCO(minInputFreq, maxInputFreq, minFreq, maxFreq, maxN) ==
  [minInputFreq |-> minInputFreq, maxInputFreq |-> maxInputFreq, minFreq |-> minFreq, maxFreq |-> maxFreq,
   minN |-> 1, maxN |-> maxN, minM |-> 1, maxM |-> maxN]

pll_lst ==
  LET first == VCO(3000, 25000, 100000, 405000, 255)
  IN  <<[reg |-> 0, VCO1 |-> first, VCO2 |-> VCO(35000, 100000, 400000, 1000000, 31)],
        [reg |-> \h4020, VCO1 |-> first, VCO2 |-> VCO(35000, 100000, 600000, 1400000, 31)]>>

GetPllLimits(reg) ==
  LET list == IF pllAsk.bios # NoBios /\ pllAsk.bios.pll # <<>> THEN pllAsk.bios.pll ELSE pll_lst
      own == {i \in 1..Len(list) : list[i].reg = reg}
  IN  list[IF own = {} THEN 1 ELSE CHOOSE i \in own : \A j \in own : i <= j]

pll_limits == GetPllLimits(\h4000)
single == clockIn < pll_limits.VCO1.maxFreq

\* Beyond the limit of the second stage it is tried nevertheless, with a margin.
maxClock ==
  IF single THEN pll_limits.VCO1.maxFreq
  ELSE IF clockIn > pll_limits.VCO2.maxFreq THEN clockIn + (clockIn \div 200) ELSE pll_limits.VCO2.maxFreq

\* Half the range is halved until it is below what is asked for.
P == CHOOSE p \in 0..7 : /\ p = 7 \/ clockIn > maxClock \div (2^(p + 1))
                         /\ \A q \in 0..(p - 1) : clockIn <= maxClock \div (2^(q + 1))

-----------------------------------------------------------------------------
\* What the first stage makes, and what a pair of dividers of the second makes of
\* it, for which N2 is the one nearest to what is asked for.  (Cut: without the rounding.)
First(m, n) == (refClk * n) \div m

NearestN2_Cut(m, n, m2) == (clockIn * (2^P) * m * m2) \div (refClk * n)

NearestN2(m, n, m2) == ((2 * clockIn * (2^P) * m * m2) + (refClk * n)) \div (2 * refClk * n)

Cascade(m, n, m2, n2) == (n * n2 * refClk) \div (m * m2)

Seconds(m, n) ==
  {m2 \in pll_limits.VCO2.minM..pll_limits.VCO2.maxM :
     /\ First(m, n) \div m2 \in pll_limits.VCO2.minInputFreq..pll_limits.VCO2.maxInputFreq
     /\ NearestN2(m, n, m2) \in pll_limits.VCO2.minN..pll_limits.VCO2.maxN
     /\ Cascade(m, n, m2, NearestN2(m, n, m2)) \in pll_limits.VCO2.minFreq..maxClock}

Dividers(m, n, m2, n2) == [m |-> m, n |-> n, m2 |-> m2, n2 |-> n2, p |-> P]

DeltaOf(d) ==
  Apart(clockIn, (IF single THEN First(d.m, d.n) ELSE Cascade(d.m, d.n, d.m2, d.n2)) \div (2^d.p))

Tries(m, n) ==
  IF single THEN {Dividers(m, n, 0, 0)}
  ELSE {Dividers(m, n, m2, NearestN2(m, n, m2)) : m2 \in Seconds(m, n)}

\* Less than half a percent is near enough: the first such setting is taken.
Accepted(delta) == delta * 200 <= clockIn

\* Of several M2 for one M and N, the first that is near enough or, of none, the
\* first of the nearest.
Foremost(settings) ==
  LET near == {d \in settings : Accepted(DeltaOf(d))}
      least == {d \in settings : \A e \in settings : DeltaOf(d) <= DeltaOf(e)}
      among == IF near # {} THEN near ELSE least
  IN  CHOOSE d \in among : \A e \in among : d.m2 <= e.m2

-----------------------------------------------------------------------------
\* ClockSelect of cards up to the Geforce 4: dividers by the speed, P as it is,
\* and no early return.
Ranges ==
  IF clockIn > 250000 THEN [m |-> 1..(IF clockIn > 340000 THEN 2 ELSE 6), n |-> 14..93]
  ELSE [m |-> IF pllAsk.base_freq = 14318 THEN 7..14 ELSE 6..13, n |-> 14..255]

CalcSpeed(d) == ((d.n * pllAsk.base_freq) \div d.m) \div (2^d.p)

Old(m, n) == [m |-> m, n |-> n, m2 |-> 0, n2 |-> 0, p |-> nvpll.p]

OldDelta(m, n) == Apart(clockIn, CalcSpeed(Old(m, n)))

\* Of the N for one M the first of the nearest.
NearestN(m) ==
  LET least == Min({OldDelta(m, n) : n \in Ranges.n})
  IN  Min({n \in Ranges.n : OldDelta(m, n) = least})

-----------------------------------------------------------------------------
LeastM == IF Older THEN Min(Ranges.m) ELSE pll_limits.VCO1.minM

\* set_gpu_speed: that of a Geforce 8 does nothing.
AskSpeed ==
  /\ pllAt = "asked"
  /\ IF pllAsk.arch \in NV5X THEN pllAt' = "set" /\ UNCHANGED tried
     ELSE pllAt' = "search" /\ tried' = [m |-> LeastM, n |-> pll_limits.VCO1.minN]
  /\ UNCHANGED <<pllAsk, best, bestDelta, nvpll>>

Takes(d, delta) == best' = d /\ bestDelta' = delta

TryOlder ==
  /\ pllAt = "search" /\ Older
  /\ IF tried.m \notin Ranges.m THEN pllAt' = "found" /\ UNCHANGED <<tried, best, bestDelta>>
     ELSE LET n == NearestN(tried.m)
          IN  /\ IF OldDelta(tried.m, n) < bestDelta THEN Takes(Old(tried.m, n), OldDelta(tried.m, n))
                 ELSE UNCHANGED <<best, bestDelta>>
              /\ tried' = [tried EXCEPT !.m = @ + 1]
              /\ UNCHANGED pllAt
  /\ UNCHANGED <<pllAsk, nvpll>>

\* The loops over M and N: below the input frequency of the first stage no M does,
\* beyond its output no N.
NextM == tried' = [m |-> tried.m + 1, n |-> pll_limits.VCO1.minN]
NextN == tried' = [tried EXCEPT !.n = @ + 1]

TryDividers ==
  LET v == pll_limits.VCO1
      ds == Tries(tried.m, tried.n)
      d == Foremost(ds)
  IN  /\ pllAt = "search" /\ pllAsk.arch \in NV4X
      /\ \/ /\ tried.m > v.maxM \/ refClk \div tried.m < v.minInputFreq
            /\ pllAt' = "found" /\ UNCHANGED <<tried, best, bestDelta>>
         \/ /\ tried.m <= v.maxM /\ refClk \div tried.m >= v.minInputFreq
            /\ IF tried.n > v.maxN \/ First(tried.m, tried.n) > v.maxFreq
               THEN NextM /\ UNCHANGED <<pllAt, best, bestDelta>>
               ELSE IF First(tried.m, tried.n) < v.minFreq \/ ds = {}
               THEN NextN /\ UNCHANGED <<pllAt, best, bestDelta>>
               ELSE IF Accepted(DeltaOf(d)) THEN Takes(d, DeltaOf(d)) /\ pllAt' = "found" /\ UNCHANGED tried
               ELSE IF DeltaOf(d) < bestDelta THEN Takes(d, DeltaOf(d)) /\ NextN /\ UNCHANGED pllAt
               ELSE NextN /\ UNCHANGED <<pllAt, best, bestDelta>>
      /\ UNCHANGED <<pllAsk, nvpll>>

\* The registers: bit 31 enables the first stage, bit 30 the second, and bit 8 or 12
\* takes the second out.  Bits of the setting in the image are left as they are,
\* those two among them, but not the enabling ones.
Pll40 ==
  LET disable == IF pll_limits.VCO2.minM = pll_limits.VCO2.maxM THEN 12 ELSE 8
      kept == IF pllAsk.bios = NoBios THEN {} ELSE pllAsk.bios.nvpll \intersect {8, 12}
  IN  [bits |-> kept \union (IF single THEN {31, disable} ELSE {31, 30}), p |-> best.p,
       m |-> best.m, n |-> best.n, m2 |-> best.m2, n2 |-> best.n2]

\* What is not found is M = N = 0, on older cards whatever the variables held.
PllOld ==
  (IF best = NoDividers THEN Unwritten ELSE best) @@ [bits |-> {}]

SetSpeed ==
  /\ pllAt = "found"
  /\ nvpll' = IF Older THEN PllOld ELSE Pll40
  /\ pllAt' = "set"
  /\ UNCHANGED <<pllAsk, tried, best, bestDelta>>

\* get_gpu_speed: of the post divider two bits are read, on older cards four.
GetClock_nv40 ==
  LET second == nvpll.bits \intersect {8, 12} = {}
      by == nvpll.m * (IF second THEN nvpll.m2 ELSE 1)
  IN  IF by = 0 THEN "not a number"
      ELSE ((nvpll.n * (IF second THEN nvpll.n2 ELSE 1) * pllAsk.base_freq) \div by) \div (2^(nvpll.p % 4))

GetClock_nv50 == 4 * (((nvpll.n * pllAsk.base_freq) \div nvpll.m) \div (2^(nvpll.p % 4)))

get_gpu_speed ==
  CASE pllAsk.arch \in NV4X -> GetClock_nv40 [] pllAsk.arch \in NV5X -> GetClock_nv50 [] OTHER -> CalcSpeed(nvpll)

-----------------------------------------------------------------------------
SelectInit ==
  /\ pllAsk \in SpeedAsks /\ pllAt = "asked" /\ tried = [m |-> 0, n |-> 0]
  /\ best = NoDividers /\ bestDelta = clockIn /\ nvpll = pllAsk.pll

SelectNext == AskSpeed \/ TryOlder \/ TryDividers \/ SetSpeed

SelectTypeOK ==
  /\ pllAsk \in SpeedAsks /\ pllAt \in {"asked", "search", "found", "set"}
  /\ bestDelta \in 0..clockIn /\ best.p \in 0..15 /\ nvpll.bits \subseteq {8, 12, 30, 31}

-----------------------------------------------------------------------------
\* Every setting within the limits that shares the post divider.
Allowed ==
  IF Older THEN {Old(m, n) : m \in Ranges.m, n \in Ranges.n}
  ELSE LET v == pll_limits.VCO1
           w == pll_limits.VCO2
           firsts == {mn \in (v.minM..v.maxM) \X (v.minN..v.maxN) :
                        refClk \div mn[1] >= v.minInputFreq /\ First(mn[1], mn[2]) \in v.minFreq..v.maxFreq}
       IN  IF single THEN {Dividers(mn[1], mn[2], 0, 0) : mn \in firsts}
           ELSE {d \in {Dividers(mn[1], mn[2], m2, n2) : mn \in firsts, m2 \in w.minM..w.maxM, n2 \in w.minN..w.maxN} :
                   /\ First(d.m, d.n) \div d.m2 \in w.minInputFreq..w.maxInputFreq
                   /\ Cascade(d.m, d.n, d.m2, d.n2) \in w.minFreq..maxClock}

FarOf(d) == IF Older THEN Apart(clockIn, CalcSpeed(d)) ELSE DeltaOf(d)

\* After set_gpu_speed the speed get_gpu_speed reads back is the one asked for, to half a percent
\* or as near to it as any setting within the limits comes, to a few kHz.  (Where
\* there is a setting, the post divider is less than 4, which is all that is read
\* back, and the image's own setting leaves the second stage in.)
SpeedIsSet ==
  (pllAt = "set" /\ pllAsk.arch \notin NV5X /\ best # NoDividers /\ nvpll.p < 4
     /\ (single \/ Older \/ nvpll.bits \intersect {8, 12} = {})) =>
    LET far == Apart(clockIn, get_gpu_speed)
    IN  Accepted(far) \/ \A d \in Allowed : far <= FarOf(d) + 2
=============================================================================
