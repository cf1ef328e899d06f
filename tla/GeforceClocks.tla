---------------------------- MODULE GeforceClocks ----------------------------
(***************************************************************************)
(* How GeforceSensors finds out a clock of the card.  Each family of chips *)
(* has a function for every source of clocks, and these call each other    *)
(* along the tree of the chip: which one is called next is up to registers *)
(* the card's own driver may be changing, so that two reads need not       *)
(* agree.  A phase-locked loop multiplies its reference and divides it by  *)
(* a divider it takes from a register.                                     *)
(*                                                                         *)
(* Frequencies are left out; the model has who calls whom, and whether the *)
(* divider is tested before it is divided by.  GeforceSensors asks for     *)
(* four of the clocks; the others are left out with what only they reach.  *)
(***************************************************************************)
EXTENDS Naturals, Sequences

CONSTANT ClockChips   (* the chips there are, of those below                *)

Teslas == {"G80", "G84", "G92", "G94", "G98", "G200", "MCP77", "MCP79"}
Keplers == {"GK104", "GM107"}
Asked == {"core", "shader", "rop", "memory"}

\* A frequency that is known, or none.
Ends == {"crystal", "reference", "nothing"}

ASSUME ClockAssumption == ClockChips \subseteq {"NV40", "GT215", "GF100"} \union Teslas \union Keplers

VARIABLES
  clockChip,
  calls,      (* the functions that have not returned, the last called last *)
  faulted     (* a divider of zero was divided by                           *)

clockVars == <<clockChip, calls, faulted>>

-----------------------------------------------------------------------------
(* Curie *)

Nv40Calls(f) ==
  CASE f \in {"core", "shader"} -> {"pll_2 4000", "pll_1 4008", "nothing"}
    [] f = "memory" -> {"pll_2 4020"}
    [] f \in {"pll_1 4008", "pll_2 4000", "pll_2 4020"} -> {"reference"}
    [] OTHER -> {"nothing"}

\* The dividers each function divides by when its registers hold m, in a loop that
\* is switched on or not.
Nv40Pll1(on, m) == IF on THEN {m} ELSE {}
Nv40Pll2(on, m) == IF on /\ m # 0 THEN {m} ELSE {}

-----------------------------------------------------------------------------
(* Tesla, but for the GT21x *)

Nv50Clk(chip, f) ==
  CASE f = "nvclk" -> {"crystal", "dom6", "pll 4020", "pll 4028"}
    [] f = "sclk" -> {"host", "crystal", "nothing", "pll 4028", "pll 4020"}
    [] f = "mclk" -> {"crystal", "reference", "nothing", "pll 4008"}
    [] f = "host" -> {"reference", "nothing", "hclk"}
    [] f = "hclk" -> {"reference"}
    [] f = "hclkm3" -> {"hclk"}
    [] f = "dom6" -> CASE chip \in {"G80", "G200"} -> {"pll e810"}
                       [] chip \in {"MCP77", "MCP79"} -> {"nothing"}
                       [] OTHER -> {"reference", "nothing", "hclk", "hclkm3"}

\* Every loop asks for its reference; that of the shaders may be bypassed.
Nv50Pll(chip, f) ==
  CASE f = "pll e810" -> {"crystal"}
    [] f = "pll 4028" -> {"ref 4028"} \union (IF chip = "G200" THEN {} ELSE {"dom6"})
    [] f = "pll 4020" -> {"ref 4020"}
    [] f = "pll 4008" -> {"ref 4008"}

\* read_pll_ref, and read_pll_src that it calls.
Nv50Ref(f) == {"reference", IF f = "ref 4008" THEN "src 4008" ELSE "src"}
Nv50Src(chip) ==
  CASE chip \in {"MCP77", "MCP79"} -> {"nothing"}
    [] chip \in {"G94", "G98"} -> {"crystal", "reference"}
    [] OTHER -> {"crystal"}

Nv50Get(chip, f) ==
  {IF chip = "MCP77" THEN "nothing"
   ELSE CASE f = "core" -> IF chip = "MCP79" THEN "core of MCP79" ELSE "nvclk"
          [] f = "shader" -> "sclk"
          [] f = "memory" -> "mclk"
          [] OTHER -> "nothing"}

Nv50Calls(chip, f) ==
  CASE f \in Asked -> Nv50Get(chip, f)
    [] f = "core of MCP79" -> {"reference"}
    [] f \in {"pll e810", "pll 4028", "pll 4020", "pll 4008"} -> Nv50Pll(chip, f)
    [] f \in {"ref 4028", "ref 4020", "ref 4008"} -> Nv50Ref(f)
    [] f \in {"src", "src 4008"} -> Nv50Src(chip)
    [] OTHER -> Nv50Clk(chip, f)

Nv50PllDivides(on, m) == IF on /\ m # 0 THEN {m} ELSE {}
Nv50SrcDivides(chip, m) ==
  CASE chip \in {"G80", "G200"} -> {m + 1}
    [] chip \in {"MCP77", "MCP79"} -> {}
    [] OTHER -> IF m # 0 THEN {m} ELSE {}

-----------------------------------------------------------------------------
(* GT21x: a clock in bypass is that of 16 further; the references of all     *)
(* loops are those of the clocks 41 and 42, which are the crystal.           *)

Nva3Pll(f) ==
  CASE f = "core" -> {"clk 00", "clk 10", "nothing"}
    [] f = "shader" -> {"clk 01", "clk 11", "nothing"}
    [] f = "memory" -> {"clk 02", "clk 12", "nothing"}
    [] f \in {"pll 41", "pll 42"} -> {"crystal", "nothing"}
    [] OTHER -> {"nothing"}

Nva3Clk == {"nothing", "crystal", "reference", "vco"}
Nva3Vco_Feeds == {"pll 41", "clk 00"}
Nva3Vco == {"pll 41", "pll 42"}

Nva3Calls(f) == CASE f = "vco" -> Nva3Vco
                  [] f \in {"clk 00", "clk 10", "clk 01", "clk 11", "clk 02", "clk 12"} -> Nva3Clk
                  [] OTHER -> Nva3Pll(f)

Nva3Divides(m) == IF m # 0 THEN {m} ELSE {}

-----------------------------------------------------------------------------
(* Fermi, Kepler and Maxwell *)

\* A loop that is off answers 0; the memory has one loop behind another.
NvcPll(f) ==
  {"nothing"} \union
  CASE f \in {"pll e800", "pll e820"} -> {"crystal"}
    [] f = "pll 132000" -> {"pll 132020"}
    [] f = "pll 132020" -> {"div 137320"}
    [] f = "pll 137000" -> {"div 137120"}
    [] OTHER -> {}

NvcDiv == {"crystal", "reference", "nothing", "vco"}
NvcVco == {"pll e800", "pll e820"}

NvcClk(clk) == {"pll 137000", "div 137160"}

Nvc0Get(f) == CASE f \in {"core", "shader", "rop"} -> NvcClk(f)
                [] f = "memory" -> {"pll 132000", "div 137300"}
NvcCalls(f) ==
  CASE f \in {"div 137320", "div 137120", "div 137160", "div 137300"} -> NvcDiv
    [] f = "vco" -> NvcVco
    [] OTHER -> NvcPll(f)

Nve0Get(f) == CASE f \in {"core", "rop"} -> NvcClk(f)
                [] f = "memory" -> {"pll 132020", "pll 132000", "nothing"}
                [] OTHER -> {"nothing"}

\* Fermi takes a divider of 0 for 1.
Nvc0Divides(on, m) == IF on THEN {IF m = 0 THEN 1 ELSE m} ELSE {}
Nve0Divides(on, m) == IF on THEN {m} ELSE {}

-----------------------------------------------------------------------------
Callees(chip, f) ==
  CASE chip = "NV40" -> Nv40Calls(f)
    [] chip \in Teslas -> Nv50Calls(chip, f)
    [] chip = "GT215" -> Nva3Calls(f)
    [] chip = "GF100" -> IF f \in Asked THEN Nvc0Get(f) ELSE NvcCalls(f)
    [] OTHER -> IF f \in Asked THEN Nve0Get(f) ELSE NvcCalls(f)

Nv50Divides(chip, f, on, m) ==
  CASE f \in {"src", "src 4008"} -> Nv50SrcDivides(chip, m)
    [] f = "core of MCP79" -> {m}
    [] OTHER -> Nv50PllDivides(on, m)

\* What a phase-locked loop, or what stands for one, divides by.
IsLoop(f) == f \in {"pll_1 4008", "pll_2 4000", "pll_2 4020", "pll e810", "pll 4028", "pll 4020",
                    "pll 4008", "src", "src 4008", "core of MCP79", "pll 41", "pll 42", "pll e800",
                    "pll e820", "pll 132000", "pll 132020", "pll 137000"}
DividesBy(chip, f, on, m) ==
  CASE chip = "NV40" -> IF f = "pll_1 4008" THEN Nv40Pll1(on, m) ELSE Nv40Pll2(on, m)
    [] chip \in Teslas -> Nv50Divides(chip, f, on, m)
    [] chip = "GT215" -> Nva3Divides(m)
    [] chip = "GF100" -> Nvc0Divides(on, m)
    [] OTHER -> Nve0Divides(on, m)

-----------------------------------------------------------------------------
ClocksInit ==
  /\ clockChip \in ClockChips
  /\ calls = <<>>
  /\ faulted = FALSE

\* clocks_get, of start and of a key that is read.
AskClock ==
  /\ calls = <<>>
  /\ \E source \in Asked : calls' = <<source>>
  /\ UNCHANGED <<clockChip, faulted>>

Current == calls[Len(calls)]

CallNext ==
  /\ calls # <<>>
  /\ Current \notin Ends
  /\ \E f \in Callees(clockChip, Current), on \in BOOLEAN, m \in 0..1 :
       /\ calls' = Append(calls, f)
       /\ faulted' = (faulted \/ (IsLoop(f) /\ 0 \in DividesBy(clockChip, f, on, m)))
  /\ UNCHANGED clockChip

Answered ==
  /\ calls # <<>>
  /\ Current \in Ends
  /\ calls' = <<>>
  /\ UNCHANGED <<clockChip, faulted>>

ClocksNext == AskClock \/ CallNext \/ Answered
ClocksSpec == ClocksInit /\ [][ClocksNext]_clockVars

-----------------------------------------------------------------------------
ClocksTypeOK == clockChip \in ClockChips /\ calls \in Seq(STRING) /\ faulted \in BOOLEAN

\* The functions that read the clocks of a chip call one another, from the middle of a
\* key being read, on a kernel stack: whatever the registers hold, and however they
\* change from one read to the next, no function is asked for the clock it is finding
\* out.
NoClockFeedsItself == \A i, j \in DOMAIN calls : calls[i] = calls[j] => i = j
=============================================================================
