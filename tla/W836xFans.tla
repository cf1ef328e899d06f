------------------------------- MODULE W836xFans -------------------------------
(***************************************************************************)
(* The tachometers of the WinbondW836x plug-in.  A Winbond chip counts the *)
(* time between two pulses of a fan in units that a divisor of three bits  *)
(* makes 2^offset longer; the count has eight bits.  updateTachometers     *)
(* reads all counts and moves each divisor that fits its fan badly; the    *)
(* bits of one divisor are spread over registers others have bits in.      *)
(* A Nuvoton chip tells speeds.                                            *)
(*                                                                         *)
(* An access of a register is a step; readers are threads that want the    *)
(* value of a key.  The four port accesses of one register access are      *)
(* taken together, which two readers at a time do not grant.               *)
(***************************************************************************)
EXTENDS Integers, FiniteSets, FiniteSetsExt

CONSTANTS
  Chips        (* the chips: nuvoton or not, fanLimit, the bits that are     *)
               (* set in the divisors' registers when the driver starts, for *)
               (* each fan the times between two pulses that occur, and the  *)
               (* threads that read keys                                     *)

\* WINBOND_TACHOMETER_DIVISOR0, 1 and 2: the place of the divisor's bits in the
\* registers 0x47, 0x4B, 0x4C, 0x59 and 0x5D, read as one number of 40 bits.
DivisorBits ==
  [f \in 0..4 |-> CASE f = 0 -> <<36, 37, 5>>
                    [] f = 1 -> <<38, 39, 6>>
                    [] f = 2 -> <<30, 31, 7>>
                    [] f = 3 -> <<8, 9, 23>>
                    [] f = 4 -> <<10, 11, 15>>]

\* divisor = 1 << offset.
Unit(offset) == <<1, 2, 4, 8, 16, 32, 64, 128>>[offset + 1]

\* Which of these bits are in the register read as number i.
InRegister(i) == (8 * (4 - i))..(8 * (4 - i) + 7)

ASSUME WinbondAssumption ==
  /\ \A c \in Chips :
       /\ c.nuvoton \in BOOLEAN /\ c.bits \subseteq 0..39
       /\ c.fanLimit \in 0..(IF c.nuvoton THEN 6 ELSE 5)
       /\ \A f \in 0..5 : c.periods[f] \subseteq Nat /\ c.periods[f] # {}

VARIABLES
  chip,      (* the chip that was found                                      *)
  bits,      (* hardware: the bits of the divisors' registers that are set   *)
  period,    (* hardware: of each fan (of a Nuvoton chip: its speed)         *)
  count,     (* hardware: what was counted last ...                          *)
  counted,   (* ... and with which divisor                                   *)
  fanValue,
  fanValueObsolete,
  reader,    (* where each thread is, and its local variables                *)
  alone,     (* history: no update began during the last, or another's read  *)
  moved      (* history: how the last update moved the divisor of a fan      *)
             (* whose period has not changed since, if it was counted anew   *)
             (* and no other update was under way                            *)

w836xVars == <<chip, bits, period, count, counted, fanValue, fanValueObsolete, reader, alone, moved>>

Readers == chip.readers
Periods(f) == chip.periods[f]
Fans == 0..(chip.fanLimit - 1)
Divided == {f \in Fans : ~chip.nuvoton}

Offset(f, set) ==
  (IF DivisorBits[f][1] \in set THEN 1 ELSE 0) + (IF DivisorBits[f][2] \in set THEN 2 ELSE 0)
    + (IF DivisorBits[f][3] \in set THEN 4 ELSE 0)

OffsetBits(f, offset) ==
  (IF offset % 2 = 1 THEN {DivisorBits[f][1]} ELSE {})
    \union (IF (offset \div 2) % 2 = 1 THEN {DivisorBits[f][2]} ELSE {})
    \union (IF offset \div 4 = 1 THEN {DivisorBits[f][3]} ELSE {})

AllBits(f) == {DivisorBits[f][b] : b \in 1..3}

-----------------------------------------------------------------------------
(* The hardware.                                                            *)

Counts(f) == Min({255, period[f] \div Unit(Offset(f, bits))})

Measure(f) ==
  /\ f \in Divided
  /\ count' = [count EXCEPT ![f] = Counts(f)] /\ counted' = [counted EXCEPT ![f] = Offset(f, bits)]
  /\ <<count', counted'>> # <<count, counted>>
  /\ UNCHANGED <<chip, bits, period, fanValue, fanValueObsolete, reader, alone, moved>>

\* The speed of a fan changes.
Changes(f, p) ==
  /\ f \in Fans /\ p # period[f]
  /\ period' = [period EXCEPT ![f] = p]
  /\ moved' = [g \in 0..4 |-> IF g = f THEN 0 ELSE moved[g]]
  /\ UNCHANGED <<chip, bits, count, counted, fanValue, fanValueObsolete, reader, alone>>

-----------------------------------------------------------------------------
(* readTachometer and updateTachometers.                                    *)

Place(at, i, fan, read, new) == [at |-> at, i |-> i, fan |-> fan, bits |-> read, new |-> new]
Resting == Place("idle", 0, 0, {}, {})
Others(r) == Readers \ {r}
Refreshing(r) == reader[r].at # "idle"

\* A value that was not used yet is used now: another refreshes all of them.
Use(r, f) ==
  /\ ~Refreshing(r) /\ f \in Fans /\ fanValueObsolete[f] = 0
  /\ fanValueObsolete' = [fanValueObsolete EXCEPT ![f] = 1]
  /\ UNCHANGED <<chip, bits, period, count, counted, fanValue, reader, alone, moved>>

Refresh(r, f) ==
  /\ ~Refreshing(r) /\ f \in Fans /\ fanValueObsolete[f] # 0
  /\ reader' = [reader EXCEPT ![r] = Place(IF chip.nuvoton THEN "counts" ELSE "divisors", 0, f, {}, {})]
  /\ alone' = ~\E q \in Others(r) : Refreshing(q)
  /\ moved' = IF alone' THEN moved ELSE [g \in 0..4 |-> 0]
  /\ UNCHANGED <<chip, bits, period, count, counted, fanValue, fanValueObsolete>>

ReadDivisor(r) ==
  /\ reader[r].at = "divisors"
  /\ LET i == reader[r].i
         set == reader[r].bits \union (bits \intersect InRegister(i))
     IN  reader' = [reader EXCEPT ![r] =
           IF i < 4 THEN Place("divisors", i + 1, reader[r].fan, set, {})
           ELSE Place("counts", 0, reader[r].fan, set, set)]
  /\ UNCHANGED <<chip, bits, period, count, counted, fanValue, fanValueObsolete, alone, moved>>

\* Where the divisor is moved, by the count that was read.
Moved_Eager(n, offset) ==
  CASE n > 192 /\ offset < 7 -> offset + 1
    [] n < 128 /\ offset > 0 -> offset - 1
    [] OTHER -> offset
Moved(n, offset) ==
  CASE n > 192 /\ offset < 7 -> offset + 1
    [] n < 96 /\ offset > 0 -> offset - 1
    [] OTHER -> offset

\* 1.35e6 / (count * divisor), as count and divisor; 0 when the count is full.
NoSpeed == [count |-> 255, offset |-> 0]
Speed_New(n, offset) == IF n < 255 THEN [count |-> n, offset |-> Moved(n, offset)] ELSE NoSpeed
Speed(n, offset) == IF n < 255 THEN [count |-> n, offset |-> offset] ELSE NoSpeed

\* The next fan, or the last.
Done_Late(r) == reader[r].i = chip.fanLimit
Done(r) == reader[r].i = chip.fanLimit - 1

ReadCount(r) ==
  /\ reader[r].at = "counts" /\ ~chip.nuvoton
  /\ LET f == reader[r].i
         offset == Offset(f, reader[r].bits)
         to == Moved(count[f], offset)
     IN  /\ fanValue' = [fanValue EXCEPT ![f] = Speed(count[f], offset)]
         /\ fanValueObsolete' = [fanValueObsolete EXCEPT ![f] = 0]
         /\ moved' = [moved EXCEPT ![f] = IF alone /\ count[f] = Counts(f) THEN to - offset ELSE 0]
         /\ reader' = [reader EXCEPT ![r] =
              Place(IF Done(r) THEN "write" ELSE "counts", IF Done(r) THEN 4 ELSE f + 1, reader[r].fan,
                    reader[r].bits, (reader[r].new \ AllBits(f)) \union OffsetBits(f, to))]
  /\ UNCHANGED <<chip, bits, period, count, counted, alone>>

\* On a Nuvoton chip.  fanValue has five elements and fanValueObsolete comes
\* after it: the sixth value is stored in the first two flags.
ReadSpeed(r) ==
  /\ reader[r].at = "counts" /\ chip.nuvoton
  /\ LET f == reader[r].i
     IN  /\ IF f < 5 THEN /\ fanValue' = [fanValue EXCEPT ![f] = [count |-> period[f], offset |-> 0]]
                          /\ fanValueObsolete' = [fanValueObsolete EXCEPT ![f] = 0]
            ELSE /\ fanValueObsolete' = [fanValueObsolete EXCEPT ![0] = period[5] % 256,
                                                                 ![1] = period[5] \div 256, ![5] = 0]
                 /\ UNCHANGED fanValue
         /\ reader' = [reader EXCEPT ![r] =
              Place(IF Done(r) THEN "last" ELSE "counts", IF Done(r) THEN 0 ELSE f + 1, reader[r].fan, {}, {})]
  /\ UNCHANGED <<chip, bits, period, count, counted, alone, moved>>

\* The registers whose bits changed are written, the last first.
WriteDivisor(r) ==
  /\ reader[r].at = "write"
  /\ LET i == reader[r].i
         old == reader[r].bits \intersect InRegister(i)
         new == reader[r].new \intersect InRegister(i)
     IN  /\ bits' = IF old # new THEN (bits \ InRegister(i)) \union new ELSE bits
         /\ reader' = [reader EXCEPT ![r] =
              Place(IF i = 0 THEN "last" ELSE "write", IF i = 0 THEN 0 ELSE i - 1, reader[r].fan,
                    reader[r].bits, reader[r].new)]
  /\ UNCHANGED <<chip, period, count, counted, fanValue, fanValueObsolete, alone, moved>>

Finish(r) ==
  /\ reader[r].at = "last"
  /\ fanValueObsolete' = [fanValueObsolete EXCEPT ![reader[r].fan] = 1]
  /\ reader' = [reader EXCEPT ![r] = Resting]
  /\ alone' = (alone /\ ~\E q \in Others(r) : Refreshing(q))
  /\ UNCHANGED <<chip, bits, period, count, counted, fanValue, moved>>

-----------------------------------------------------------------------------
\* After start, which made one update and used every value.
W836xInit ==
  /\ chip \in Chips
  /\ bits = chip.bits
  /\ period \in {p \in [0..5 -> UNION {Periods(f) : f \in 0..5}] : \A f \in 0..5 : p[f] \in Periods(f)}
  /\ count = [f \in 0..4 |-> IF f \in Divided THEN Counts(f) ELSE 0]
  /\ counted = [f \in 0..4 |-> IF f \in Divided THEN Offset(f, bits) ELSE 0]
  /\ fanValue = [f \in 0..4 |-> NoSpeed]
  /\ fanValueObsolete = [f \in 0..5 |-> 1]
  /\ reader = [r \in Readers |-> Resting]
  /\ alone = TRUE /\ moved = [f \in 0..4 |-> 0]

Hardware == \E f \in Fans : Measure(f) \/ \E p \in Periods(f) : Changes(f, p)

Update(r) == ReadDivisor(r) \/ ReadCount(r) \/ ReadSpeed(r) \/ WriteDivisor(r) \/ Finish(r)

W836xNext == Hardware \/ \E r \in Readers : Update(r) \/ \E f \in Fans : Use(r, f) \/ Refresh(r, f)

W836xSpec == W836xInit /\ [][W836xNext]_w836xVars
-----------------------------------------------------------------------------
W836xTypeOK ==
  /\ chip \in Chips /\ bits \subseteq 0..39
  /\ \A f \in Fans : period[f] \in Periods(f)
  /\ count \in [0..4 -> 0..255] /\ counted \in [0..4 -> 0..7]
  /\ fanValue \in [0..4 -> [count : Nat, offset : 0..7]]
  /\ fanValueObsolete \in [0..5 -> 0..255]
  /\ \A r \in Readers :
       /\ reader[r].at \in {"idle", "divisors", "counts", "write", "last"}
       /\ reader[r].at \in {"divisors", "write"} => reader[r].i \in 0..4
       /\ reader[r].at = "counts" => reader[r].i \in Fans
  /\ alone \in BOOLEAN /\ moved \in [0..4 -> {-1, 0, 1}]

\* The value kept for a fan is the fan's speed, to within a unit of the count
\* (and 0 when it turns too slowly to be counted): the count goes with the divisor
\* read several accesses before, provided that the chip has counted anew since the
\* divisor was moved and that no other thread moves it meanwhile.
SpeedsAreTrue ==
  [][\A f \in Divided :
       (fanValue'[f] # fanValue[f] /\ alone /\ count[f] = Counts(f) /\ counted[f] = Offset(f, bits)) =>
         LET unit == Unit(fanValue'[f].offset)
         IN  IF fanValue'[f] = NoSpeed THEN period[f] >= 255 * Unit(Offset(f, bits))
             ELSE period[f] \in (fanValue'[f].count * unit)..((fanValue'[f].count + 1) * unit - 1)]_w836xVars

\* A divisor that was moved to fit the fan fits it then: it is not moved back as
\* long as the fan keeps its speed (192 is twice 96, and a full count is above),
\* unless two updates that overlap move it twice.
DivisorsDoNotHunt == [][\A f \in 0..4 : moved[f] = 0 \/ moved'[f] # -moved[f]]_w836xVars
=============================================================================
