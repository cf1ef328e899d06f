---------------------------- MODULE BatteryLevels ----------------------------
(***************************************************************************)
(* What VoodooBattery makes of the capacities its batteries report, and    *)
(* what it answers for their keys.  A battery reports charge, in mAh, or   *)
(* energy, in mWh, which is turned into charge by its design voltage; some *)
(* say mWh and report mAh.  Whether figures are to be turned is one flag   *)
(* for all batteries: BatteryInformation clears it, asks for the status    *)
(* and sets it again, and the status that a key asks for goes by it.       *)
(*                                                                         *)
(* Calls follow one another here; how they interleave, and polling, are in *)
(* VoodooBattery.  Rates, times and voltages are left out, and capacities  *)
(* are known.                                                              *)
(***************************************************************************)
EXTENDS Integers, FiniteSets

CONSTANTS
  Packs,        (* machines: for each battery [unit, says, design, full, volt] *)
  LeastDesign   (* 900 in the code: less is taken for mAh                   *)

Units == {"mAh", "mWh"}

\* A battery that reports energy says so and is made for no less than a battery
\* usually is; the design of one that says so and reports charge would then be less.
ASSUME PacksAssumption ==
  /\ LeastDesign \in Nat
  /\ \A p \in Packs : \A b \in DOMAIN p :
       /\ {p[b].unit, p[b].says} \subseteq Units
       /\ p[b].volt \in Nat \ {0}
       /\ p[b].design \in Nat /\ p[b].full \in Nat
       /\ p[b].unit = "mWh" => p[b].says = "mWh" /\ p[b].design >= LeastDesign
       /\ p[b].unit = "mAh" /\ p[b].says = "mWh" => p[b].design \div p[b].volt < LeastDesign

VARIABLES
  pack,        (* the batteries                                             *)
  charge,      (* what they hold, in mAh                                    *)
  inserted,
  Battery,     (* what the driver has of each                               *)
  PowerUnitIsWatt,
  source,      (* of each battery, published: [current, max]                *)
  answered,      (* of a key just read: its kind, and for each battery it is  *)
               (* about the value and the charge there is                   *)
  panicked,    (* divided by zero                                           *)
  informed     (* history: the battery of the last BatteryInformation, if   *)
               (* that was inserted and answered, else 0                    *)

levelVars == <<pack, charge, inserted, Battery, PowerUnitIsWatt, source, answered, panicked, informed>>

Cells == DOMAIN pack
States == {"full", "in use"}   (* charging and discharging make no difference here *)
Unread == [DesignCapacity |-> 0, LastFullChargeCapacity |-> 0, DesignVoltage |-> 0,
           RemainingCapacity |-> 0, LastRemainingCapacity |-> 0]
Blank == [current |-> 0, max |-> 0]
NotAnswered == [kind |-> "none", value |-> <<>>, held |-> <<>>]

\* A figure in the unit the battery reports in.
Reported(b, mAh) == IF pack[b].unit = "mWh" THEN mAh * pack[b].volt ELSE mAh

Larger(m, n) == IF m < n THEN n ELSE m
Smaller(m, n) == IF m < n THEN m ELSE n

-----------------------------------------------------------------------------
(* BatteryStatus *)

Measured_AsReported(b, watts, volt) == Reported(b, charge[b])
Measured(b, watts, volt) == IF watts THEN Reported(b, charge[b]) \div volt ELSE Reported(b, charge[b])

\* A battery that is full is published with what it held when last asked, unless that
\* was nothing or as much as it is made for.
ShownWhenFull(old, remaining) ==
  IF old.LastRemainingCapacity >= old.DesignCapacity \/ old.LastRemainingCapacity = 0
  THEN remaining ELSE old.LastRemainingCapacity

\* What the driver has of battery b, and what it publishes, after a _BST that says
\* that the battery is in state s.
Known(b, s, watts) ==
  LET old == Battery[b]
      remaining == Measured(b, watts, old.DesignVoltage)
      full == IF s = "full" THEN remaining ELSE Larger(old.LastFullChargeCapacity, remaining)
  IN [battery |-> [old EXCEPT !.RemainingCapacity = remaining, !.LastRemainingCapacity = remaining,
                              !.LastFullChargeCapacity = full],
      source |-> [current |-> IF s = "full" THEN ShownWhenFull(old, remaining) ELSE remaining,
                  max |-> full]]

\* Without an answer the charge there was last stays.
Unanswered(b) == [battery |-> [Battery[b] EXCEPT !.LastRemainingCapacity = Battery[b].RemainingCapacity],
            source |-> source[b]]

Divides(b, watts) == watts => Battery[b].DesignVoltage # 0

\* BatteryStatus of each of the batteries bs; stats says what _BST of each answers.
Replies == States \union {"no answer"}
After(b, reply, watts) == IF reply = "no answer" THEN Unanswered(b) ELSE Known(b, reply, watts)

BatteryStatus(bs, reply, watts) ==
  /\ Battery' = [b \in Cells |-> IF b \in bs THEN After(b, reply[b], watts).battery ELSE Battery[b]]
  /\ source' = [b \in Cells |-> IF b \in bs THEN After(b, reply[b], watts).source ELSE source[b]]

Stops(bs, reply, watts) == \E b \in bs : reply[b] # "no answer" /\ ~Divides(b, watts)

-----------------------------------------------------------------------------
(* BatteryInformation *)

\* Whether a battery's figures are divided by its voltage: one whose design is then
\* too small says mWh and means mAh.
IsWatt_AsItSays(b) == pack[b].says = "mWh"
IsWatt(b) == pack[b].says = "mWh" /\ Reported(b, pack[b].design) \div pack[b].volt >= LeastDesign

\* Design and full capacity of _BIX or _BIF; the larger is taken for the design.
Informed(b, battery) ==
  LET In(mAh) == IF IsWatt(b) THEN Reported(b, mAh) \div pack[b].volt ELSE Reported(b, mAh)
      design == In(pack[b].design)
      full == In(pack[b].full)
  IN [battery EXCEPT !.DesignCapacity = Larger(design, full),
                     !.LastFullChargeCapacity = Smaller(design, full),
                     !.DesignVoltage = pack[b].volt]

\* The flag is cleared, the status of an inserted battery read, and what it is made
\* for; neither need answer.
BatteryInformation(b) ==
  \E reply \in Replies, answers \in BOOLEAN :
    LET status == After(b, reply, FALSE)
        battery == IF answers THEN Informed(b, status.battery) ELSE status.battery
    IN /\ Battery' = [Battery EXCEPT ![b] = battery]
       /\ source' = [source EXCEPT ![b] = IF answers THEN [status.source EXCEPT !.max = battery.LastFullChargeCapacity]
                                                     ELSE status.source]
       /\ PowerUnitIsWatt' = (answers /\ IsWatt(b))
       /\ informed' = IF answers THEN b ELSE 0

\* A battery that is gone is blanked out.
BlankOut(b) ==
  /\ source' = [source EXCEPT ![b] = Blank]
  /\ PowerUnitIsWatt' = FALSE
  /\ informed' = 0
  /\ UNCHANGED Battery

-----------------------------------------------------------------------------
LevelsInit ==
  /\ pack \in Packs
  /\ charge = [b \in Cells |-> pack[b].full]
  /\ inserted = {}
  /\ Battery = [b \in Cells |-> Unread]
  /\ PowerUnitIsWatt = FALSE
  /\ source = [b \in Cells |-> Blank]
  /\ answered = NotAnswered
  /\ panicked = FALSE
  /\ informed = 0

\* The battery charges or discharges.
Drift ==
  /\ \E b \in inserted : \E c \in {charge[b] - 1, charge[b] + 1} \intersect 0..pack[b].full :
       charge' = [charge EXCEPT ![b] = c]
  /\ UNCHANGED answered
  /\ UNCHANGED <<pack, inserted, Battery, PowerUnitIsWatt, source, panicked, informed>>

\* CheckDevices, when a battery was put in or taken out.
PutIn ==
  /\ \E b \in Cells \ inserted : inserted' = inserted \union {b} /\ BatteryInformation(b)
  /\ UNCHANGED answered
  /\ UNCHANGED <<pack, charge, panicked>>

TakeOut ==
  /\ \E b \in inserted : inserted' = inserted \ {b} /\ BlankOut(b)
  /\ UNCHANGED answered
  /\ UNCHANGED <<pack, charge, panicked>>

\* Update, for each battery, and the keys of its voltage and its current.
Inform ==
  /\ \E b \in Cells : IF b \in inserted THEN BatteryInformation(b) ELSE BlankOut(b)
  /\ UNCHANGED answered
  /\ UNCHANGED <<pack, charge, inserted, panicked>>

\* "B0RM" asks for the status of its battery, inserted or not; "BRSC" for those of
\* all that are inserted, and answers percentages.
Percent(battery) == (battery.RemainingCapacity * 100) \div battery.LastFullChargeCapacity
AnswerOf(kind, bs) ==
  [kind |-> kind, held |-> [b \in bs |-> charge[b]],
   value |-> [b \in bs |-> IF kind = "remaining" THEN Battery'[b].RemainingCapacity ELSE Percent(Battery'[b])]]

Asks == {[kind |-> "remaining", of |-> {b}] : b \in Cells} \union {[kind |-> "percent", of |-> inserted]}

ReadLevel ==
  /\ \E ask \in Asks : \E reply \in [ask.of -> Replies] :
       IF Stops(ask.of, reply, PowerUnitIsWatt)
       THEN panicked' = TRUE /\ answered' = NotAnswered /\ UNCHANGED <<Battery, source>>
       ELSE /\ BatteryStatus(ask.of, reply, PowerUnitIsWatt)
            /\ panicked' = (ask.kind = "percent" /\ \E b \in inserted : Battery'[b].LastFullChargeCapacity = 0)
            /\ answered' = IF panicked' THEN NotAnswered ELSE AnswerOf(ask.kind, {b \in ask.of : reply[b] # "no answer"})
  /\ UNCHANGED <<pack, charge, inserted, PowerUnitIsWatt, informed>>

\* The caller has its answer.
AnswerTaken ==
  answered' = NotAnswered /\ UNCHANGED <<pack, charge, inserted, Battery, PowerUnitIsWatt, source, panicked, informed>>

LevelsNext ==
  /\ ~panicked
  /\ \/ answered = NotAnswered /\ (Drift \/ PutIn \/ TakeOut \/ Inform \/ ReadLevel)
     \/ answered # NotAnswered /\ AnswerTaken
LevelsSpec == LevelsInit /\ [][LevelsNext]_levelVars

-----------------------------------------------------------------------------
LevelsTypeOK ==
  /\ pack \in Packs
  /\ inserted \subseteq Cells
  /\ informed \in Cells \union {0}
  /\ {PowerUnitIsWatt, panicked} \subseteq BOOLEAN
  /\ \A b \in Cells : charge[b] \in 0..pack[b].full
                      /\ \A f \in DOMAIN Unread : Battery[b][f] \in Nat

\* A battery whose status arrives is answered for with what it holds, in mAh, and with a
\* percentage: whatever batteries were put in, taken out, charged and asked for in
\* between, as long as the last one the driver was informed of counts as this one does,
\* since they share the flag that says how.
LevelsAreTrue ==
  [][ReadLevel /\ ~panicked' =>
       \A b \in DOMAIN answered'.value :
         /\ answered'.kind = "percent" => answered'.value[b] <= 100
         /\ answered'.kind = "remaining" /\ informed # 0 /\ IsWatt(informed) = IsWatt(b) =>
              answered'.value[b] = answered'.held[b]]_levelVars
=============================================================================
