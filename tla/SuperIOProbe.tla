------------------------------ MODULE SuperIOProbe ------------------------------
(***************************************************************************)
(* How the Super I/O plug-ins find their chip.  All of them match the same *)
(* provider, which tries one after the other, in an order that depends on  *)
(* when each was loaded.  A plug-in looks at two pairs of ports: it writes *)
(* the key that opens the configuration registers of its maker's chips,    *)
(* reads the identity, selects the logical device of the monitor, asks for *)
(* its address and closes the registers again.                             *)
(*                                                                         *)
(* The chips are external.  One that its key does not open, and an empty   *)
(* socket, reads 0xff; an NSC chip has no key and is always open.  The     *)
(* address registers of a logical device are known by whether they hold an *)
(* address the plug-in takes (0x100 and above, a multiple of 8, no bit     *)
(* above 11).                                                              *)
(***************************************************************************)
EXTENDS Integers, FiniteSets

CONSTANTS
  Boards    (* what is on the two pairs of ports: chips with maker, id,      *)
            (* revision, the logical devices that have a good address, and   *)
            (* whether the last checks of a plug-in succeed; and the         *)
            (* plug-ins that are installed                                   *)

Drivers == {"W836x", "F718x", "IT87x", "PC8739x"}
Ports == {0, 1}    \* SUPERIO_STANDART_PORT: 0x2e and 0x4e

-----------------------------------------------------------------------------
(* The tables of the plug-ins.                                              *)

\* W836x: for each id the revisions it takes, with the low half of the byte
\* masked out, and the number of fans.  Id 52 falls through into the revisions
\* of 59.
HighHalves ==
  {<<\h52, {\h10, \h30, \h40, \h50}, 3>>, <<\h59, {\h50}, 3>>, <<\h60, {\h10}, 2>>, <<\h68, {\h10}, 2>>,
   <<\h70, {\h80}, 5>>, <<\h82, {\h80}, 3>>, <<\h88, {\h50, \h60}, 5>>, <<\hA0, {\h20}, 5>>,
   <<\hA2, {\h30}, 2>>, <<\hA5, {\h10}, 2>>, <<\hB0, {\h70}, 5>>, <<\hB3, {\h50}, 4>>,
   <<\hB4, {\h70}, 6>>, <<\hC3, {\h30}, 6>>, <<\hC5, {\h60}, 6>>}

\* Ids taken with these revisions only, and with any.
WholeRevisions == {<<\h85, {\h41}, 3>>, <<\hD4, {\h23, \h28, \h2B, \h51}, 6>>}
AnyRevision == {<<\hC2, 5>>, <<\hC7, 6>>, <<\hC8, 6>>, <<\hC9, 6>>, <<\hD1, 6>>, <<\hD3, 6>>}

\* The fanLimits the table has for an identity.
WinbondFans(id, rev) ==
  {e[3] : e \in {h \in HighHalves : h[1] = id /\ (rev - (rev % 16)) \in h[2]}}
    \union {e[3] : e \in {w \in WholeRevisions : w[1] = id /\ rev \in w[2]}}
    \union {e[2] : e \in {a \in AnyRevision : a[1] = id}}

\* F718x, with the logical device of each.
FintekDevices ==
  [i \in {<<\h05, \h07>>, <<\h05, \h41>>, <<\h06, \h01>>, <<\h07, \h23>>, <<\h08, \h14>>, <<\h09, \h01>>,
          <<\h09, \h09>>, <<\h10, \h05>>, <<\h11, \h06>>} |-> IF i = <<\h05, \h07>> THEN 2 ELSE 4]

\* IT87x.
IteIds ==
  {\h8512, \h8613, \h8620, \h8628, \h8655, \h8665, \h8686, \h8688, \h8689, \h8705, \h8708, \h8712, \h8716,
   \h8718, \h8720, \h8721, \h8726, \h8728, \h8752, \h8771, \h8772, \h8792, \h8795, \h8987}

Knows(d, id, rev) == CASE d = "W836x" -> WinbondFans(id, rev) # {}
                       [] d = "F718x" -> <<id, rev>> \in DOMAIN FintekDevices
                       [] d = "IT87x" -> (256 * id) + rev \in IteIds
                       [] d = "PC8739x" -> id = \hFC

\* The logical device that is selected; what F718x does not know has the local
\* variable's initial value.
Device(d, id, rev) == CASE d = "W836x" -> \h0B
                        [] d = "F718x" -> IF Knows(d, id, rev) THEN FintekDevices[<<id, rev>>] ELSE 0
                        [] d = "IT87x" -> 4
                        [] d = "PC8739x" -> \h0F

-----------------------------------------------------------------------------
NoChip == [maker |-> "none", id |-> \hFF, rev |-> \hFF, good |-> {}, works |-> FALSE]
Makers == {"none", "Winbond", "Fintek", "ITE", "NSC"}

\* Whose chips a plug-in is for.
MakerOf == [W836x |-> "Winbond", F718x |-> "Fintek", IT87x |-> "ITE", PC8739x |-> "NSC"]

\* No byte of a chip's identity is one that is read of an empty socket (ITE has a
\* word for it, which is not), and none has an identity from the table of another
\* maker's plug-in.
ASSUME BoardAssumption ==
  \A b \in Boards :
    /\ b.drivers \subseteq Drivers
    /\ \A p \in Ports :
         LET c == b.chips[p]
         IN  /\ c.maker \in Makers /\ c.good \subseteq 0..\h0F /\ {c.id, c.rev} \subseteq 0..\hFF
             /\ c.maker \in {"Winbond", "Fintek", "NSC"} => {c.id, c.rev} \subseteq 1..(\hFF - 1)
             /\ \A d \in Drivers : c.maker # "none" /\ Knows(d, c.id, c.rev) => c.maker = MakerOf[d]

VARIABLES
  board,
  open,      (* the chips whose configuration registers are open            *)
  waiting,   (* the plug-ins that were not tried yet                        *)
  driver,    (* the one that is, or "none"                                  *)
  port, stage,  (* the ports it is at and how far it got there                 *)
  model,     (* its member variable: the identity it has, or none           *)
  device,    (* the logical device of the chip                              *)
  claims,    (* for each plug-in that found its chip: where and what        *)
  unsteady   (* history: plug-ins that read two different addresses         *)

probeVars == <<board, open, waiting, driver, port, stage, model, device, claims, unsteady>>

NoModel == <<0, 0>>
ChipAt(p) == board.chips[p]

\* The keys: 87 87; 87 01 55 55 (AA at the second pair of ports); none.
Opens(d) == CASE d \in {"W836x", "F718x"} -> {"Winbond", "Fintek"}
              [] d = "IT87x" -> {"ITE"}
              [] d = "PC8739x" -> {}

\* AA, and bit 1 of register 02.
Closes(d) == CASE d = "W836x" -> {"Winbond", "Fintek"}
               [] d = "F718x" -> {"Winbond", "Fintek", "ITE"}
               [] d = "IT87x" -> {"ITE"}
               [] d = "PC8739x" -> {}

AlwaysOpen == {p \in Ports : ChipAt(p).maker = "NSC"}

-----------------------------------------------------------------------------
(* SuperIOMonitor::probe, and probePort of each plug-in.                    *)

\* A new object, with model 0.
Match(d) ==
  /\ driver = "none" /\ d \in waiting
  /\ driver' = d /\ waiting' = waiting \ {d}
  /\ port' = 0 /\ stage' = "enter" /\ model' = NoModel /\ device' = 0
  /\ UNCHANGED <<board, open, claims, unsteady>>

Enter ==
  /\ stage = "enter"
  /\ open' = open \union (IF ChipAt(port).maker \in Opens(driver) THEN {port} ELSE {})
  /\ stage' = "identify"
  /\ UNCHANGED <<board, waiting, driver, port, model, device, claims, unsteady>>

Reads(value) == IF port \in open THEN value ELSE \hFF

\* W836x forgets what it found at the other ports, the others do not.
Kept == IF driver = "W836x" THEN NoModel ELSE model

\* An unknown chip is left alone, except by F718x when it already has a model.
GoesOnAnyway_All == model # NoModel
GoesOnAnyway == driver = "F718x" /\ model # NoModel

\* Neither byte, for IT87x not the word, is what is read of an empty socket.
There(id, rev) ==
  {id, rev} \intersect {0, \hFF} = {} \/ (driver = "IT87x" /\ (256 * id) + rev \notin {0, \hFFFF})

Identify ==
  /\ stage = "identify"
  /\ LET id == Reads(ChipAt(port).id)
         rev == Reads(ChipAt(port).rev)
         known == There(id, rev) /\ Knows(driver, id, rev)
     IN  /\ model' = IF known THEN <<id, rev>> ELSE Kept
         /\ device' = Device(driver, id, rev)
         /\ stage' = IF known \/ (There(id, rev) /\ GoesOnAnyway) THEN "select" ELSE "refused"
  /\ UNCHANGED <<board, open, waiting, driver, port, claims, unsteady>>

\* selectLogicalDevice and getLogicalDeviceAddress, whose two readings are 250 ms
\* apart.
Addressed(same) == device \in ChipAt(port).good /\ same

\* PC8739x goes on without an address.  Then the checks of the chip: vendor and
\* configuration (IT87x), presence (PC8739x).
CheckDevice(same) ==
  /\ stage = "select"
  /\ LET checked == driver \in {"IT87x", "PC8739x"} => ChipAt(port).works
     IN  stage' = IF (Addressed(same) \/ driver = "PC8739x") /\ checked THEN "found" ELSE "refused"
  /\ unsteady' = unsteady \union (IF same THEN {} ELSE {driver})
  /\ UNCHANGED <<board, open, waiting, driver, port, model, device, claims>>

\* Both ways out of probePort lead through exit.
Closed(p) == open \ (IF ChipAt(p).maker \in Closes(driver) THEN {p} ELSE {})

Exit ==
  /\ stage \in {"found", "refused"}
  /\ open' = Closed(port)
  /\ IF stage = "refused" /\ port = 0
     THEN port' = 1 /\ stage' = "enter" /\ UNCHANGED <<driver, claims>>
     ELSE /\ driver' = "none" /\ stage' = "none" /\ UNCHANGED port
          /\ claims' = IF stage = "refused" THEN claims
                       ELSE [d \in DOMAIN claims \union {driver} |->
                               IF d = driver THEN [port |-> port, model |-> model, device |-> device] ELSE claims[d]]
  /\ UNCHANGED <<board, waiting, model, device, unsteady>>

ProbeInit ==
  /\ board \in Boards
  /\ open = AlwaysOpen
  /\ waiting = board.drivers /\ driver = "none" /\ port = 0 /\ stage = "none"
  /\ model = NoModel /\ device = 0 /\ claims = <<>> /\ unsteady = {}

ProbeNext ==
  \/ \E d \in Drivers : Match(d)
  \/ Enter \/ Identify \/ Exit
  \/ \E same \in BOOLEAN : CheckDevice(same)

ProbeSpec == ProbeInit /\ [][ProbeNext]_probeVars
-----------------------------------------------------------------------------
ProbeTypeOK ==
  /\ DOMAIN board.chips = Ports /\ open \subseteq Ports
  /\ waiting \subseteq board.drivers /\ driver \in board.drivers \union {"none"}
  /\ port \in Ports /\ stage \in {"none", "enter", "identify", "select", "found", "refused"}
  /\ model \in (0..255) \X (0..255) /\ device \in 0..\h0F
  /\ DOMAIN claims \subseteq board.drivers /\ unsteady \subseteq board.drivers
  /\ \A d \in DOMAIN claims : claims[d].port \in Ports

\* Whether the plug-in could use what is on these ports.
Usable(d, p) ==
  /\ ChipAt(p).maker = MakerOf[d]
  /\ Knows(d, ChipAt(p).id, ChipAt(p).rev)
  /\ d # "PC8739x" => CASE d = "W836x" -> \h0B \in ChipAt(p).good
                        [] d = "F718x" -> FintekDevices[<<ChipAt(p).id, ChipAt(p).rev>>] \in ChipAt(p).good
                        [] OTHER -> 4 \in ChipAt(p).good
  /\ d \in {"IT87x", "PC8739x"} => ChipAt(p).works

\* Whichever plug-ins came before and whatever they wrote to the ports: when they
\* are asked in turn, a plug-in has a chip of its maker that it knows and whose
\* monitor it can reach, and none has another's.  F718x is
\* excepted when it was refused the address of a Fintek chip at the first ports:
\* it keeps that model for whatever chip is at the second.
Mistaken == Knows("F718x", ChipAt(0).id, ChipAt(0).rev) /\ ChipAt(0).maker = "Fintek"

ClaimsItsOwn ==
  \A d \in DOMAIN claims :
    (d = "F718x" /\ Mistaken /\ claims[d].port = 1) \/
      /\ Usable(d, claims[d].port)
      /\ claims[d].model = <<ChipAt(claims[d].port).id, ChipAt(claims[d].port).rev>>

\* A plug-in that gave up had no chip to give up, if the address did not change
\* between its two readings.
NoneIsMissed ==
  \A d \in board.drivers \ (waiting \union {driver} \union DOMAIN claims \union unsteady) :
    \A p \in Ports : ~Usable(d, p)

\* Nor did one that has the chip at the second ports pass another by.
TakesTheFirst == \A d \in DOMAIN claims \ unsteady : claims[d].port = 1 => ~Usable(d, 0)

\* Between two plug-ins, and after the last, no chip is left with its
\* configuration registers open: on every way through probePort, and also where a
\* plug-in opened a chip of another maker.
ChipsAreLeftClosed == stage = "none" => open = AlwaysOpen

\* When all plug-ins were asked in turn, each has the first chip it can use, none
\* has another's, and no chip is left open.
ChipsFindTheirDrivers == ClaimsItsOwn /\ NoneIsMissed /\ TakesTheFirst /\ ChipsAreLeftClosed
=============================================================================
