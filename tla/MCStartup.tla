------------------------------ MODULE MCStartup ------------------------------
(* What fills the store, for TLC: a behaviour is init's, which loads the keys *)
(* of a dictionary with an unusable entry and of the boot loader, some of     *)
(* them with another type and value; or that of plug-ins which then add fans. *)
EXTENDS MCFanRegistration, SMCBoot

VARIABLE stage

MCREV == <<1, 1>>
MCRBr == <<1, 2>>
MCRVBF == <<1, 3>>
MCEPCI == <<1, 4>>
MCRPlt == <<1, 5>>
MCNATi == <<1, 6>>

Entry(u) == [usable |-> u, type |-> <<5, 1>>, value |-> <<1>>]
MCEntries == [n \in {MCREV, MCRBr, MCRVBF, MCEPCI, MCNATi} |-> Entry(n # MCNATi)]

Property(n) == [name |-> n, type |-> MCType, value |-> <<2, 2>>]
MCProperties ==
  <<Property(MCRPlt), Property(MCRBr), Property(MCREV), Property(MCRVBF), Property(MCEPCI)>>

\* No plug-in is there yet.
NoPlugin ==
  /\ pc = [p \in Handlers |-> "none"] /\ overlapped = FALSE
  /\ length = [p \in Handlers |-> 0] /\ tachs = [p \in Handlers |-> 0]
  /\ sensors = [p \in Handlers |-> {}] /\ added = [p \in Handlers |-> {}]

\* The loading of the dictionary is left aside.
NoLoading ==
  /\ args = {} /\ model = NoModel /\ isRevLess = FALSE
  /\ todo = {} /\ platform = {} /\ next = 1
  /\ given = [entries |-> {}, properties |-> {}]

StartupInit ==
  \/ stage = "boot" /\ BootInit /\ NoPlugin
  \/ stage = "fans" /\ FanInit /\ NoLoading

StartupNext ==
  \/ /\ stage = "boot" /\ BootNext
     /\ UNCHANGED <<stage, pc, length, sensors, tachs, added, overlapped>>
  \/ /\ stage = "fans" /\ FanNext
     /\ UNCHANGED <<stage, args, model, isRevLess, todo, platform, next, given>>

startupVars == <<stage, fanVars, bootVars>>

StartupSpec == StartupInit /\ [][StartupNext]_startupVars
=============================================================================
