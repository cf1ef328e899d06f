--------------------------- MODULE MCIntelCPUMonitor ---------------------------
(* The processors, for TLC: older than any the plug-in knows, and of each way   *)
(* to read it.                                                                  *)
EXTENDS IntelCPUMonitor

Machine(arch, cores, logical) == [arch |-> arch, count |-> cores, threads |-> logical]
MCMachines == {Machine("other", 1, 1), Machine("sandy", 1, 1), Machine("core", 2, 2), Machine("nehalem", 2, 4)}
=============================================================================
