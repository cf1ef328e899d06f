-------------------------------- MODULE GPUKeys --------------------------------
(***************************************************************************)
(* How the four GPU plug-ins share the keys "TG<i>D", "TG<i>H", "TG<i>P",  *)
(* "VC<i>G" and "CG<i>C".  Each looks for an index no other card has, in a *)
(* way of its own; NVClockX just counts its cards.  All of them match the  *)
(* same provider, so that their starts follow one another; they may be     *)
(* stopped and started again.                                              *)
(*                                                                         *)
(* A key is known by its kind and index.  Of FakeSMC the model has what    *)
(* these calls do: a key once added stays; adding its handler again hands  *)
(* it over; removing a handler leaves it in place (see SMCKeys).           *)
(***************************************************************************)
EXTENDS Integers, FiniteSets

CONSTANTS
  LastIndex,   (* 15 in the code                                            *)
  Graphics     (* machines: for each plug-in installed, the sets of kinds   *)
               (* its card may have keys of, one set for each card          *)

KeyKinds == {"D", "H", "P", "G", "C"}
Monitors == {"GeforceSensors", "RadeonMonitor", "X3100monitor", "NVClockX"}

ASSUME GraphicsAssumption ==
  /\ LastIndex \in Nat
  /\ \A g \in Graphics :
       /\ DOMAIN g \subseteq Monitors
       /\ \A p \in DOMAIN g : g[p] \in [0..(Cardinality(DOMAIN g[p]) - 1) -> SUBSET KeyKinds]
       /\ \A p \in DOMAIN g \ {"NVClockX"} : 0 \in DOMAIN g[p]
       /\ \A p \in {"RadeonMonitor", "X3100monitor"} \intersect DOMAIN g : g[p][0] \subseteq {"D"}

VARIABLES
  graphics,  (* the machine                                                 *)
  server,    (* for each key that exists: the plug-in serving it, or "gone" *)
             (* when that was stopped                                       *)
  sensors,   (* for each plug-in: the keys it has in its dictionary         *)
  running,
  overrun    (* history: plug-ins that lost a key to one that did not look  *)
             (* for a vacant index, or found none                           *)

gpuVars == <<graphics, server, sensors, running, overrun>>

Indices == 0..LastIndex
Exists(kind, i) == <<kind, i>> \in DOMAIN server

\* getVacantGPUIndex looks for every kind it may register ...
Scanned_NotDiode(p) == IF p = "GeforceSensors" THEN KeyKinds \ {"D"} ELSE {"D"}
Scanned(p) == IF p = "GeforceSensors" THEN KeyKinds ELSE {"D"}

Vacant(p) == {i \in Indices : \A kind \in Scanned(p) : ~Exists(kind, i)}

\* ... and returns false, 0, when no index is vacant; RadeonMonitor and
\* X3100monitor go on with the name of the last index.
Index(p) == IF Vacant(p) # {} THEN CHOOSE i \in Vacant(p) : \A j \in Vacant(p) : i <= j
            ELSE IF p = "GeforceSensors" THEN 0 ELSE LastIndex

\* The keys a start adds its handler to: those of the one card, or in NVClockX
\* those of every card under the number of the card.
Claimed(p) ==
  IF p = "NVClockX"
  THEN UNION {{<<kind, i>> : kind \in graphics[p][i]} : i \in DOMAIN graphics[p]}
  ELSE {<<kind, Index(p)>> : kind \in graphics[p][0]}

StartGpu(p) ==
  /\ p \in DOMAIN graphics \ running
  /\ running' = running \union {p}
  /\ server' = [k \in DOMAIN server \union Claimed(p) |-> IF k \in Claimed(p) THEN p ELSE server[k]]
  /\ sensors' = [sensors EXCEPT ![p] = IF p \in {"RadeonMonitor", "X3100monitor"} /\ Vacant(p) = {} THEN {}
                                       ELSE Claimed(p)]
  /\ overrun' = (overrun \ {p}) \union
       IF p # "NVClockX" /\ Vacant(p) # {} THEN {} ELSE {q \in running : sensors[q] \intersect Claimed(p) # {}}
  /\ UNCHANGED graphics

\* stop: the keys it served stay, with a handler that is no more.
StopGpu(p) ==
  /\ p \in running
  /\ running' = running \ {p}
  /\ server' = [k \in DOMAIN server |-> IF server[k] = p THEN "gone" ELSE server[k]]
  /\ sensors' = [sensors EXCEPT ![p] = {}]
  /\ UNCHANGED <<graphics, overrun>>

GpuInit ==
  /\ graphics \in Graphics
  /\ server = <<>> /\ running = {} /\ overrun = {}
  /\ sensors = [p \in Monitors |-> {}]

GpuNext == \E p \in Monitors : StartGpu(p) \/ StopGpu(p)

GpuSpec == GpuInit /\ [][GpuNext]_gpuVars
-----------------------------------------------------------------------------
GpuTypeOK ==
  /\ graphics \in Graphics
  /\ DOMAIN server \subseteq KeyKinds \X Nat
  /\ \A k \in DOMAIN server : server[k] \in Monitors \union {"gone"}
  /\ running \subseteq DOMAIN graphics /\ overrun \subseteq DOMAIN graphics
  /\ \A p \in Monitors : sensors[p] \subseteq DOMAIN server

\* A plug-in that runs goes on serving the keys it registered, through any order
\* of starts, stops and restarts of the others, each of which leaves keys behind
\* that nobody serves: no other takes its index.  Excepted are those whose key was
\* taken by NVClockX, or by a plug-in that was told 0 because no index was vacant.
KeysAreKept ==
  \A p \in running \ overrun : \A k \in sensors[p] : server[k] = p
=============================================================================
