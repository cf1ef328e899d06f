---------------------------- MODULE PluginsProofs ----------------------------
(***************************************************************************)
(* Proofs about plug-ins that keep something true of what they share with  *)
(* others: keys of GPUs, the control of fans, the card's ROM, and what is  *)
(* told of power and of batteries; that the searches for a clock, a Super  *)
(* I/O chip and a sensor come to what they should, fans are numbered as    *)
(* they are controlled, and a list of all keys is one.                     *)
(***************************************************************************)
EXTENDS GPUKeys, SMIMonitor, GeforceStart, BatteryKeys, GeforceClocks, SuperIOProbe, SuperIOStart, BatteryLevels,
        GeforceProbe, SmcDumper, FiniteSetTheorems, TLAPS

(***************************************************************************)
(* A set of numbers up to n that is not empty has a least.                 *)
(***************************************************************************)
LEMMA LeastOf ==
  ASSUME NEW n \in Nat, NEW T, T \subseteq 0..n, T # {}
  PROVE  \E x \in T : \A y \in T : x <= y
<1> DEFINE U == {0..x : x \in T}
           R == StrictSubsetOrdering(0..n)
<1>1. IsWellFoundedOn(R, FiniteSubsetsOf(0..n))
  BY FS_Interval, FS_StrictSubsetOrderingWellFounded
<1>2. U \subseteq FiniteSubsetsOf(0..n) /\ U # {}
  <2>1. \A x \in T : IsFiniteSet(0..x) /\ 0..x \subseteq 0..n
    BY FS_Interval
  <2> QED BY <2>1 DEF FiniteSubsetsOf
<1>3. PICK u \in U : \A w \in U : <<w, u>> \notin R
  <2> HIDE DEF U, R
  <2> QED BY <1>1, <1>2, WFMin
<1>4. PICK x \in T : u = 0..x
  OBVIOUS
<1>5. ASSUME NEW y \in T, y < x PROVE FALSE
  <2>1. 0..y \in U /\ 0..y \subseteq 0..x /\ x \in 0..x /\ x \notin 0..y /\ 0..x \subseteq 0..n
    BY <1>5
  <2>2. <<0..y, u>> \in R
    BY <1>4, <2>1 DEF StrictSubsetOrdering
  <2> QED BY <1>3, <2>1, <2>2
<1> QED BY <1>5

-----------------------------------------------------------------------------
(* The keys of GPUs *)

GpuInv == GpuTypeOK /\ sensors \in [Monitors -> SUBSET DOMAIN server] /\ KeysAreKept

(***************************************************************************)
(* An index getVacantGPUIndex finds is one at which none of the kinds it   *)
(* looked for exists.                                                      *)
(***************************************************************************)
LEMMA IndexIsVacant ==
  ASSUME NEW p
  PROVE  Index(p) \in Nat /\ (Vacant(p) # {} => Index(p) \in Vacant(p))
<1>1. LastIndex \in Nat /\ Vacant(p) \subseteq 0..LastIndex
  BY GraphicsAssumption DEF Vacant, Indices
<1>2. CASE Vacant(p) # {}
  <2>1. \E i \in Vacant(p) : \A j \in Vacant(p) : i <= j
    BY <1>1, <1>2, LeastOf
  <2>2. Index(p) \in Vacant(p)
    BY <1>2, <2>1 DEF Index
  <2> QED BY <1>1, <2>2
<1>3. CASE Vacant(p) = {}
  BY <1>1, <1>3 DEF Index
<1> QED BY <1>2, <1>3

(***************************************************************************)
(* So the keys claimed under it are new.                                   *)
(***************************************************************************)
LEMMA ClaimedAreNew ==
  ASSUME GpuTypeOK, NEW p \in DOMAIN graphics
  PROVE  /\ Claimed(p) \subseteq KeyKinds \X Nat
         /\ p # "NVClockX" /\ Vacant(p) # {} => Claimed(p) \cap DOMAIN server = {}
<1>1. /\ graphics \in Graphics /\ p \in Monitors
      /\ graphics[p] \in [0..(Cardinality(DOMAIN graphics[p]) - 1) -> SUBSET KeyKinds]
      /\ p # "NVClockX" => 0 \in DOMAIN graphics[p]
      /\ p \in {"RadeonMonitor", "X3100monitor"} => graphics[p][0] \subseteq {"D"}
  BY GraphicsAssumption DEF GpuTypeOK
<1>2. \A i \in DOMAIN graphics[p] : i \in Int /\ graphics[p][i] \subseteq KeyKinds /\ i >= 0
  <2> DEFINE c == Cardinality(DOMAIN graphics[p]) - 1
  <2>1. graphics[p] \in [0..c -> SUBSET KeyKinds]
    BY <1>1
  <2> HIDE DEF c
  <2>2. DOMAIN graphics[p] = 0..c
    BY <2>1
  <2> QED BY <2>1, <2>2
<1>3. CASE p = "NVClockX"
  BY <1>2, <1>3 DEF Claimed
<1>4. CASE p # "NVClockX"
  <2>1. graphics[p][0] \subseteq KeyKinds /\ graphics[p][0] \subseteq Scanned(p)
    BY <1>1, <1>2, <1>4 DEF Scanned, Monitors
  <2>2. Claimed(p) = {<<kind, Index(p)>> : kind \in graphics[p][0]}
    BY <1>4 DEF Claimed
  <2>3. Index(p) \in Nat /\ (Vacant(p) # {} => Index(p) \in Vacant(p))
    BY IndexIsVacant
  <2>4. Vacant(p) # {} => \A kind \in graphics[p][0] : <<kind, Index(p)>> \notin DOMAIN server
    BY <2>1, <2>3 DEF Vacant, Exists
  <2> QED BY <2>1, <2>2, <2>3, <2>4
<1> QED BY <1>3, <1>4

LEMMA StartGpuStep ==
  ASSUME GpuInv, NEW p \in Monitors, StartGpu(p)
  PROVE  GpuInv'
<1> DEFINE taken == {q \in running : sensors[q] \intersect Claimed(p) # {}}
           looked == p # "NVClockX" /\ Vacant(p) # {}
           mine == IF p \in {"RadeonMonitor", "X3100monitor"} /\ Vacant(p) = {} THEN {} ELSE Claimed(p)
<1>1. /\ p \in DOMAIN graphics /\ p \notin running /\ running' = running \cup {p}
      /\ server' = [k \in DOMAIN server \cup Claimed(p) |-> IF k \in Claimed(p) THEN p ELSE server[k]]
      /\ sensors' = [sensors EXCEPT ![p] = mine]
      /\ overrun' = (overrun \ {p}) \cup (IF looked THEN {} ELSE taken)
      /\ graphics' = graphics
  BY DEF StartGpu
<1>2. GpuTypeOK /\ sensors \in [Monitors -> SUBSET DOMAIN server] /\ KeysAreKept
  BY DEF GpuInv
<1>3. Claimed(p) \subseteq KeyKinds \X Nat /\ (looked => Claimed(p) \cap DOMAIN server = {})
  BY <1>1, <1>2, ClaimedAreNew
<1>4. mine \subseteq Claimed(p)
  OBVIOUS
<1> HIDE DEF looked, mine
<1>5. DOMAIN server' = DOMAIN server \cup Claimed(p)
      /\ \A k \in DOMAIN server' : server'[k] = IF k \in Claimed(p) THEN p ELSE server[k]
  BY <1>1
<1>6. \A q \in Monitors : sensors'[q] = IF q = p THEN mine ELSE sensors[q]
  BY <1>1, <1>2
<1>7. sensors' \in [Monitors -> SUBSET DOMAIN server']
  BY <1>1, <1>2, <1>4, <1>5
<1>8. GpuTypeOK'
  <2>1. \A k \in DOMAIN server' : server'[k] \in Monitors \cup {"gone"}
    BY <1>2, <1>5 DEF GpuTypeOK
  <2> QED BY <1>1, <1>2, <1>3, <1>5, <1>7, <2>1 DEF GpuTypeOK
<1>9. KeysAreKept'
  <2> SUFFICES ASSUME NEW q \in running' \ overrun', NEW k \in sensors'[q] PROVE server'[k] = q
    BY DEF KeysAreKept
  <2>1. CASE q = p
    BY <1>4, <1>5, <1>6, <2>1
  <2>2. CASE q # p
    <3>1. q \in running \ overrun /\ q \in Monitors /\ sensors'[q] = sensors[q]
      BY <1>1, <1>2, <1>6, <2>2, GraphicsAssumption DEF GpuTypeOK
    <3>2. server[k] = q /\ k \in DOMAIN server
      BY <1>2, <3>1 DEF KeysAreKept
    <3>3. k \notin Claimed(p)
      BY <1>1, <1>3, <3>1, <3>2
    <3> QED BY <1>5, <3>2, <3>3
  <2> QED BY <2>1, <2>2
<1> QED BY <1>7, <1>8, <1>9 DEF GpuInv

LEMMA StopGpuStep ==
  ASSUME GpuInv, NEW p \in Monitors, StopGpu(p)
  PROVE  GpuInv'
<1>1. /\ p \in running /\ running' = running \ {p}
      /\ server' = [k \in DOMAIN server |-> IF server[k] = p THEN "gone" ELSE server[k]]
      /\ sensors' = [sensors EXCEPT ![p] = {}]
      /\ UNCHANGED <<graphics, overrun>>
  BY DEF StopGpu
<1>2. GpuTypeOK /\ sensors \in [Monitors -> SUBSET DOMAIN server] /\ KeysAreKept
  BY DEF GpuInv
<1>3. sensors' \in [Monitors -> SUBSET DOMAIN server']
      /\ \A q \in Monitors : q # p => sensors'[q] = sensors[q]
  BY <1>1, <1>2
<1>4. GpuTypeOK'
  BY <1>1, <1>2, <1>3 DEF GpuTypeOK
<1>5. KeysAreKept'
  <2> SUFFICES ASSUME NEW q \in running' \ overrun', NEW k \in sensors'[q] PROVE server'[k] = q
    BY DEF KeysAreKept
  <2>1. q \in running \ overrun /\ q \in Monitors /\ q # p
    BY <1>1, <1>2, GraphicsAssumption DEF GpuTypeOK
  <2>2. sensors'[q] = sensors[q] /\ server[k] = q /\ k \in DOMAIN server
    BY <1>2, <1>3, <2>1 DEF KeysAreKept
  <2> QED BY <1>1, <2>1, <2>2
<1> QED BY <1>3, <1>4, <1>5 DEF GpuInv

(***************************************************************************)
(* Whatever the machine and the number of indices: a plug-in that runs     *)
(* serves the keys it registered, unless one took them that did not look   *)
(* for a vacant index or found none.                                       *)
(***************************************************************************)
THEOREM GpuKeysAreKept == GpuSpec => []KeysAreKept
<1>1. GpuInit => GpuInv
  BY GraphicsAssumption DEF GpuInit, GpuInv, GpuTypeOK, KeysAreKept
<1>2. GpuInv /\ [GpuNext]_gpuVars => GpuInv'
  <2> SUFFICES ASSUME GpuInv, [GpuNext]_gpuVars PROVE GpuInv'
    OBVIOUS
  <2>1. CASE GpuNext
    BY <2>1, StartGpuStep, StopGpuStep DEF GpuNext
  <2>2. CASE UNCHANGED gpuVars
    BY <2>2 DEF gpuVars, GpuInv, GpuTypeOK, KeysAreKept
  <2> QED BY <2>1, <2>2
<1>3. GpuInv => KeysAreKept
  BY DEF GpuInv
<1> QED BY <1>1, <1>2, <1>3, PTL DEF GpuSpec

-----------------------------------------------------------------------------
(* The start of GeforceSensors *)

\* A window is open only while an image is copied through it ...
WindowsOK ==
  windows \subseteq CASE step = "PRAMIN" -> {"PRAMIN"}
                      [] step = "PROM" -> {"PROM"}
                      [] OTHER -> {}

\* ... and there is an image from the step that has found one on.
ImageOK ==
  /\ step \in {"probed", "vbios", "without keys", "stopped"} => image = "absent"
  /\ step \in {"init", "i2c", "register", "started"} => image # "absent"

Registered ==
  /\ "TGxH" \in sensorKeys => "core_temp_get" \in bound
  /\ sensorKeys \cap {ClockOf[k] : k \in DOMAIN ClockOf} # {} => "clocks_get" \in bound

\* What the family sets stays set, and a key that is read is one that was registered.
FunctionsOK ==
  /\ step \in {"i2c", "register", "started"} => Bound(graphicsCard.chip) \subseteq bound
  /\ step = "started" => Registered
  /\ called # << >> =>
       step = "started" /\ \E key \in sensorKeys : called = <<key, AnsweredBy(key)>>

GeforceStartInv == graphicsCard \in GeforceCards /\ WindowsOK /\ ImageOK /\ FunctionsOK

(***************************************************************************)
(* Keys are registered for functions that are set.                         *)
(***************************************************************************)
LEMMA RegisterSensorsStep ==
  ASSUME GeforceStartInv, RegisterSensors, UNCHANGED graphicsCard
  PROVE  Registered' /\ Bound(graphicsCard.chip) \subseteq bound'
<1>1. graphicsCard.clocks \subseteq {"core", "shader", "rop", "memory"}
  BY GeforceStartAssumption DEF GeforceStartInv
<1>2. PICK turns, told, duty :
        sensorKeys' = TemperatureKeys \cup ClockKeys(bound) \cup (IF turns THEN FanKeys(told, duty) ELSE {})
  BY DEF RegisterSensors
<1>3. bound' = bound /\ Bound(graphicsCard.chip) \subseteq bound
  BY DEF RegisterSensors, GeforceStartInv, FunctionsOK
<1>4. {ClockOf[k] : k \in DOMAIN ClockOf} = {"CGxC", "CGxS", "CGxR", "CGxM"}
      /\ {ClockOf[k] : k \in graphicsCard.clocks} \subseteq {"CGxC", "CGxS", "CGxR", "CGxM"}
  BY <1>1 DEF ClockOf
<1>5. ClockKeys(bound) \subseteq {"CGxC", "CGxS", "CGxR", "CGxM"}
      /\ (ClockKeys(bound) # {} => "clocks_get" \in bound)
  BY <1>4 DEF ClockKeys
<1>6. TemperatureKeys \subseteq {"TGxD", "TGxH", "TGxP"}
      /\ ("TGxH" \in TemperatureKeys => "core_temp_get" \in bound)
  BY DEF TemperatureKeys
<1>7. FanKeys(told, duty) \subseteq {"FxAc", "FGxP"}
  BY DEF FanKeys
<1>8. "TGxH" \in sensorKeys' => "core_temp_get" \in bound
  BY <1>2, <1>5, <1>6, <1>7
<1>9. sensorKeys' \cap {"CGxC", "CGxS", "CGxR", "CGxM"} # {} => "clocks_get" \in bound
  BY <1>2, <1>5, <1>6, <1>7
<1> QED BY <1>3, <1>4, <1>8, <1>9 DEF Registered

(***************************************************************************)
(* A key that is read is answered by a function its chip has.              *)
(***************************************************************************)
LEMMA RegisteredAreBound ==
  ASSUME GeforceStartInv
  PROVE  CallsAreBound
<1> SUFFICES ASSUME called # << >>, called[2] # "none" PROVE called[2] \in bound
  BY DEF CallsAreBound
<1>1. PICK key \in sensorKeys : called = <<key, AnsweredBy(key)>>
  BY DEF GeforceStartInv, FunctionsOK
<1>2. Bound(graphicsCard.chip) \subseteq bound /\ Registered /\ called[2] = AnsweredBy(key)
  BY <1>1 DEF GeforceStartInv, FunctionsOK
<1>3. "temp_get" \in bound
  BY <1>2 DEF Bound
<1> DEFINE clocks == {ClockOf[k] : k \in DOMAIN ClockOf}
<1>4. key \in clocks => "clocks_get" \in bound
  BY <1>2 DEF Registered
<1>5. key = "TGxH" => "core_temp_get" \in bound
  BY <1>2 DEF Registered
<1>6. AnsweredBy(key) = CASE key \in {"TGxD", "TGxP"} -> "temp_get"
                          [] key = "TGxH" -> "core_temp_get"
                          [] key \in clocks -> "clocks_get"
                          [] OTHER -> "none"
  BY DEF AnsweredBy
<1>7. clocks = {"CGxC", "CGxS", "CGxR", "CGxM"}
  BY DEF ClockOf
<1> HIDE DEF clocks
<1>8. CASE key \in {"TGxD", "TGxP"}
  BY <1>2, <1>3, <1>6, <1>7, <1>8
<1>9. CASE key = "TGxH"
  BY <1>2, <1>5, <1>6, <1>7, <1>9
<1>10. CASE key \in clocks
  BY <1>2, <1>4, <1>6, <1>7, <1>10
<1>11. CASE key \notin {"TGxD", "TGxP", "TGxH"} \cup clocks
  BY <1>2, <1>6, <1>11
<1> QED BY <1>8, <1>9, <1>10, <1>11

LEMMA GeforceStartStep ==
  ASSUME GeforceStartInv, GeforceStartNext
  PROVE  GeforceStartInv'
<1>1. WindowsOK /\ ImageOK /\ FunctionsOK /\ graphicsCard' = graphicsCard
      /\ graphicsCard \in GeforceCards
  BY DEF GeforceStartInv, GeforceStartNext
<1> USE <1>1
<1>2. ASSUME IdentifyCard \/ ReadProperty \/ Open \/ CopyPramin \/ CopyProm \/ GiveUp
      PROVE  FunctionsOK'
  <2>1. /\ step \notin {"i2c", "register", "started"} /\ step' \notin {"i2c", "register", "started"}
        /\ called' = called
    BY <1>2 DEF IdentifyCard, ReadProperty, Open, CopyPramin, CopyProm, GiveUp, Give
  <2> QED BY <2>1 DEF FunctionsOK
<1>3. CASE IdentifyCard
  <2>1. WindowsOK' /\ ImageOK'
    BY <1>3 DEF IdentifyCard, Give, WindowsOK, ImageOK
  <2> QED BY <1>2, <1>3, <2>1 DEF GeforceStartInv
<1>4. CASE ReadProperty
  <2>1. WindowsOK'
    BY <1>4 DEF ReadProperty, Give, WindowsOK
  <2>2. graphicsCard.property = "absent" => score(graphicsCard.property, TRUE) = 0
    BY DEF score
  <2>3. ImageOK'
    <3> DEFINE s == score(graphicsCard.property, TRUE)
    <3>1. step' = (IF s < 1 THEN "shadow" ELSE "init") /\ image' = graphicsCard.property
      BY <1>4 DEF ReadProperty, Give
    <3>2. graphicsCard.property = "absent" => s = 0
      BY <2>2
    <3> HIDE DEF s
    <3>3. step' \in {"shadow", "init", "shadow prom", "give up"} /\ (step' = "init" => image' # "absent")
      BY <3>1, <3>2
    <3> QED BY <3>3 DEF ImageOK
  <2> QED BY <1>2, <1>4, <2>1, <2>3 DEF GeforceStartInv
<1>5. CASE Open
  <2>1. WindowsOK'
    BY <1>5 DEF Open, Give, WindowsOK
  <2>2. ImageOK'
    BY <1>5 DEF Open, Give, ImageOK
  <2> QED BY <1>2, <1>5, <2>1, <2>2 DEF GeforceStartInv
<1>6. CASE CopyPramin
  <2>1. WindowsOK'
    BY <1>6 DEF CopyPramin, CloseWindow, Give, WindowsOK
  <2>2. image' = "absent" => score(image', TRUE) = 0
    BY DEF score
  <2>3. ImageOK'
    <3> DEFINE s == score(image', TRUE)
    <3>1. step' = (IF s > 1 THEN "init" ELSE "shadow prom")
      BY <1>6 DEF CopyPramin, Give
    <3>2. image' = "absent" => ~(s > 1)
      <4>1. image' = "absent" => s = 0
        BY <2>2
      <4> HIDE DEF s
      <4> QED BY <4>1
    <3> HIDE DEF s
    <3>3. step' \in {"shadow", "init", "shadow prom", "give up"} /\ (step' = "init" => image' # "absent")
      BY <3>1, <3>2
    <3> QED BY <3>3 DEF ImageOK
  <2> QED BY <1>2, <1>6, <2>1, <2>3 DEF GeforceStartInv
<1>7. CASE CopyProm
  <2>1. WindowsOK'
    BY <1>7 DEF CopyProm, CloseWindow, Give, WindowsOK
  <2>2. image' = "absent" => score(image', FALSE) = 0
    BY DEF score
  <2>3. ImageOK'
    <3> DEFINE s == score(image', FALSE)
    <3>1. step' = (IF s > 1 THEN "init" ELSE "give up")
      BY <1>7 DEF CopyProm, Give
    <3>2. image' = "absent" => ~(s > 1)
      <4>1. image' = "absent" => s = 0
        BY <2>2
      <4> HIDE DEF s
      <4> QED BY <4>1
    <3> HIDE DEF s
    <3>3. step' \in {"shadow", "init", "shadow prom", "give up"} /\ (step' = "init" => image' # "absent")
      BY <3>1, <3>2
    <3> QED BY <3>3 DEF ImageOK
  <2> QED BY <1>2, <1>7, <2>1, <2>3 DEF GeforceStartInv
<1>8. CASE GiveUp
  <2>1. WindowsOK' /\ ImageOK'
    BY <1>8 DEF GiveUp, Give, WindowsOK, ImageOK
  <2> QED BY <1>2, <1>8, <2>1 DEF GeforceStartInv
<1>9. CASE nouveau_init
  <2>1. WindowsOK' /\ ImageOK'
    BY <1>9 DEF nouveau_init, Give, WindowsOK, ImageOK
  <2>2. FunctionsOK'
    BY <1>9 DEF nouveau_init, Give, FunctionsOK
  <2> QED BY <2>1, <2>2 DEF GeforceStartInv
<1>10. CASE ProbeI2C
  <2>1. WindowsOK' /\ ImageOK'
    BY <1>10 DEF ProbeI2C, Give, WindowsOK, ImageOK
  <2>2. FunctionsOK'
    BY <1>10 DEF ProbeI2C, Give, FunctionsOK
  <2> QED BY <2>1, <2>2 DEF GeforceStartInv
<1>11. CASE RegisterSensors
  <2>1. WindowsOK' /\ ImageOK'
    BY <1>11 DEF RegisterSensors, Give, WindowsOK, ImageOK
  <2>2. Registered' /\ Bound(graphicsCard.chip) \subseteq bound'
    BY <1>11, RegisterSensorsStep
  <2>3. step = "register" /\ called' = called
    BY <1>11 DEF RegisterSensors
  <2>4. called' = << >>
    BY <2>3 DEF FunctionsOK
  <2>5. FunctionsOK'
    BY <2>2, <2>4 DEF FunctionsOK
  <2> QED BY <2>1, <2>5 DEF GeforceStartInv
<1>12. CASE ReadSensor
  <2>1. WindowsOK' /\ ImageOK'
    BY <1>12 DEF ReadSensor, WindowsOK, ImageOK
  <2>2. PICK key \in sensorKeys : called' = <<key, AnsweredBy(key)>>
    BY <1>12 DEF ReadSensor
  <2>3. step = "started" /\ UNCHANGED <<step, sensorKeys, bound>>
    BY <1>12 DEF ReadSensor
  <2>4. AnsweredBy(key)' = AnsweredBy(key)
    BY DEF AnsweredBy
  <2>5. FunctionsOK'
    BY <2>2, <2>3, <2>4 DEF FunctionsOK, Registered, AnsweredBy
  <2> QED BY <2>1, <2>5 DEF GeforceStartInv
<1>13. CASE StopGeforce
  <2>1. WindowsOK' /\ ImageOK'
    BY <1>13 DEF StopGeforce, Give, WindowsOK, ImageOK
  <2>2. FunctionsOK'
    BY <1>13 DEF StopGeforce, Give, FunctionsOK
  <2> QED BY <2>1, <2>2 DEF GeforceStartInv
<1> QED BY <1>3, <1>4, <1>5, <1>6, <1>7, <1>8, <1>9, <1>10, <1>11, <1>12, <1>13 DEF GeforceStartNext

LEMMA GeforceStartInvariant == GeforceStartSpec => []GeforceStartInv
<1>1. GeforceStartInit => GeforceStartInv
  BY DEF GeforceStartInit, Unstarted, GeforceStartInv, WindowsOK, ImageOK, FunctionsOK
<1>2. GeforceStartInv /\ UNCHANGED geforceStartVars => GeforceStartInv'
  BY DEF geforceStartVars, GeforceStartInv, WindowsOK, ImageOK, FunctionsOK, Registered,
     AnsweredBy, Bound
<1>3. GeforceStartInv /\ [GeforceStartNext]_geforceStartVars => GeforceStartInv'
  BY <1>2, GeforceStartStep
<1> QED BY <1>1, <1>3, PTL DEF GeforceStartSpec

(***************************************************************************)
(* However the search for the image goes, start leaves no window open and  *)
(* no image that it does not use.                                          *)
(***************************************************************************)
THEOREM RomStaysPutBack == GeforceStartSpec => []RomIsPutBack
<1>1. GeforceStartInv => RomIsPutBack
  BY DEF GeforceStartInv, WindowsOK, ImageOK, RomIsPutBack
<1> QED BY <1>1, GeforceStartInvariant, PTL

(***************************************************************************)
(* No key that is registered leads to a function of the card that is not   *)
(* set, whatever chip, clocks and sensor chips it has.                     *)
(***************************************************************************)
THEOREM CallsStayBound == GeforceStartSpec => []CallsAreBound
  BY RegisteredAreBound, GeforceStartInvariant, PTL

-----------------------------------------------------------------------------
(* The control of a Dell's fans *)

\* The key write under way: of a speed ...
SpeedWrite ==
  \/ write = NoWrite
  \/ \E fan \in FanSlots, speed \in 0..(I8K_FAN_MAX + 1) :
       \/ write \in {[at |-> "set", fan |-> fan, speed |-> speed],
                     [at |-> "was set", fan |-> fan, speed |-> speed]}
       \/ /\ write = [at |-> "idle", fan |-> fan, speed |-> speed]
          /\ fan \in manual => level[fan] = speed
       \/ \E eax \in 0..I8K_FAN_MAX \cup {NoStatus} :
            /\ write = [at |-> "status", fan |-> fan, speed |-> speed, eax |-> eax]
            /\ (eax # NoStatus /\ fan \in manual) => level[fan] = eax

\* ... or of the control of fans.
ControlWrite ==
  \E todo \in SUBSET FanSlots, goal \in SUBSET FanSlots, rc, ok \in BOOLEAN :
    write \in {[at |-> "control", todo |-> todo, goal |-> goal, rc |-> rc, ok |-> ok],
               [at |-> "controlled", todo |-> todo, goal |-> goal, rc |-> rc, ok |-> ok]}

\* The fans that were found have numbers without a gap; until all are, any may do.
FansInOrder == DOMAIN fanKeys = 0..(fanNum - 1)

\* A fan is controlled as fansStatus tells or, while a write goes on that has come
\* to it, as its goal does.
Controlled_As(f) ==
  IF write.at \in {"control", "controlled"} /\ f \notin write.todo THEN write.goal ELSE fansStatus

StatusOK ==
  (~misled /\ (Scanning \/ FansInOrder)) =>
    /\ write.at \in {"control", "controlled"} => write.rc
    /\ (write.at = "controlled" => write.ok) =>
         \A f \in DOMAIN fanKeys : f \in manual <=> f \in Controlled_As(f)

\* The search has not come to the fans that are left.
ScanOK ==
  /\ scan.at \in {"ask", "asked"} => \A f \in DOMAIN fanKeys : f < scan.fan
  /\ Scanning => /\ fansStatus \subseteq DOMAIN fanKeys
                 /\ write.at \in {"control", "controlled"} => write.goal \subseteq DOMAIN fanKeys

WriteOK == SpeedWrite \/ ControlWrite

SmiInv == SmiTypeOK /\ WriteOK /\ ScanOK /\ StatusOK

(***************************************************************************)
(* Fans have the numbers from 0 on; of some there is a first.              *)
(***************************************************************************)
LEMMA FanNumbers ==
  /\ FanSlots \subseteq Nat /\ IsFiniteSet(FanSlots) /\ 0 \in FanSlots /\ I8K_FAN_MAX \in Nat
  /\ \A T \in SUBSET FanSlots : T # {} => Min(T) \in T
<1> DEFINE n == Max(FanSlots)
<1>1. n \in Nat /\ FanSlots = 0..n /\ I8K_FAN_MAX \in Nat
  BY LaptopAssumption
<1> HIDE DEF n
<1>2. IsFiniteSet(0..n)
  BY <1>1, FS_Interval
<1>3. ASSUME NEW T \in SUBSET FanSlots, T # {} PROVE Min(T) \in T
  <2>1. \E x \in T : \A y \in T : x <= y
    BY <1>1, <1>3, LeastOf
  <2> QED BY <2>1 DEF Min
<1> QED BY <1>1, <1>2, <1>3

(***************************************************************************)
(* There are not more fans than numbers, so each that the status word can  *)
(* tell is the number of one.                                              *)
(***************************************************************************)
LEMMA CountedAreSlots ==
  ASSUME SmiTypeOK
  PROVE  0..(fanNum - 1) \subseteq FanSlots
<1> DEFINE n == Max(FanSlots)
<1>1. n \in Nat /\ FanSlots = 0..n
  BY LaptopAssumption
<1> HIDE DEF n
<1>2. IsFiniteSet(0..n) /\ Cardinality(0..n) = n + 1
  BY <1>1, FS_Interval
<1>3. fanNum = Cardinality(DOMAIN fanKeys) /\ DOMAIN fanKeys \subseteq 0..n
  BY <1>1 DEF SmiTypeOK
<1>4. fanNum \in Nat /\ fanNum <= n + 1
  <2>1. IsFiniteSet(DOMAIN fanKeys) /\ Cardinality(DOMAIN fanKeys) <= Cardinality(0..n)
    BY <1>2, <1>3, FS_Subset
  <2>2. Cardinality(DOMAIN fanKeys) \in Nat
    BY <2>1, FS_CardinalityType
  <2> QED BY <1>2, <1>3, <2>1, <2>2
<1> QED BY <1>1, <1>4

(***************************************************************************)
(* The search goes on with the next fan, or with the sensors.              *)
(***************************************************************************)
LEMMA NextSlotIsSlot ==
  ASSUME scan \in [at : {"ask", "asked", "temps", "done"}, fan : FanSlots]
  PROVE  /\ NextSlot \in [at : {"ask", "asked", "temps", "done"}, fan : FanSlots]
         /\ NextSlot.at \in {"ask", "temps"}
         /\ NextSlot.at = "ask" => NextSlot.fan = scan.fan + 1
<1>1. CASE scan.fan + 1 \in FanSlots
  <2>1. NextSlot = [at |-> "ask", fan |-> scan.fan + 1]
    BY <1>1 DEF NextSlot
  <2> QED BY <1>1, <2>1
<1>2. CASE scan.fan + 1 \notin FanSlots
  <2>1. NextSlot = [at |-> "temps", fan |-> 0]
    BY <1>2 DEF NextSlot
  <2> QED BY <2>1, FanNumbers
<1> QED BY <1>1, <1>2

(***************************************************************************)
(* The shapes the write under way may have.                                *)
(***************************************************************************)
LEMMA SpeedWriteAt ==
  ASSUME WriteOK
  PROVE  /\ write.at \in {"idle", "set", "was set", "status", "control", "controlled"}
         /\ write.at \in {"set", "was set", "status"} =>
              write.fan \in FanSlots /\ write.speed \in 0..(I8K_FAN_MAX + 1)
         /\ write.at = "set" =>
              write = [at |-> "set", fan |-> write.fan, speed |-> write.speed]
         /\ write.at = "status" =>
              /\ write.eax \in 0..I8K_FAN_MAX \cup {NoStatus}
              /\ (write.eax # NoStatus /\ write.fan \in manual) => level[write.fan] = write.eax
         /\ write.at = "idle" /\ write # NoWrite =>
              /\ write.fan \in FanSlots
              /\ write.fan \in manual => level[write.fan] = write.speed
         /\ write.at \in {"control", "controlled"} =>
              /\ write.todo \subseteq FanSlots /\ write.goal \subseteq FanSlots
              /\ write.rc \in BOOLEAN /\ write.ok \in BOOLEAN
              /\ write = [at |-> write.at, todo |-> write.todo, goal |-> write.goal,
                          rc |-> write.rc, ok |-> write.ok]
<1>1. CASE write = NoWrite
  BY <1>1 DEF NoWrite
<1>2. ASSUME NEW fan \in FanSlots, NEW speed \in 0..(I8K_FAN_MAX + 1), NEW at \in {"set", "was set"},
             write = [at |-> at, fan |-> fan, speed |-> speed]
      PROVE  write.at = at /\ write.fan = fan /\ write.speed = speed
  BY <1>2
<1>3. ASSUME NEW fan \in FanSlots, NEW speed \in 0..(I8K_FAN_MAX + 1),
             write = [at |-> "idle", fan |-> fan, speed |-> speed]
      PROVE  write.at = "idle" /\ write.fan = fan /\ write.speed = speed
  BY <1>3
<1>4. ASSUME NEW fan \in FanSlots, NEW speed \in 0..(I8K_FAN_MAX + 1), NEW eax \in 0..I8K_FAN_MAX \cup {NoStatus},
             write = [at |-> "status", fan |-> fan, speed |-> speed, eax |-> eax]
      PROVE  write.at = "status" /\ write.fan = fan /\ write.speed = speed /\ write.eax = eax
  BY <1>4
<1>5. CASE SpeedWrite
  BY <1>1, <1>2, <1>3, <1>4, <1>5, ZenonT(40) DEF SpeedWrite
<1>6. CASE ControlWrite
  <2>1. PICK todo \in SUBSET FanSlots, goal \in SUBSET FanSlots, rc \in BOOLEAN, ok \in BOOLEAN :
          write \in {[at |-> "control", todo |-> todo, goal |-> goal, rc |-> rc, ok |-> ok],
                     [at |-> "controlled", todo |-> todo, goal |-> goal, rc |-> rc, ok |-> ok]}
    BY <1>6 DEF ControlWrite
  <2>2. write.at \in {"control", "controlled"} /\ write.todo = todo /\ write.goal = goal
        /\ write.rc = rc /\ write.ok = ok
    BY <2>1
  <2> QED BY <2>1, <2>2
<1> QED BY <1>5, <1>6 DEF WriteOK

(***************************************************************************)
(* A step that leaves what is written, who controls the fans and how fast  *)
(* they are.                                                               *)
(***************************************************************************)
LEMMA ScanSteps ==
  ASSUME SmiInv,
  AskFan \/ SkipFan \/ (\E answering \in SUBSET laptop.sensors : FindSensors(answering))
                   \/ AskValue \/ Answer \/ (\E what \in laptop.reads : ReadKey(what))
  PROVE  SmiInv'
<1>1. /\ UNCHANGED <<laptop, fanKeys, fanNum, fansStatus, write, manual, level, misled>>
      /\ SmiTypeOK /\ WriteOK /\ ScanOK /\ StatusOK
  BY DEF SmiInv, AskFan, SkipFan, FindSensors, AskValue, Answer, ReadKey
<1>2. /\ scan' \in [at : {"ask", "asked", "temps", "done"}, fan : FanSlots]
      /\ Scanning' => Scanning
      /\ scan'.at \in {"ask", "asked"} =>
           scan.at \in {"ask", "asked"} /\ (scan'.fan = scan.fan \/ scan'.fan = scan.fan + 1)
  <2>1. scan \in [at : {"ask", "asked", "temps", "done"}, fan : FanSlots]
    BY <1>1 DEF SmiTypeOK
  <2>2. CASE UNCHANGED scan
    BY <2>1, <2>2 DEF Scanning
  <2>3. CASE AskFan
    BY <2>1, <2>3 DEF AskFan, Scanning
  <2>4. CASE SkipFan
    BY <2>1, <2>4, NextSlotIsSlot DEF SkipFan, Scanning
  <2>5. CASE \E answering \in SUBSET laptop.sensors : FindSensors(answering)
    BY <2>1, <2>5 DEF FindSensors, Scanning
  <2> QED BY <2>2, <2>3, <2>4, <2>5 DEF AskValue, Answer, ReadKey
<1>3. gRc' \in BOOLEAN
  BY <1>1 DEF AskFan, SkipFan, FindSensors, AskValue, Answer, ReadKey, Left, Outcomes, SmiTypeOK
<1>4. read' \in {"idle", "fan", "temperature", "again", "busy", "asked"} /\ kindKeys' \subseteq laptop.sensors
  BY <1>1, LaptopAssumption
     DEF AskFan, SkipFan, FindSensors, AskValue, Answer, ReadKey, SmiTypeOK
<1>5. SmiTypeOK'
  BY <1>1, <1>2, <1>3, <1>4 DEF SmiTypeOK
<1>6. ScanOK'
  <2>1. scan.fan \in Nat /\ \A f \in DOMAIN fanKeys : f \in Nat
    BY <1>1, FanNumbers DEF SmiTypeOK
  <2>2. scan'.at \in {"ask", "asked"} => \A f \in DOMAIN fanKeys' : f < scan'.fan
    BY <1>1, <1>2, <2>1 DEF ScanOK
  <2> QED BY <1>1, <1>2, <2>2 DEF ScanOK
<1>7. WriteOK' /\ StatusOK'
  BY <1>1, <1>2, ZenonT(40) DEF WriteOK, SpeedWrite, ControlWrite, StatusOK, FansInOrder, Controlled_As
<1> QED BY <1>5, <1>6, <1>7 DEF SmiInv

(***************************************************************************)
(* What is known of a speed that was set stays true when fans are only let *)
(* go and no other changes its speed.                                      *)
(***************************************************************************)
LEMMA SpeedsStay ==
  ASSUME WriteOK, write' = write, \A f \in manual' : f \in manual /\ level'[f] = level[f]
  PROVE  WriteOK'
<1>1. CASE write = NoWrite
  BY <1>1 DEF WriteOK, SpeedWrite
<1>2. CASE ControlWrite
  BY <1>2 DEF WriteOK, ControlWrite
<1>3. ASSUME NEW fan \in FanSlots, NEW speed \in 0..(I8K_FAN_MAX + 1),
             write \in {[at |-> "set", fan |-> fan, speed |-> speed],
                        [at |-> "was set", fan |-> fan, speed |-> speed]}
      PROVE  WriteOK'
  BY <1>3 DEF WriteOK, SpeedWrite
<1>4. ASSUME NEW fan \in FanSlots, NEW speed \in 0..(I8K_FAN_MAX + 1),
             write = [at |-> "idle", fan |-> fan, speed |-> speed],
             fan \in manual => level[fan] = speed
      PROVE  WriteOK'
  BY <1>4 DEF WriteOK, SpeedWrite
<1>5. ASSUME NEW fan \in FanSlots, NEW speed \in 0..(I8K_FAN_MAX + 1), NEW eax \in 0..I8K_FAN_MAX \cup {NoStatus},
             write = [at |-> "status", fan |-> fan, speed |-> speed, eax |-> eax],
             (eax # NoStatus /\ fan \in manual) => level[fan] = eax
      PROVE  WriteOK'
  <2>1. (eax # NoStatus /\ fan \in manual') => level'[fan] = eax
    BY <1>5
  <2> QED BY <1>5, <2>1 DEF WriteOK, SpeedWrite
<1> QED BY <1>1, <1>2, <1>3, <1>4, <1>5 DEF WriteOK, SpeedWrite

LEMMA FoundFanStep ==
  ASSUME SmiInv, FoundFan
  PROVE  SmiInv'
<1> DEFINE fan == scan.fan
<1>1. /\ scan.at = "asked" /\ fanNum' = fanNum + 1 /\ scan' = NextSlot
      /\ fanKeys' = [f \in DOMAIN fanKeys \cup {fan} |-> IF f = fan THEN TachKey ELSE fanKeys[f]]
      /\ UNCHANGED <<laptop, fansStatus, kindKeys, write, read, level>>
      /\ SmiTypeOK /\ WriteOK /\ ScanOK /\ StatusOK
  BY DEF SmiInv, FoundFan
<1>2. PICK ok \in Outcomes(fan) : /\ manual' = IF ok THEN manual \ {fan} ELSE manual
                                  /\ gRc' \in BOOLEAN
                                  /\ misled' = (misled \/ ~ok)
  BY DEF FoundFan
<1>3. scan \in [at : {"ask", "asked", "temps", "done"}, fan : FanSlots] /\ laptop \in Laptops
      /\ fan \in FanSlots /\ fan \in Nat /\ DOMAIN fanKeys \subseteq FanSlots
      /\ fanNum = Cardinality(DOMAIN fanKeys)
  BY <1>1, FanNumbers DEF SmiTypeOK
<1>4. fan \notin DOMAIN fanKeys
  BY <1>1, <1>3 DEF ScanOK
<1>5. DOMAIN fanKeys' = DOMAIN fanKeys \cup {fan}
  BY <1>1
<1>6. fanNum' = Cardinality(DOMAIN fanKeys') /\ fanNum \in Nat
  <2>1. IsFiniteSet(DOMAIN fanKeys)
    BY <1>3, FanNumbers, FS_Subset
  <2>2. Cardinality(DOMAIN fanKeys \cup {fan}) = Cardinality(DOMAIN fanKeys) + 1
        /\ Cardinality(DOMAIN fanKeys) \in Nat
    BY <1>4, <2>1, FS_AddElement, FS_CardinalityType
  <2> QED BY <1>1, <1>3, <1>5, <2>2
<1>7. \A f \in DOMAIN fanKeys' : fanKeys'[f] \in Nat
  <2>1. TachKey \in Nat
    BY <1>3, <1>6, LaptopAssumption DEF TachKey
  <2> HIDE DEF fan
  <2> QED BY <1>1, <1>5, <2>1 DEF SmiTypeOK
<1>8. NextSlot \in [at : {"ask", "asked", "temps", "done"}, fan : FanSlots]
      /\ NextSlot.at \in {"ask", "temps"} /\ (NextSlot.at = "ask" => NextSlot.fan = fan + 1)
  BY <1>3, NextSlotIsSlot
<1>9. SmiTypeOK'
  <2>1. misled' \in BOOLEAN /\ gRc' \in BOOLEAN /\ manual' \subseteq laptop.fans
    BY <1>1, <1>2 DEF Outcomes, SmiTypeOK
  <2> HIDE DEF fan
  <2> QED BY <1>1, <1>3, <1>5, <1>6, <1>7, <1>8, <2>1 DEF SmiTypeOK
<1>10. WriteOK'
  <2>1. \A f \in manual' : f \in manual /\ level'[f] = level[f]
    BY <1>1, <1>2
  <2> QED BY <1>1, <2>1, SpeedsStay
<1>11. ScanOK'
  <2>1. \A f \in DOMAIN fanKeys' : f < fan + 1
    <3>1. \A f \in DOMAIN fanKeys : f \in Nat /\ f < fan
      BY <1>1, <1>3, FanNumbers DEF ScanOK
    <3> QED BY <1>3, <1>5, <3>1
  <2>2. Scanning
    BY <1>1 DEF Scanning
  <2> HIDE DEF fan
  <2> QED BY <1>1, <1>5, <1>8, <2>1, <2>2 DEF ScanOK
<1>12. StatusOK'
  <2> SUFFICES ASSUME ~misled' PROVE StatusOK'
    BY DEF StatusOK
  <2>1. ok /\ ~misled /\ manual' = manual \ {fan} /\ Scanning
    BY <1>1, <1>2 DEF Outcomes, Scanning, SmiTypeOK
  <2>2. fan \notin fansStatus /\ (write.at \in {"control", "controlled"} => fan \notin write.goal)
    BY <1>1, <1>4, <2>1 DEF ScanOK
  <2>3. write.at \in {"control", "controlled"} => write.rc
    BY <1>1, <2>1 DEF StatusOK
  <2>4. ASSUME write.at = "controlled" => write.ok, NEW f \in DOMAIN fanKeys'
        PROVE  f \in manual' <=> f \in Controlled_As(f)'
    <3>1. Controlled_As(f)' = Controlled_As(f)
      BY <1>1 DEF Controlled_As
    <3>2. CASE f = fan
      BY <2>1, <2>2, <3>1, <3>2 DEF Controlled_As
    <3>3. CASE f # fan
      <4>1. f \in DOMAIN fanKeys
        BY <1>5, <3>3
      <4>2. f \in manual <=> f \in Controlled_As(f)
        BY <1>1, <2>1, <2>4, <4>1 DEF StatusOK
      <4> QED BY <2>1, <3>1, <3>3, <4>2
    <3> QED BY <3>2, <3>3
  <2> QED BY <1>1, <2>3, <2>4 DEF StatusOK
<1> QED BY <1>9, <1>10, <1>11, <1>12 DEF SmiInv

(***************************************************************************)
(* The steps of a speed that is written leave the control as it is.        *)
(***************************************************************************)
LEMMA SpeedSteps ==
  ASSUME SmiInv,
         \/ \E fan \in FanSlots, speed \in 0..(I8K_FAN_MAX + 1) : WriteSpeed(fan, speed)
         \/ SetFan \/ AskStatus \/ SpeedWritten
  PROVE  SmiInv'
<1>1. /\ UNCHANGED <<laptop, scan, fanKeys, fanNum, fansStatus, kindKeys, read, manual, misled>>
      /\ write.at \in {"idle", "set", "was set", "status"}
      /\ SmiTypeOK /\ WriteOK /\ ScanOK /\ StatusOK
  BY DEF SmiInv, WriteSpeed, SetFan, AskStatus, SpeedWritten
<1>2. ASSUME WriteOK', write'.at \in {"idle", "set", "was set", "status"}, gRc' \in BOOLEAN,
             level' \in [laptop.fans -> 0..I8K_FAN_MAX]
      PROVE  SmiInv'
  <2>1. SmiTypeOK'
    BY <1>1, <1>2 DEF SmiTypeOK
  <2>2. ScanOK'
    BY <1>1, <1>2 DEF ScanOK, Scanning
  <2>3. StatusOK'
    BY <1>1, <1>2 DEF StatusOK, Scanning, FansInOrder, Controlled_As
  <2> QED BY <1>2, <2>1, <2>2, <2>3 DEF SmiInv
<1>3. \A ok \in BOOLEAN : \A b \in Left(ok) : b \in BOOLEAN
  BY DEF Left
<1>4. level \in [laptop.fans -> 0..I8K_FAN_MAX] /\ gRc \in BOOLEAN
  BY <1>1 DEF SmiTypeOK
<1>5. ASSUME NEW fan \in FanSlots, NEW speed \in 0..(I8K_FAN_MAX + 1), WriteSpeed(fan, speed)
      PROVE  SmiInv'
  <2>1. write' = [at |-> "set", fan |-> fan, speed |-> speed] /\ level' = level /\ gRc' = gRc
    BY <1>5 DEF WriteSpeed
  <2>2. WriteOK'
    BY <2>1 DEF WriteOK, SpeedWrite
  <2> QED BY <1>2, <1>4, <2>1, <2>2
<1>6. CASE SetFan
  <2>1. /\ write.at = "set" /\ write' = [write EXCEPT !.at = "was set"]
        /\ write = [at |-> "set", fan |-> write.fan, speed |-> write.speed]
        /\ write.fan \in FanSlots /\ write.speed \in 0..(I8K_FAN_MAX + 1)
    BY <1>1, <1>6, SpeedWriteAt DEF SetFan
  <2>2. write' = [at |-> "was set", fan |-> write.fan, speed |-> write.speed]
    BY <2>1
  <2>3. WriteOK'
    BY <2>1, <2>2 DEF WriteOK, SpeedWrite
  <2>4. PICK ok \in Outcomes(write.fan) :
          /\ level' = IF ok THEN [level EXCEPT ![write.fan] = Min({write.speed, I8K_FAN_MAX})] ELSE level
          /\ gRc' \in Left(ok)
    BY <1>6 DEF SetFan
  <2>5. Min({write.speed, I8K_FAN_MAX}) \in 0..I8K_FAN_MAX
    <3>1. I8K_FAN_MAX \in Nat
      BY FanNumbers
    <3>2. ASSUME NEW s \in 0..(I8K_FAN_MAX + 1)
          PROVE  Min({s, I8K_FAN_MAX}) \in 0..I8K_FAN_MAX
      <4>1. s \in Nat /\ (s <= I8K_FAN_MAX \/ I8K_FAN_MAX <= s)
        BY <3>1
      <4>2. \E x \in {s, I8K_FAN_MAX} : \A y \in {s, I8K_FAN_MAX} : x <= y
        BY <3>1, <4>1
      <4>3. Min({s, I8K_FAN_MAX}) \in {s, I8K_FAN_MAX}
            /\ \A y \in {s, I8K_FAN_MAX} : Min({s, I8K_FAN_MAX}) <= y
        BY <4>2 DEF Min
      <4> QED BY <3>1, <4>1, <4>3
    <3> QED BY <2>1, <3>2
  <2>6. level' \in [laptop.fans -> 0..I8K_FAN_MAX] /\ ok \in BOOLEAN
    BY <1>4, <2>4, <2>5 DEF Outcomes
  <2> QED BY <1>2, <1>3, <2>2, <2>3, <2>4, <2>6
<1>7. CASE AskStatus
  <2>1. write.at = "was set" /\ write.fan \in FanSlots /\ write.speed \in 0..(I8K_FAN_MAX + 1) /\ level' = level
    BY <1>1, <1>7, SpeedWriteAt DEF AskStatus
  <2>2. PICK ok \in Outcomes(write.fan) :
          /\ write' = [at |-> "status", fan |-> write.fan, speed |-> write.speed,
                       eax |-> IF ok THEN level[write.fan] ELSE NoStatus]
          /\ gRc' \in Left(ok)
    BY <1>7 DEF AskStatus
  <2>3. ok \in BOOLEAN /\ (ok => write.fan \in laptop.fans)
    BY <2>2 DEF Outcomes
  <2> DEFINE eax == IF ok THEN level[write.fan] ELSE NoStatus
  <2>4. eax \in 0..I8K_FAN_MAX \cup {NoStatus}
        /\ ((eax # NoStatus /\ write.fan \in manual') => level'[write.fan] = eax)
    BY <1>4, <2>1, <2>3
  <2>5. write' = [at |-> "status", fan |-> write.fan, speed |-> write.speed, eax |-> eax]
    BY <2>2
  <2> HIDE DEF eax
  <2>6. WriteOK'
    BY <2>1, <2>4, <2>5 DEF WriteOK, SpeedWrite
  <2>7. write'.at = "status"
    BY <2>5
  <2> QED BY <1>2, <1>3, <1>4, <2>1, <2>2, <2>3, <2>6, <2>7
<1>8. CASE SpeedWritten
  <2>1. write.fan \in FanSlots /\ write.speed \in 0..(I8K_FAN_MAX + 1) /\ level' = level /\ gRc' = gRc
    BY <1>1, <1>8, SpeedWriteAt DEF SpeedWritten
  <2>2. CASE write' = NoWrite
    <3>1. WriteOK' /\ write'.at = "idle"
      BY <2>2 DEF WriteOK, SpeedWrite, NoWrite
    <3> QED BY <1>2, <1>4, <2>1, <3>1
  <2>3. CASE write' # NoWrite
    <3>1. /\ write.at = "status" /\ write.eax = write.speed
          /\ write' = [at |-> "idle", fan |-> write.fan, speed |-> write.speed]
      BY <1>8, <2>3 DEF SpeedWritten, Confirms
    <3>2. write.eax # NoStatus
      BY <2>1, <3>1, FanNumbers DEF NoStatus
    <3>3. write.fan \in manual => level[write.fan] = write.speed
      BY <1>1, <3>1, <3>2, SpeedWriteAt
    <3>4. WriteOK' /\ write'.at = "idle"
      BY <1>1, <2>1, <3>1, <3>3 DEF WriteOK, SpeedWrite
    <3> QED BY <1>2, <1>4, <2>1, <3>4
  <2> QED BY <2>2, <2>3
<1> QED BY <1>5, <1>6, <1>7, <1>8

(***************************************************************************)
(* A write of the control begins: what its goal has in common with the     *)
(* status so far are the fans it need not come to.                         *)
(***************************************************************************)
LEMMA WriteControlStep ==
  ASSUME SmiInv, NEW todo \in SUBSET FanSlots, NEW goal \in SUBSET FanSlots, WriteControl(todo, goal),
         Scanning => goal \subseteq DOMAIN fanKeys,
         (Scanning \/ FansInOrder) =>
           \A f \in DOMAIN fanKeys : f \notin todo => (f \in goal <=> f \in fansStatus)
  PROVE  SmiInv'
<1>1. /\ UNCHANGED <<laptop, scan, fanKeys, fanNum, fansStatus, kindKeys, read, gRc, manual, level, misled>>
      /\ write.at = "idle"
      /\ write' = [at |-> "control", todo |-> todo, goal |-> goal, rc |-> TRUE, ok |-> TRUE]
      /\ SmiTypeOK /\ WriteOK /\ ScanOK /\ StatusOK
  BY DEF SmiInv, WriteControl
<1>2. write'.at = "control" /\ write'.todo = todo /\ write'.goal = goal /\ write'.rc = TRUE
  BY <1>1
<1>3. SmiTypeOK'
  BY <1>1, <1>2 DEF SmiTypeOK
<1>4. WriteOK'
  BY <1>1 DEF WriteOK, ControlWrite
<1>5. ScanOK'
  BY <1>1, <1>2 DEF ScanOK, Scanning
<1>6. StatusOK'
  <2> SUFFICES ASSUME ~misled, Scanning \/ FansInOrder, NEW f \in DOMAIN fanKeys
               PROVE  f \in manual <=> f \in Controlled_As(f)'
    BY <1>1, <1>2 DEF StatusOK, Scanning, FansInOrder
  <2>1. f \in manual <=> f \in fansStatus
    BY <1>1 DEF StatusOK, Controlled_As
  <2>2. Controlled_As(f)' = IF f \notin todo THEN goal ELSE fansStatus
    BY <1>1, <1>2 DEF Controlled_As
  <2> QED BY <2>1, <2>2
<1> QED BY <1>3, <1>4, <1>5, <1>6 DEF SmiInv

LEMMA WriteForceStep ==
  ASSUME SmiInv, NEW bits \in SUBSET FanSlots, WriteForce(bits)
  PROVE  SmiInv'
<1>1. ~Scanning /\ WriteControl(Differing(bits), bits) /\ SmiTypeOK
  BY DEF WriteForce, SmiInv
<1>2. Differing(bits) \in SUBSET FanSlots
  <2>1. 0..(fanNum - 1) \subseteq FanSlots
    BY <1>1, CountedAreSlots
  <2> QED BY <2>1 DEF Differing
<1>3. FansInOrder => \A f \in DOMAIN fanKeys : f \notin Differing(bits) => (f \in bits <=> f \in fansStatus)
  BY DEF FansInOrder, Differing
<1> QED BY <1>1, <1>2, <1>3, WriteControlStep

LEMMA WriteModeStep ==
  ASSUME SmiInv, NEW fan \in FanSlots, NEW on \in BOOLEAN, WriteMode(fan, on)
  PROVE  SmiInv'
<1> DEFINE todo == IF on = (fan \in fansStatus) THEN {} ELSE {fan}
           goal == IF on THEN fansStatus \cup {fan} ELSE fansStatus \ {fan}
<1>1. fan \in DOMAIN fanKeys /\ WriteControl(todo, goal) /\ fansStatus \subseteq FanSlots
      /\ (Scanning => fansStatus \subseteq DOMAIN fanKeys)
  BY DEF WriteMode, SmiInv, SmiTypeOK, ScanOK
<1>2. todo \in SUBSET FanSlots /\ goal \in SUBSET FanSlots /\ (Scanning => goal \subseteq DOMAIN fanKeys)
  BY <1>1
<1>3. \A f \in DOMAIN fanKeys : f \notin todo => (f \in goal <=> f \in fansStatus)
  <2>1. CASE on
    BY <2>1
  <2>2. CASE ~on
    BY <2>2
  <2> QED BY <2>1, <2>2
<1> HIDE DEF todo, goal
<1> QED BY <1>1, <1>2, <1>3, WriteControlStep

(***************************************************************************)
(* The steps of a write of the control.                                    *)
(***************************************************************************)
LEMMA ControlFanStep ==
  ASSUME SmiInv, ControlFan
  PROVE  SmiInv'
<1> DEFINE fan == Min(write.todo)
<1>1. /\ UNCHANGED <<laptop, scan, fanKeys, fanNum, fansStatus, kindKeys, read, level, misled>>
      /\ write.at = "control" /\ write.todo # {}
      /\ SmiTypeOK /\ WriteOK /\ ScanOK /\ StatusOK
  BY DEF SmiInv, ControlFan
<1>2. PICK ok \in Outcomes(fan) :
        /\ manual' = CASE ~ok -> manual
                       [] ok /\ fan \in write.goal -> manual \cup {fan}
                       [] OTHER -> manual \ {fan}
        /\ gRc' \in Left(ok)
        /\ write' = [write EXCEPT !.at = "controlled", !.todo = @ \ {fan}, !.ok = ok]
  BY DEF ControlFan
<1>3. /\ write.todo \subseteq FanSlots /\ write.goal \subseteq FanSlots /\ write.rc \in BOOLEAN
      /\ write = [at |-> write.at, todo |-> write.todo, goal |-> write.goal, rc |-> write.rc, ok |-> write.ok]
  BY <1>1, SpeedWriteAt
<1>4. fan \in write.todo
  BY <1>1, <1>3, FanNumbers
<1>5. ok \in BOOLEAN /\ (ok => fan \in laptop.fans)
  BY <1>2 DEF Outcomes
<1> HIDE DEF fan
<1>6. write' = [at |-> "controlled", todo |-> write.todo \ {fan}, goal |-> write.goal,
                rc |-> write.rc, ok |-> ok]
  BY <1>2, <1>3
<1>7. /\ write'.at = "controlled" /\ write'.todo = write.todo \ {fan} /\ write'.goal = write.goal
      /\ write'.rc = write.rc /\ write'.ok = ok
  BY <1>6
<1>8. SmiTypeOK'
  <2>1. gRc' \in BOOLEAN
    BY <1>2, <1>5 DEF Left
  <2>2. manual' \subseteq laptop.fans
    <3>1. manual \subseteq laptop.fans
      BY <1>1 DEF SmiTypeOK
    <3>2. manual' = CASE ~ok -> manual
                      [] ok /\ fan \in write.goal -> manual \cup {fan}
                      [] OTHER -> manual \ {fan}
      BY <1>2
    <3>3. ~ok => manual' = manual
      BY <1>5, <3>2
    <3>4. ok => manual' = manual \cup {fan} \/ manual' = manual \ {fan}
      BY <1>5, <3>2
    <3> QED BY <1>5, <3>1, <3>3, <3>4
  <2> QED BY <1>1, <1>7, <2>1, <2>2 DEF SmiTypeOK
<1>9. WriteOK'
  <2>1. write.todo \ {fan} \in SUBSET FanSlots /\ write.goal \in SUBSET FanSlots
    BY <1>3
  <2> QED BY <1>3, <1>5, <1>6, <2>1 DEF WriteOK, ControlWrite
<1>10. ScanOK'
  BY <1>1, <1>7 DEF ScanOK, Scanning
<1>11. StatusOK'
  <2> SUFFICES ASSUME ~misled, Scanning \/ FansInOrder
               PROVE  write.rc /\ (ok => \A f \in DOMAIN fanKeys : f \in manual' <=> f \in Controlled_As(f)')
    BY <1>1, <1>7 DEF StatusOK, Scanning, FansInOrder
  <2>1. write.rc
    BY <1>1 DEF StatusOK
  <2>2. ASSUME ok, NEW f \in DOMAIN fanKeys
        PROVE  f \in manual' <=> f \in Controlled_As(f)'
    <3>1. f \in manual <=> f \in Controlled_As(f)
      BY <1>1 DEF StatusOK
    <3>2. Controlled_As(f)' = IF f \notin write.todo \ {fan} THEN write.goal ELSE fansStatus
      BY <1>1, <1>7 DEF Controlled_As
    <3>3. Controlled_As(f) = IF f \notin write.todo THEN write.goal ELSE fansStatus
      BY <1>1 DEF Controlled_As
    <3>4. manual' = IF fan \in write.goal THEN manual \cup {fan} ELSE manual \ {fan}
      BY <1>2, <2>2
    <3>5. CASE f = fan
      BY <3>2, <3>4, <3>5
    <3>6. CASE f # fan
      BY <3>1, <3>2, <3>3, <3>4, <3>6
    <3> QED BY <3>5, <3>6
  <2> QED BY <2>1, <2>2
<1> QED BY <1>8, <1>9, <1>10, <1>11 DEF SmiInv

LEMMA ControlledStep ==
  ASSUME SmiInv, Controlled
  PROVE  SmiInv'
<1>1. /\ UNCHANGED <<laptop, scan, fanKeys, fanNum, fansStatus, kindKeys, read, gRc, manual, level>>
      /\ write.at = "controlled" /\ misled' = (misled \/ ~write.ok \/ ~gRc)
      /\ SmiTypeOK /\ WriteOK /\ ScanOK /\ StatusOK
  BY DEF SmiInv, Controlled
<1>2. /\ write.todo \subseteq FanSlots /\ write.goal \subseteq FanSlots
      /\ write.rc \in BOOLEAN /\ write.ok \in BOOLEAN
      /\ write = [at |-> write.at, todo |-> write.todo, goal |-> write.goal, rc |-> write.rc, ok |-> write.ok]
  BY <1>1, SpeedWriteAt
<1>3. gRc \in BOOLEAN /\ misled \in BOOLEAN
  BY <1>1 DEF SmiTypeOK
<1>4. write' = [at |-> "control", todo |-> write.todo, goal |-> write.goal, rc |-> write.rc /\ gRc, ok |-> write.ok]
  <2>1. write' = [write EXCEPT !.at = "control", !.rc = @ /\ gRc]
    BY DEF Controlled
  <2> QED BY <1>2, <2>1
<1>5. /\ write'.at = "control" /\ write'.todo = write.todo /\ write'.goal = write.goal
      /\ write'.rc = (write.rc /\ gRc)
  BY <1>4
<1>6. SmiTypeOK'
  <2>1. misled' \in BOOLEAN
    BY <1>1
  <2> QED BY <1>1, <1>5, <2>1 DEF SmiTypeOK
<1>7. WriteOK'
  <2>1. write.todo \in SUBSET FanSlots /\ write.goal \in SUBSET FanSlots /\ (write.rc /\ gRc) \in BOOLEAN
    BY <1>2
  <2> QED BY <1>2, <1>4, <2>1 DEF WriteOK, ControlWrite
<1>8. ScanOK'
  BY <1>1, <1>5 DEF ScanOK, Scanning
<1>9. StatusOK'
  <2> SUFFICES ASSUME ~misled', Scanning \/ FansInOrder
               PROVE  (write.rc /\ gRc) /\ \A f \in DOMAIN fanKeys : f \in manual <=> f \in Controlled_As(f)'
    BY <1>1, <1>5 DEF StatusOK, Scanning, FansInOrder
  <2>1. ~misled /\ write.ok /\ gRc
    BY <1>1
  <2>2. write.rc
    BY <1>1, <2>1 DEF StatusOK
  <2>3. ASSUME NEW f \in DOMAIN fanKeys
        PROVE  f \in manual <=> f \in Controlled_As(f)'
    <3>1. f \in manual <=> f \in Controlled_As(f)
      BY <1>1, <2>1 DEF StatusOK
    <3>2. Controlled_As(f)' = Controlled_As(f)
      BY <1>1, <1>5 DEF Controlled_As
    <3> QED BY <3>1, <3>2
  <2> QED BY <2>1, <2>2, <2>3
<1> QED BY <1>6, <1>7, <1>8, <1>9 DEF SmiInv

LEMMA ControlWrittenStep ==
  ASSUME SmiInv, ControlWritten
  PROVE  SmiInv'
<1>1. /\ UNCHANGED <<laptop, scan, fanKeys, fanNum, kindKeys, read, gRc, manual, level, misled>>
      /\ write.at = "control" /\ write.todo = {} /\ write' = NoWrite
      /\ fansStatus' = NewStatus
      /\ SmiTypeOK /\ WriteOK /\ ScanOK /\ StatusOK
  BY DEF SmiInv, ControlWritten
<1>2. write.goal \subseteq FanSlots /\ write.rc \in BOOLEAN
  BY <1>1, SpeedWriteAt
<1>3. write'.at = "idle"
  BY <1>1 DEF NoWrite
<1>4. fansStatus' \subseteq FanSlots /\ (Scanning => fansStatus' \subseteq DOMAIN fanKeys)
  BY <1>1, <1>2 DEF NewStatus, SmiTypeOK, ScanOK
<1>5. SmiTypeOK'
  BY <1>1, <1>3, <1>4 DEF SmiTypeOK
<1>6. WriteOK'
  BY <1>1 DEF WriteOK, SpeedWrite, NoWrite
<1>7. ScanOK'
  BY <1>1, <1>3, <1>4 DEF ScanOK, Scanning
<1>8. StatusOK'
  <2> SUFFICES ASSUME ~misled, Scanning \/ FansInOrder, NEW f \in DOMAIN fanKeys
               PROVE  f \in manual <=> f \in Controlled_As(f)'
    BY <1>1, <1>3 DEF StatusOK, Scanning, FansInOrder
  <2>1. write.rc /\ (f \in manual <=> f \in Controlled_As(f))
    BY <1>1 DEF StatusOK
  <2>2. Controlled_As(f) = write.goal
    BY <1>1 DEF Controlled_As
  <2>3. Controlled_As(f)' = write.goal
    BY <1>1, <1>3, <2>1 DEF Controlled_As, NewStatus
  <2> QED BY <2>1, <2>2, <2>3
<1> QED BY <1>5, <1>6, <1>7, <1>8 DEF SmiInv

(***************************************************************************)
(* The firmware changes the speed of fans it controls only.                *)
(***************************************************************************)
LEMMA FirmwareStep ==
  ASSUME SmiInv, Firmware
  PROVE  SmiInv'
<1>1. /\ UNCHANGED <<laptop, scan, fanKeys, fanNum, fansStatus, kindKeys, write, read, gRc, manual, misled>>
      /\ SmiTypeOK /\ WriteOK /\ ScanOK /\ StatusOK
  BY DEF SmiInv, Firmware
<1>2. PICK f \in laptop.fans \ manual, l \in 0..I8K_FAN_MAX : level' = [level EXCEPT ![f] = l]
  BY DEF Firmware
<1>3. level \in [laptop.fans -> 0..I8K_FAN_MAX] /\ manual \subseteq laptop.fans
  BY <1>1 DEF SmiTypeOK
<1>4. level' \in [laptop.fans -> 0..I8K_FAN_MAX] /\ \A g \in manual' : g \in manual /\ level'[g] = level[g]
  BY <1>1, <1>2, <1>3
<1>5. SmiTypeOK'
  BY <1>1, <1>4 DEF SmiTypeOK
<1>6. WriteOK'
  BY <1>1, <1>4, SpeedsStay
<1>7. ScanOK'
  BY <1>1 DEF ScanOK, Scanning
<1>8. StatusOK'
  BY <1>1 DEF StatusOK, Scanning, FansInOrder, Controlled_As
<1> QED BY <1>5, <1>6, <1>7, <1>8 DEF SmiInv

(***************************************************************************)
(* The parts of SmiInv hold at every moment.                               *)
(***************************************************************************)
LEMMA SmiInvariant == SmiSpec => []SmiInv
<1>1. SmiInit => SmiInv
  <2> SUFFICES ASSUME SmiInit PROVE SmiInv
    OBVIOUS
  <2>1. /\ laptop \in Laptops /\ fanKeys = <<>> /\ fanNum = 0 /\ fansStatus = {} /\ kindKeys = {}
        /\ write = NoWrite /\ read = "idle" /\ gRc = TRUE /\ misled = FALSE
        /\ manual \in {{}, laptop.fans} /\ level = [f \in laptop.fans |-> 0]
    BY DEF SmiInit
  <2>2. scan \in [at : {"ask", "asked", "temps", "done"}, fan : FanSlots]
    BY FanNumbers DEF SmiInit
  <2>3. DOMAIN fanKeys = {} /\ write.at = "idle"
    BY <2>1 DEF NoWrite
  <2>4. level \in [laptop.fans -> 0..I8K_FAN_MAX]
    BY <2>1, FanNumbers
  <2>5. fanNum = Cardinality(DOMAIN fanKeys)
    BY <2>1, <2>3, FS_EmptySet
  <2>6. SmiTypeOK
    BY <2>1, <2>2, <2>3, <2>4, <2>5 DEF SmiTypeOK
  <2>7. WriteOK
    BY <2>1 DEF WriteOK, SpeedWrite
  <2>8. ScanOK /\ StatusOK
    BY <2>1, <2>3 DEF ScanOK, StatusOK
  <2> QED BY <2>6, <2>7, <2>8 DEF SmiInv
<1>2. SmiInv /\ [SmiNext]_smiVars => SmiInv'
  <2> SUFFICES ASSUME SmiInv, [SmiNext]_smiVars PROVE SmiInv'
    OBVIOUS
  <2>1. CASE SmiStart
    BY <2>1, ScanSteps, FoundFanStep DEF SmiStart
  <2>2. CASE SmiWrite
    BY <2>2, SpeedSteps, WriteForceStep, WriteModeStep DEF SmiWrite
  <2>3. CASE SmiGoOn
    BY <2>3, SpeedSteps, ControlFanStep, ControlledStep, ControlWrittenStep DEF SmiGoOn
  <2>4. CASE SmiRead
    BY <2>4, ScanSteps DEF SmiRead
  <2>5. CASE Firmware
    BY <2>5, FirmwareStep
  <2>6. CASE UNCHANGED smiVars
    <3>1. /\ UNCHANGED <<laptop, scan, fanKeys, fanNum, fansStatus, kindKeys>>
          /\ UNCHANGED <<write, read, gRc, manual, level, misled>>
          /\ SmiTypeOK /\ WriteOK /\ ScanOK /\ StatusOK
      BY <2>6 DEF smiVars, SmiInv
    <3>2. SmiTypeOK'
      BY <3>1 DEF SmiTypeOK
    <3>3. WriteOK'
      BY <3>1, SpeedsStay
    <3>4. ScanOK' /\ StatusOK'
      BY <3>1 DEF ScanOK, StatusOK, Scanning, FansInOrder, Controlled_As
    <3> QED BY <3>2, <3>3, <3>4 DEF SmiInv
  <2> QED BY <2>1, <2>2, <2>3, <2>4, <2>5, <2>6 DEF SmiNext
<1> QED BY <1>1, <1>2, PTL DEF SmiSpec

(***************************************************************************)
(* On every laptop, with any number of fans: a speed that a write says is  *)
(* set is that of the fan, and unless a call failed, or seemed to, the     *)
(* fans are under the control that the status tells.                       *)
(***************************************************************************)
THEOREM ControlStaysTrue == SmiSpec => []ControlIsTrue
<1>1. SmiInv => ControlIsTrue
  <2> SUFFICES ASSUME SmiInv PROVE SuccessMeansSet /\ StatusIsTrue
    BY DEF ControlIsTrue
  <2>1. SuccessMeansSet
    BY SpeedWriteAt DEF SmiInv, SuccessMeansSet
  <2>2. StatusIsTrue
    <3> SUFFICES ASSUME ~Scanning, ~misled, write.at = "idle", FansInOrder
                 PROVE  fansStatus \cap DOMAIN fanKeys = manual \cap DOMAIN fanKeys
      BY DEF StatusIsTrue, FansInOrder
    <3>1. \A f \in DOMAIN fanKeys : f \in manual <=> f \in fansStatus
      BY DEF SmiInv, StatusOK, Controlled_As
    <3> QED BY <3>1
  <2> QED BY <2>1, <2>2
<1> QED BY <1>1, SmiInvariant, PTL

-----------------------------------------------------------------------------
(* What VoodooBattery publishes of power *)

Source == [installed : BOOLEAN, external : BOOLEAN, legacy : BOOLEAN]
Has == [connected : [Bays -> BOOLEAN], full : [Bays -> BOOLEAN], calculated : [Bays -> BOOLEAN],
        external : BOOLEAN, inserted : BOOLEAN, firstTime : BOOLEAN]

\* What the driver's functions are given and leave: the legacy dictionary tells of no
\* battery that its source does not.
Tidy(h) ==
  /\ h = [has |-> h.has, source |-> h.source]
  /\ h.has \in Has /\ h.source \in [Bays -> Source]
  /\ \A b \in Bays : h.source[b].legacy => h.source[b].installed

\* Their effect on the sources and on what there is one of: at most, a source comes to
\* say that there is external power.
TellsMore(h, g) ==
  /\ g.has.external = h.has.external /\ g.has.inserted = h.has.inserted /\ g.has.firstTime = h.has.firstTime
  /\ \A b \in Bays : h.source[b].external => g.source[b].external

\* With external power every source says so.
Shown(h) == h.has.external => \A b \in Bays : h.source[b].external

\* The first check decides whether power is assumed.
CheckedOnce == batteryStage = "serving" \/ (batteryStage = "checking" /\ checksLeft < StartChecks)

\* A battery is taken for out when it answers without saying anything.
FoundOut(h, g, b) == g = [h EXCEPT !.has.connected[b] = FALSE]

\* A source that says of external power what e does.
Told(s, e) == [s EXCEPT !.external = e]

AnswerOK ==
  keyAnswer.key = <<"BATP">> /\ ~keyAnswer.first => (keyAnswer.value = 0 <=> driverHas.external)

PowerInv ==
  /\ notebook \in Notebooks /\ Tidy(Held) /\ Shown(Held) /\ AnswerOK
  /\ batteryStage = "checking" => checksLeft \in 0..StartChecks
  /\ CheckedOnce /\ ~driverHas.inserted => driverHas.external

(***************************************************************************)
(* One battery is asked for its status, and blanked out or asked for what  *)
(* it is.                                                                  *)
(***************************************************************************)
LEMMA OutIsTidy ==
  ASSUME NEW h, h = [has |-> h.has, source |-> h.source], h.has \in Has, NEW b \in Bays,
         NEW g, FoundOut(h, g, b)
  PROVE  /\ g = [has |-> g.has, source |-> h.source] /\ g.has \in Has
         /\ g.has.external = h.has.external /\ g.has.inserted = h.has.inserted
         /\ g.has.firstTime = h.has.firstTime
<1> DEFINE out == [h.has.connected EXCEPT ![b] = FALSE]
<1>1. out \in [Bays -> BOOLEAN]
  BY DEF Has
<1>2. g = [h EXCEPT !.has = [h.has EXCEPT !.connected = out]]
  BY DEF FoundOut
<1> HIDE DEF out
<1>3. g = [has |-> [h.has EXCEPT !.connected = out], source |-> h.source]
  BY <1>2
<1>4. g.has = [h.has EXCEPT !.connected = out] /\ g = [has |-> g.has, source |-> h.source]
  BY <1>3
<1> QED BY <1>1, <1>4 DEF Has

LEMMA StatusIsTidy ==
  ASSUME NEW h, Tidy(h), NEW b \in Bays, NEW reply
  PROVE  Tidy(StatusOf(h, b, reply)) /\ TellsMore(h, StatusOf(h, b, reply))
<1> DEFINE g == StatusOf(h, b, reply)
<1>1. h = [has |-> h.has, source |-> h.source] /\ h.has \in Has /\ h.source \in [Bays -> Source]
      /\ \A c \in Bays : h.source[c].legacy => h.source[c].installed
  BY DEF Tidy
<1>2. CASE reply = "unanswered"
  BY <1>1, <1>2 DEF StatusOf, Tidy, TellsMore
<1>3. CASE reply = "empty"
  <2>1. FoundOut(h, g, b)
    BY <1>3 DEF StatusOf, FoundOut
  <2> HIDE DEF g
  <2>2. /\ g = [has |-> g.has, source |-> h.source] /\ g.has \in Has
        /\ g.has.external = h.has.external /\ g.has.inserted = h.has.inserted
        /\ g.has.firstTime = h.has.firstTime
    BY <1>1, <2>1, OutIsTidy
  <2>3. g.source = h.source
    BY <2>2
  <2> QED BY <1>1, <2>2, <2>3 DEF Tidy, TellsMore, g
<1>4. CASE reply \notin {"unanswered", "empty"}
  <2> DEFINE s == rebuildLegacyIOBatteryInfo([h.source[b] EXCEPT !.installed = TRUE])
             k == IF reply = "bogus" THEN h.has.calculated[b] ELSE reply # "discharging"
  <2>1. g = [has |-> [h.has EXCEPT !.full[b] = reply = "full", !.calculated[b] = k],
             source |-> [h.source EXCEPT ![b] = s]]
    BY <1>4 DEF StatusOf
  <2>2. s \in Source /\ s.external = h.source[b].external /\ s.legacy = s.installed
    BY <1>1 DEF rebuildLegacyIOBatteryInfo, Source
  <2>3. k \in BOOLEAN /\ (reply = "full") \in BOOLEAN
    BY <1>1 DEF Has
  <2> HIDE DEF s, k
  <2>4. /\ g.has = [h.has EXCEPT !.full[b] = reply = "full", !.calculated[b] = k]
        /\ g.source = [h.source EXCEPT ![b] = s] /\ g = [has |-> g.has, source |-> g.source]
    BY <2>1
  <2> HIDE DEF g
  <2>5. g.has \in Has /\ g.has.external = h.has.external /\ g.has.inserted = h.has.inserted
        /\ g.has.firstTime = h.has.firstTime
    <3> DEFINE f == [h.has.full EXCEPT ![b] = reply = "full"]
               c == [h.has.calculated EXCEPT ![b] = k]
    <3>1. f \in [Bays -> BOOLEAN] /\ c \in [Bays -> BOOLEAN]
      BY <1>1, <2>3 DEF Has
    <3>2. g.has = [[h.has EXCEPT !.full = f] EXCEPT !.calculated = c]
      BY <1>1, <2>4 DEF Has
    <3> HIDE DEF f, c
    <3> QED BY <1>1, <3>1, <3>2 DEF Has
  <2>6. g.source \in [Bays -> Source]
        /\ \A c \in Bays : g.source[c] = IF c = b THEN s ELSE h.source[c]
    BY <1>1, <2>2, <2>4
  <2> QED BY <1>1, <2>2, <2>4, <2>5, <2>6 DEF Tidy, TellsMore, g
<1> QED BY <1>2, <1>3, <1>4

LEMMA InformationIsTidy ==
  ASSUME NEW h, Tidy(h), NEW b \in Bays, NEW reply, NEW info
  PROVE  Tidy(InformationOf(h, b, reply, info)) /\ TellsMore(h, InformationOf(h, b, reply, info))
<1> DEFINE g == InformationOf(h, b, reply, info)
           a == StatusOf(h, b, reply)
<1>1. h = [has |-> h.has, source |-> h.source] /\ h.has \in Has /\ h.source \in [Bays -> Source]
      /\ \A c \in Bays : h.source[c].legacy => h.source[c].installed
  BY DEF Tidy
<1>2. Tidy(a) /\ TellsMore(h, a)
  BY StatusIsTidy
<1>3. a = [has |-> a.has, source |-> a.source] /\ a.has \in Has /\ a.source \in [Bays -> Source]
  BY <1>2 DEF Tidy
<1>4. CASE h.has.connected[b] /\ info = "unanswered"
  <2>1. g = a
    BY <1>4 DEF InformationOf
  <2> HIDE DEF g, a
  <2> QED BY <1>2, <2>1 DEF g
<1>5. CASE h.has.connected[b] /\ info = "empty"
  <2>1. FoundOut(a, g, b)
    BY <1>5 DEF InformationOf, FoundOut
  <2> HIDE DEF g, a
  <2>2. /\ g = [has |-> g.has, source |-> a.source] /\ g.has \in Has
        /\ g.has.external = a.has.external /\ g.has.inserted = a.has.inserted
        /\ g.has.firstTime = a.has.firstTime
    BY <1>3, <2>1, OutIsTidy
  <2>3. g.source = a.source
    BY <2>2
  <2> QED BY <1>2, <2>2, <2>3 DEF Tidy, TellsMore, g
<1>6. CASE h.has.connected[b] /\ info \notin {"unanswered", "empty"}
  <2>1. g = [a EXCEPT !.source[b] = PublishBatteryInfo(@)]
    BY <1>6 DEF InformationOf
  <2> DEFINE s == PublishBatteryInfo(a.source[b])
  <2>2. s \in Source /\ s.external /\ s.installed
    BY <1>3 DEF PublishBatteryInfo, Source
  <2>3. g = [a EXCEPT !.source[b] = s]
    BY <2>1
  <2> HIDE DEF g, a, s
  <2>4. g = [has |-> a.has, source |-> [a.source EXCEPT ![b] = s]]
    BY <1>3, <2>3
  <2>5. g.has = a.has /\ g = [has |-> g.has, source |-> g.source] /\ g.source \in [Bays -> Source]
        /\ \A c \in Bays : g.source[c] = IF c = b THEN s ELSE a.source[c]
    BY <1>3, <2>2, <2>4
  <2> QED BY <1>2, <2>2, <2>5 DEF Tidy, TellsMore, g
<1>7. CASE ~h.has.connected[b]
  <2> DEFINE s == BlankOutBattery(h.source[b])
  <2>1. g = [h EXCEPT !.source[b] = s, !.has.calculated[b] = FALSE]
    BY <1>7 DEF InformationOf
  <2>2. s \in Source /\ s.external = h.source[b].external /\ s.legacy = s.installed
    BY <1>1 DEF BlankOutBattery, rebuildLegacyIOBatteryInfo, Source
  <2> HIDE DEF g, s
  <2>3. g = [has |-> [h.has EXCEPT !.calculated[b] = FALSE], source |-> [h.source EXCEPT ![b] = s]]
    BY <1>1, <2>1
  <2>4. g.has = [h.has EXCEPT !.calculated[b] = FALSE] /\ g = [has |-> g.has, source |-> g.source]
        /\ g.source = [h.source EXCEPT ![b] = s]
    BY <2>3
  <2>5. g.has \in Has /\ g.has.external = h.has.external /\ g.has.inserted = h.has.inserted
        /\ g.has.firstTime = h.has.firstTime
    <3> DEFINE c == [h.has.calculated EXCEPT ![b] = FALSE]
    <3>1. c \in [Bays -> BOOLEAN]
      BY <1>1 DEF Has
    <3>2. g.has = [h.has EXCEPT !.calculated = c]
      BY <2>4
    <3> HIDE DEF c
    <3> QED BY <1>1, <3>1, <3>2 DEF Has
  <2>6. g.source \in [Bays -> Source] /\ \A c \in Bays : g.source[c] = IF c = b THEN s ELSE h.source[c]
    BY <1>1, <2>2, <2>4
  <2> QED BY <1>1, <2>2, <2>4, <2>5, <2>6 DEF Tidy, TellsMore, g
<1> QED BY <1>4, <1>5, <1>6, <1>7

(***************************************************************************)
(* What was done to each battery on its own is joined.                     *)
(***************************************************************************)
LEMMA JoinedIsTidy ==
  ASSUME NEW h, Tidy(h), NEW each, \A b \in Bays : Tidy(each[b]) /\ TellsMore(h, each[b])
  PROVE  Tidy(Joined(h, each)) /\ TellsMore(h, Joined(h, each))
<1> DEFINE g == Joined(h, each)
<1>1. h.has \in Has
  BY DEF Tidy
<1>2. \A b \in Bays : each[b].has \in Has /\ each[b].source \in [Bays -> Source]
                      /\ (each[b].source[b].legacy => each[b].source[b].installed)
  BY DEF Tidy
<1>3. /\ g.has = [h.has EXCEPT !.connected = [b \in Bays |-> each[b].has.connected[b]],
                               !.calculated = [b \in Bays |-> each[b].has.calculated[b]],
                               !.full = [b \in Bays |-> each[b].has.full[b]]]
      /\ g.source = [b \in Bays |-> each[b].source[b]] /\ g = [has |-> g.has, source |-> g.source]
  BY DEF Joined
<1> HIDE DEF g
<1>4. /\ [b \in Bays |-> each[b].has.connected[b]] \in [Bays -> BOOLEAN]
      /\ [b \in Bays |-> each[b].has.calculated[b]] \in [Bays -> BOOLEAN]
      /\ [b \in Bays |-> each[b].has.full[b]] \in [Bays -> BOOLEAN]
  BY <1>2 DEF Has
<1>5. g.has \in Has /\ g.has.external = h.has.external /\ g.has.inserted = h.has.inserted
      /\ g.has.firstTime = h.has.firstTime
  BY <1>1, <1>3, <1>4 DEF Has
<1>6. g.source \in [Bays -> Source] /\ \A b \in Bays : g.source[b] = each[b].source[b]
  BY <1>2, <1>3
<1>7. \A b \in Bays : h.source[b].external => each[b].source[b].external
  BY DEF TellsMore
<1> QED BY <1>2, <1>3, <1>5, <1>6, <1>7 DEF Tidy, TellsMore, g

LEMMA InformAllIsTidy ==
  ASSUME NEW h, Tidy(h), NEW bs, NEW reply, NEW info
  PROVE  Tidy(InformAll(h, bs, reply, info)) /\ TellsMore(h, InformAll(h, bs, reply, info))
<1> DEFINE each == [b \in Bays |-> IF b \in bs THEN InformationOf(h, b, reply[b], info[b]) ELSE h]
<1>1. \A b \in Bays : Tidy(each[b]) /\ TellsMore(h, each[b])
  <2> SUFFICES ASSUME NEW b \in Bays PROVE Tidy(each[b]) /\ TellsMore(h, each[b])
    OBVIOUS
  <2>1. CASE b \in bs
    <3>1. each[b] = InformationOf(h, b, reply[b], info[b])
      BY <2>1
    <3> QED BY <3>1, InformationIsTidy
  <2>2. CASE b \notin bs
    <3>1. each[b] = h
      BY <2>2
    <3> HIDE DEF each
    <3> QED BY <3>1 DEF TellsMore
  <2> QED BY <2>1, <2>2
<1>2. InformAll(h, bs, reply, info) = Joined(h, each)
  BY DEF InformAll
<1> HIDE DEF each
<1> QED BY <1>1, <1>2, JoinedIsTidy

(***************************************************************************)
(* Every source is told what the driver holds.                             *)
(***************************************************************************)
LEMMA PowerIsTold_All ==
  ASSUME NEW h, Tidy(h)
  PROVE  /\ Tidy(ExternalPower(h)) /\ Shown(ExternalPower(h))
         /\ ExternalPower(h).has = h.has
<1> DEFINE g == ExternalPower(h)
           e == h.has.external
<1>1. h = [has |-> h.has, source |-> h.source] /\ h.has \in Has /\ h.source \in [Bays -> Source]
      /\ \A c \in Bays : h.source[c].legacy => h.source[c].installed
  BY DEF Tidy
<1>2. e \in BOOLEAN
  BY <1>1 DEF Has
<1>3. g = [h EXCEPT !.source = [b \in Bays |-> Told(h.source[b], e)]]
  BY DEF ExternalPower, Told
<1> HIDE DEF g, e
<1>4. g = [has |-> h.has, source |-> [b \in Bays |-> Told(h.source[b], e)]]
  BY <1>1, <1>3
<1>5. g.has = h.has /\ g = [has |-> g.has, source |-> g.source]
      /\ g.source = [b \in Bays |-> Told(h.source[b], e)]
  BY <1>4
<1>6. \A s \in Source : /\ Told(s, e) \in Source /\ Told(s, e).external = e
                        /\ Told(s, e).legacy = s.legacy /\ Told(s, e).installed = s.installed
  BY <1>2 DEF Source, Told
<1>7. /\ g.source \in [Bays -> Source]
      /\ \A b \in Bays : /\ g.source[b].external = e /\ g.source[b].legacy = h.source[b].legacy
                         /\ g.source[b].installed = h.source[b].installed
  BY <1>1, <1>5, <1>6
<1> QED BY <1>1, <1>5, <1>7 DEF Tidy, Shown, g, e

(***************************************************************************)
(* A poll takes no external power back, and tells of what it finds.        *)
(***************************************************************************)
LEMMA UpdatedShows ==
  ASSUME NEW h, Tidy(h), NEW reply, NEW info
  PROVE  LET g == Updated(h, reply, info)
         IN /\ Tidy(g) /\ (Shown(h) => Shown(g))
            /\ h.has.external => g.has.external
            /\ g.has.inserted = h.has.inserted
<1> DEFINE g == Updated(h, reply, info)
           polled == InformAll(h, {b \in Bays : h.has.connected[b]}, reply, info)
           e == polled.has.external \/ \E b \in Bays : polled.has.calculated[b]
           told == [polled EXCEPT !.has.external = e]
<1>1. Tidy(polled) /\ TellsMore(h, polled)
  BY InformAllIsTidy
<1>2. CASE AdapterBays # {}
  <2>1. g = polled
    BY <1>2 DEF Updated
  <2> HIDE DEF g, polled
  <2>2. polled.has.external = h.has.external /\ polled.has.inserted = h.has.inserted
        /\ (Shown(h) => Shown(polled))
    BY <1>1 DEF TellsMore, Shown
  <2> QED BY <1>1, <2>1, <2>2 DEF g
<1>3. CASE AdapterBays = {}
  <2>1. g = ExternalPower(told)
    BY <1>3 DEF Updated
  <2>2. e \in BOOLEAN /\ (polled.has.external => e)
    OBVIOUS
  <2> HIDE DEF g, polled, e
  <2>3. told = [has |-> [polled.has EXCEPT !.external = e], source |-> polled.source]
    BY <1>1 DEF Tidy
  <2>4. told.has = [polled.has EXCEPT !.external = e] /\ told.source = polled.source
        /\ told = [has |-> told.has, source |-> told.source]
    BY <2>3
  <2> HIDE DEF told
  <2>5. told.has \in Has /\ told.has.external = e /\ told.has.inserted = polled.has.inserted
    BY <1>1, <2>2, <2>4 DEF Tidy, Has
  <2>6. Tidy(told)
    BY <1>1, <2>4, <2>5 DEF Tidy
  <2>7. Tidy(g) /\ Shown(g) /\ g.has = told.has
    BY <2>1, <2>6, PowerIsTold_All
  <2>8. polled.has.external = h.has.external /\ polled.has.inserted = h.has.inserted
    BY <1>1 DEF TellsMore
  <2> QED BY <2>2, <2>5, <2>7, <2>8 DEF g
<1> QED BY <1>2, <1>3

(***************************************************************************)
(* A check leaves sources that all tell what the driver holds, which is    *)
(* power when it counts no battery.                                        *)
(***************************************************************************)
LEMMA CheckedShows ==
  ASSUME NEW h, Tidy(h), NEW answering \in SUBSET Bays, NEW sta \in [answering -> BOOLEAN],
         NEW psr, NEW reply, NEW info
  PROVE  LET g == Checked(h, sta, psr, reply, info)
         IN Tidy(g) /\ Shown(g) /\ (~g.has.inserted => g.has.external)
<1> DEFINE g == Checked(h, sta, psr, reply, info)
           conn == [b \in Bays |-> IF b \in DOMAIN sta THEN sta[b] ELSE h.has.connected[b]]
           found == [h EXCEPT !.has.connected = conn]
           changed == {b \in DOMAIN sta : sta[b] # h.has.connected[b]}
           asked == InformAll(found, changed, reply, info)
           anyIn == \E b \in DOMAIN sta : asked.has.connected[b]
           on == psr # {}
           told == [asked EXCEPT !.has.inserted = anyIn, !.has.external = on]
           last == IF anyIn THEN Updated(told, reply, info) ELSE [told EXCEPT !.has.external = TRUE]
<1>1. g = ExternalPower(last)
  BY DEF Checked
<1>2. Tidy(found)
  <2>1. conn \in [Bays -> BOOLEAN]
    BY DEF Tidy, Has
  <2> HIDE DEF conn
  <2>2. found = [has |-> [h.has EXCEPT !.connected = conn], source |-> h.source]
    BY DEF Tidy
  <2>3. found.has = [h.has EXCEPT !.connected = conn] /\ found.source = h.source
        /\ found = [has |-> found.has, source |-> found.source]
    BY <2>2
  <2> HIDE DEF found
  <2>4. found.has \in Has
    BY <2>1, <2>3 DEF Tidy, Has
  <2> QED BY <2>3, <2>4 DEF Tidy
<1> HIDE DEF found, changed
<1>3. Tidy(asked)
  BY <1>2, InformAllIsTidy
<1>4. anyIn \in BOOLEAN /\ on \in BOOLEAN
  OBVIOUS
<1> HIDE DEF asked, anyIn, on
<1>5. Tidy(told) /\ told.has.inserted = anyIn
      /\ (told.has \in Has /\ told = [has |-> told.has, source |-> told.source])
  <2>1. told = [has |-> [asked.has EXCEPT !.inserted = anyIn, !.external = on], source |-> asked.source]
    <3> DEFINE x == [asked.has EXCEPT !.inserted = anyIn]
               y == [asked EXCEPT !.has = x]
    <3>1. told = [y EXCEPT !.has = [y.has EXCEPT !.external = on]]
      OBVIOUS
    <3> HIDE DEF told, x
    <3>2. y = [has |-> x, source |-> asked.source]
      BY <1>3 DEF Tidy
    <3>3. y.has = x
      BY <3>2
    <3> HIDE DEF y
    <3>4. told = [has |-> [x EXCEPT !.external = on], source |-> asked.source]
      BY <3>1, <3>2, <3>3
    <3> QED BY <3>4 DEF x
  <2>2. told.has = [asked.has EXCEPT !.inserted = anyIn, !.external = on] /\ told.source = asked.source
        /\ told = [has |-> told.has, source |-> told.source]
    BY <2>1
  <2> HIDE DEF told
  <2>3. told.has \in Has /\ told.has.inserted = anyIn
    BY <1>3, <1>4, <2>2 DEF Tidy, Has
  <2> QED BY <1>3, <2>2, <2>3 DEF Tidy
<1> HIDE DEF told
<1>6. Tidy(last) /\ (~last.has.inserted => last.has.external)
  <2>1. CASE anyIn
    <3>1. last = Updated(told, reply, info)
      BY <2>1
    <3> HIDE DEF last
    <3> QED BY <1>5, <2>1, <3>1, UpdatedShows
  <2>2. CASE ~anyIn
    <3>1. last = [told EXCEPT !.has.external = TRUE]
      BY <2>2
    <3> HIDE DEF last
    <3>2. last = [has |-> [told.has EXCEPT !.external = TRUE], source |-> told.source]
      BY <1>5, <3>1
    <3>3. last.has = [told.has EXCEPT !.external = TRUE] /\ last.source = told.source
          /\ last = [has |-> last.has, source |-> last.source]
      BY <3>2
    <3>4. last.has \in Has /\ last.has.external
      BY <1>5, <3>3 DEF Has
    <3> QED BY <1>5, <3>3, <3>4 DEF Tidy
  <2> QED BY <2>1, <2>2
<1> HIDE DEF last
<1>7. Tidy(g) /\ Shown(g) /\ g.has = last.has
  BY <1>1, <1>6, PowerIsTold_All
<1> QED BY <1>6, <1>7 DEF g

(***************************************************************************)
(* Reading a key may ask batteries, and takes note of a first answer.      *)
(***************************************************************************)
LEMMA ReadIsTidy ==
  ASSUME Tidy(Held), Shown(Held), ReadOfBattery \/ ReadChargeCode
  PROVE  \E g : Hold(g) /\ Tidy(g) /\ TellsMore(Held, g) /\ Shown(g)
<1>1. ASSUME NEW g, Tidy(g), TellsMore(Held, g) PROVE Shown(g)
  BY <1>1 DEF Shown, TellsMore
<1>2. CASE ReadOfBattery
  <2>1. PICK key \in batteryKeys \cap KeysOf(Bays), reply \in StatusReplies, info \in InfoReplies :
          Hold(IF key[1] \in {"voltage", "amperage"} THEN InformationOf(Held, key[2], reply, info)
                                                     ELSE StatusOf(Held, key[2], reply))
    BY <1>2 DEF ReadOfBattery
  <2>2. key[2] \in Bays
    BY DEF KeysOf
  <2>3. CASE key[1] \in {"voltage", "amperage"}
    <3>1. Hold(InformationOf(Held, key[2], reply, info))
      BY <2>1, <2>3
    <3>2. Tidy(InformationOf(Held, key[2], reply, info)) /\ TellsMore(Held, InformationOf(Held, key[2], reply, info))
      BY <2>2, InformationIsTidy
    <3> QED BY <1>1, <3>1, <3>2
  <2>4. CASE key[1] \notin {"voltage", "amperage"}
    <3>1. Hold(StatusOf(Held, key[2], reply))
      BY <2>1, <2>4
    <3>2. Tidy(StatusOf(Held, key[2], reply)) /\ TellsMore(Held, StatusOf(Held, key[2], reply))
      BY <2>2, StatusIsTidy
    <3> QED BY <1>1, <3>1, <3>2
  <2> QED BY <2>3, <2>4
<1>3. CASE ReadChargeCode
  <2>1. PICK reply \in [Bays -> StatusReplies] :
          LET full == {b \in Bays : driverHas.connected[b] /\ StatusOf(Held, b, reply[b]).has.full[b]}
              asked == {b \in Bays : driverHas.connected[b] /\ \A f \in full : b <= f}
          IN Hold(Joined(Held, [b \in Bays |-> IF b \in asked THEN StatusOf(Held, b, reply[b]) ELSE Held]))
    BY <1>3 DEF ReadChargeCode
  <2> DEFINE full == {b \in Bays : driverHas.connected[b] /\ StatusOf(Held, b, reply[b]).has.full[b]}
             asked == {b \in Bays : driverHas.connected[b] /\ \A f \in full : b <= f}
             each == [b \in Bays |-> IF b \in asked THEN StatusOf(Held, b, reply[b]) ELSE Held]
  <2>2. Hold(Joined(Held, each))
    BY <2>1
  <2> HIDE DEF asked
  <2>3. \A b \in Bays : Tidy(each[b]) /\ TellsMore(Held, each[b])
    <3> SUFFICES ASSUME NEW b \in Bays PROVE Tidy(each[b]) /\ TellsMore(Held, each[b])
      OBVIOUS
    <3>1. CASE b \in asked
      <4>1. each[b] = StatusOf(Held, b, reply[b])
        BY <3>1
      <4> QED BY <4>1, StatusIsTidy
    <3>2. CASE b \notin asked
      <4>1. each[b] = Held
        BY <3>2
      <4> HIDE DEF each
      <4> QED BY <4>1 DEF TellsMore
    <3> QED BY <3>1, <3>2
  <2> HIDE DEF each
  <2>4. Tidy(Joined(Held, each)) /\ TellsMore(Held, Joined(Held, each))
    BY <2>3, JoinedIsTidy
  <2> QED BY <1>1, <2>2, <2>4
<1> QED BY <1>2, <1>3

(***************************************************************************)
(* What a step leaves of what the driver and the sources hold: the same,   *)
(* or what one of its functions does.                                      *)
(***************************************************************************)
LEMMA HeldNext ==
  ASSUME notebook' = notebook, NEW g, Hold(g), Tidy(g)
  PROVE  /\ Tidy(Held)' /\ (Shown(g) => Shown(Held)')
         /\ driverHas'.external = g.has.external /\ driverHas'.inserted = g.has.inserted
         /\ driverHas'.firstTime = g.has.firstTime
<1>1. driverHas' = g.has /\ powerSource' = g.source /\ Bays' = Bays
  BY DEF Hold, Bays
<1>2. Held' = g
  BY <1>1 DEF Held, Tidy
<1> QED BY <1>1, <1>2 DEF Tidy, Shown, Has

LEMMA SameHeld ==
  ASSUME Tidy(Held), Shown(Held), UNCHANGED <<notebook, driverHas, powerSource>>
  PROVE  Tidy(Held)' /\ Shown(Held)'
<1>1. Held' = Held /\ Bays' = Bays
  BY DEF Held, Bays
<1> QED BY <1>1 DEF Tidy, Shown, Has

LEMMA CheckStep ==
  ASSUME notebook' = notebook, Tidy(Held), CheckDevices
  PROVE  Tidy(Held)' /\ Shown(Held)' /\ (~driverHas'.inserted => driverHas'.external)
<1>1. PICK answering \in SUBSET Bays, psr \in SUBSET AdapterBays,
           reply \in [Bays -> StatusReplies], info \in [Bays -> InfoReplies] :
        \E sta \in [answering -> BOOLEAN] : Hold(Checked(Held, sta, psr, reply, info))
  BY DEF CheckDevices
<1>2. PICK sta \in [answering -> BOOLEAN] : Hold(Checked(Held, sta, psr, reply, info))
  BY <1>1
<1> DEFINE g == Checked(Held, sta, psr, reply, info)
<1>3. Hold(g) /\ Tidy(g) /\ Shown(g) /\ (~g.has.inserted => g.has.external)
  BY <1>2, CheckedShows
<1> HIDE DEF g
<1> QED BY <1>3, HeldNext

(***************************************************************************)
(* PowerInv holds at every moment.                                         *)
(***************************************************************************)
LEMMA PowerInvariant == BatteryKeysSpec => []PowerInv
<1>1. BatteryKeysInit => PowerInv
  <2> SUFFICES ASSUME BatteryKeysInit PROVE PowerInv
    OBVIOUS
  <2>1. driverHas \in Has /\ ~driverHas.external
    BY DEF BatteryKeysInit, Has
  <2>2. powerSource \in [Bays -> Source] /\ \A b \in Bays : ~powerSource[b].legacy
    BY DEF BatteryKeysInit, Source
  <2>3. Held.has = driverHas /\ Held.source = powerSource /\ Held = [has |-> Held.has, source |-> Held.source]
    BY DEF Held
  <2>4. Tidy(Held) /\ Shown(Held)
    BY <2>1, <2>2, <2>3 DEF Tidy, Shown
  <2>5. keyAnswer.key # <<"BATP">>
    BY DEF BatteryKeysInit, NoKeyAnswer
  <2> QED BY <2>4, <2>5 DEF PowerInv, BatteryKeysInit, AnswerOK, CheckedOnce
<1>2. PowerInv /\ [BatteryKeysNext]_batteryKeyVars => PowerInv'
  <2> SUFFICES ASSUME PowerInv, [BatteryKeysNext]_batteryKeyVars PROVE PowerInv'
    OBVIOUS
  <2>1. /\ notebook \in Notebooks /\ Tidy(Held) /\ Shown(Held) /\ AnswerOK
        /\ (batteryStage = "checking" => checksLeft \in 0..StartChecks)
        /\ (CheckedOnce /\ ~driverHas.inserted => driverHas.external)
        /\ StartChecks \in Nat \ {0}
    BY NotebooksAssumption DEF PowerInv
  <2>2. Held.has = driverHas /\ Held.source = powerSource
    BY DEF Held
  <2>3. CASE UNCHANGED <<notebook, batteryStage, checksLeft, driverHas, powerSource>>
               /\ (keyAnswer' = keyAnswer \/ keyAnswer' = NoKeyAnswer)
    <3>1. AnswerOK'
      BY <2>1, <2>3 DEF AnswerOK, NoKeyAnswer
    <3> QED BY <2>1, <2>3, <3>1, SameHeld DEF PowerInv, CheckedOnce
  <2>4. CASE keyAnswer = NoKeyAnswer /\ ProbeAndAttach
    <3>1. /\ UNCHANGED <<notebook, driverHas, powerSource, keyAnswer>>
          /\ (batteryStage' = "checking" => checksLeft' = StartChecks) /\ batteryStage' # "serving"
      BY <2>4 DEF ProbeAndAttach
    <3>2. ~CheckedOnce' /\ AnswerOK'
      BY <2>1, <3>1 DEF CheckedOnce, AnswerOK
    <3> QED BY <2>1, <3>1, <3>2, SameHeld DEF PowerInv
  <2>5. CASE keyAnswer = NoKeyAnswer /\ (StartCheck \/ DeviceNotification)
    <3>1. /\ CheckDevices /\ UNCHANGED <<notebook, batteryStage, keyAnswer>>
          /\ batteryStage = "checking" => checksLeft' \in 0..StartChecks
      BY <2>1, <2>5 DEF StartCheck, DeviceNotification
    <3>2. AnswerOK'
      BY <2>5, <3>1 DEF AnswerOK, NoKeyAnswer
    <3> QED BY <2>1, <3>1, <3>2, CheckStep DEF PowerInv
  <2>6. CASE keyAnswer = NoKeyAnswer /\ AddBatteryKeys
    <3>1. /\ UNCHANGED <<notebook, driverHas, powerSource, keyAnswer>>
          /\ CheckedOnce /\ batteryStage' = "serving"
      BY <2>1, <2>6 DEF AddBatteryKeys, CheckedOnce
    <3>2. AnswerOK'
      BY <2>1, <3>1 DEF AnswerOK
    <3> QED BY <2>1, <3>1, <3>2, SameHeld DEF PowerInv
  <2>7. CASE keyAnswer = NoKeyAnswer /\ StopBattery
    <3>1. /\ UNCHANGED <<notebook, driverHas, powerSource, keyAnswer>> /\ batteryStage' = "panicked"
      BY <2>7 DEF StopBattery
    <3>2. AnswerOK' /\ ~CheckedOnce'
      BY <2>1, <3>1 DEF AnswerOK, CheckedOnce
    <3> QED BY <2>1, <3>1, <3>2, SameHeld DEF PowerInv
  <2>8. CASE keyAnswer = NoKeyAnswer /\ PollBatteries
    <3>1. PICK reply \in [Bays -> StatusReplies], info \in [Bays -> InfoReplies] :
            Hold(Updated(Held, reply, info))
      BY <2>8 DEF PollBatteries
    <3> DEFINE g == Updated(Held, reply, info)
    <3>2. Hold(g) /\ Tidy(g) /\ Shown(g) /\ (driverHas.external => g.has.external)
          /\ g.has.inserted = driverHas.inserted
      BY <2>1, <2>2, <3>1, UpdatedShows
    <3> HIDE DEF g
    <3>3. UNCHANGED <<notebook, batteryStage, checksLeft, keyAnswer>>
      BY <2>8 DEF PollBatteries
    <3>4. /\ Tidy(Held)' /\ Shown(Held)' /\ (driverHas.external => driverHas'.external)
          /\ driverHas'.inserted = driverHas.inserted
      BY <3>2, <3>3, HeldNext
    <3>5. AnswerOK'
      BY <2>8, <3>3 DEF AnswerOK, NoKeyAnswer
    <3> QED BY <2>1, <3>3, <3>4, <3>5 DEF PowerInv, CheckedOnce
  <2>9. CASE keyAnswer = NoKeyAnswer /\ ReadBatteryKey
    <3>1. UNCHANGED <<notebook, batteryStage, checksLeft>>
      BY <2>9 DEF ReadBatteryKey
    <3>2. CASE ReadOfBattery \/ ReadChargeCode
      <4>1. PICK g : Hold(g) /\ Tidy(g) /\ TellsMore(Held, g) /\ Shown(g)
        BY <2>1, <3>2, ReadIsTidy
      <4>2. /\ Tidy(Held)' /\ Shown(Held)' /\ driverHas'.external = driverHas.external
            /\ driverHas'.inserted = driverHas.inserted
        BY <2>2, <3>1, <4>1, HeldNext DEF TellsMore
      <4>3. keyAnswer' = keyAnswer \/ keyAnswer'.key = <<"CHLC">>
        <5>1. ReadOfBattery => keyAnswer' = keyAnswer
          BY DEF ReadOfBattery
        <5>2. ReadChargeCode => \E v \in {1, 2} : keyAnswer' = [key |-> <<"CHLC">>, value |-> v, first |-> FALSE]
          BY DEF ReadChargeCode
        <5>3. \A v \in {1, 2} : [key |-> <<"CHLC">>, value |-> v, first |-> FALSE].key = <<"CHLC">>
          OBVIOUS
        <5> QED BY <3>2, <5>1, <5>2, <5>3
      <4>4. AnswerOK'
        BY <2>9, <4>3 DEF AnswerOK, NoKeyAnswer
      <4> QED BY <2>1, <3>1, <4>2, <4>4 DEF PowerInv, CheckedOnce
    <3>3. CASE ReadPlain
      <4>1. PICK key \in (NotOfOne \cup {"MSLD"}) \ {"CHLC"} : \E value \in PlainValue(key) :
              /\ keyAnswer' = [key |-> <<key>>, value |-> value, first |-> key = "BATP" /\ driverHas.firstTime]
              /\ driverHas' = IF key = "BATP" THEN [driverHas EXCEPT !.firstTime = FALSE] ELSE driverHas
              /\ powerSource' = powerSource
        BY <3>3 DEF ReadPlain
      <4>2. PICK value \in PlainValue(key) :
              keyAnswer' = [key |-> <<key>>, value |-> value, first |-> key = "BATP" /\ driverHas.firstTime]
        BY <4>1
      <4>3. driverHas \in Has
        BY <2>1, <2>2 DEF Tidy
      <4>4. /\ driverHas' \in Has /\ driverHas'.external = driverHas.external
            /\ driverHas'.inserted = driverHas.inserted
        BY <4>1, <4>3 DEF Has
      <4>5. Tidy(Held)' /\ Shown(Held)'
        <5>1. Bays' = Bays /\ Held' = [has |-> driverHas', source |-> powerSource]
          BY <3>1, <4>1 DEF Bays, Held
        <5> QED BY <2>1, <2>2, <4>4, <5>1 DEF Tidy, Shown, Has
      <4>6. AnswerOK'
        <5>1. CASE key = "BATP"
          <6>1. value = IF driverHas.firstTime \/ ~driverHas.external THEN 1 ELSE 0
            BY <4>2, <5>1 DEF PlainValue
          <6>2. keyAnswer'.value = value /\ (keyAnswer'.first <=> driverHas.firstTime)
            BY <4>2, <5>1
          <6> QED BY <4>3, <4>4, <6>1, <6>2 DEF AnswerOK, Has
        <5>2. CASE key # "BATP"
          <6>1. keyAnswer'.key = <<key>> /\ <<key>> # <<"BATP">>
            BY <4>2, <5>2
          <6> QED BY <6>1 DEF AnswerOK
        <5> QED BY <5>1, <5>2
      <4> QED BY <2>1, <3>1, <4>4, <4>5, <4>6 DEF PowerInv, CheckedOnce
    <3> QED BY <2>9, <3>2, <3>3 DEF ReadBatteryKey
  <2> QED BY <2>3, <2>4, <2>5, <2>6, <2>7, <2>8, <2>9 DEF BatteryKeysNext, batteryKeyVars, Delivered
<1> QED BY <1>1, <1>2, PTL DEF BatteryKeysSpec

(***************************************************************************)
(* On every notebook, with any batteries and adapters and whatever their   *)
(* firmware answers, the driver, the sources, BATP and BBIN agree on       *)
(* external power.                                                         *)
(***************************************************************************)
THEOREM PowerStaysAgreed == BatteryKeysSpec => []PowerIsAgreed
<1>1. PowerInv => PowerIsAgreed
  <2> SUFFICES ASSUME PowerInv PROVE PowerIsAgreed
    OBVIOUS
  <2>1. Held.has = driverHas /\ Held.source = powerSource
    BY DEF Held
  <2> QED BY <2>1 DEF PowerInv, PowerIsAgreed, Tidy, Shown, CheckedOnce, AnswerOK
<1> QED BY <1>1, PowerInvariant, PTL

-----------------------------------------------------------------------------
(* The clocks of a Geforce *)

(***************************************************************************)
(* The clocks of a card depend on one another in no circle, whatever its   *)
(* registers hold: every function that finds one out stands at a height,   *)
(* and calls only functions that stand lower.  A clock that is known       *)
(* stands at the bottom, the four that are asked for at the top.           *)
(***************************************************************************)
Sources == {"pll e800", "pll e820", "pll e810", "pll 41", "pll 42", "pll_1 4008", "pll_2 4000",
            "pll_2 4020", "hclk", "src", "src 4008", "core of MCP79"}
Second == {"vco", "host", "hclkm3", "ref 4028", "ref 4020", "ref 4008"}
Third == {"div 137320", "div 137120", "div 137160", "div 137300", "clk 00", "clk 10", "clk 01", "clk 11",
          "clk 02", "clk 12", "dom6", "pll 4020", "pll 4008"}
Fourth == {"pll 4028", "pll 132020", "pll 137000"}
Fifth == {"nvclk", "sclk", "mclk", "pll 132000"}

Height(f) ==
  CASE f \in Ends -> 0 [] f \in Sources -> 1 [] f \in Second -> 2 [] f \in Third -> 3
    [] f \in Fourth -> 4 [] f \in Fifth -> 5 [] f \in Asked -> 6

(***************************************************************************)
(* What CASE makes of the levels, which are disjoint.                      *)
(***************************************************************************)
LEMMA Heights ==
  /\ \A f \in Ends : Height(f) = 0
  /\ \A f \in Sources : Height(f) = 1
  /\ \A f \in Second : Height(f) = 2
  /\ \A f \in Third : Height(f) = 3
  /\ \A f \in Fourth : Height(f) = 4
  /\ \A f \in Fifth : Height(f) = 5
  /\ \A f \in Asked : Height(f) = 6
BY DEF Height, Ends, Sources, Second, Third, Fourth, Fifth, Asked

\* The functions a chip has.
CurieFunctions == Asked \union Ends \union {"pll_1 4008", "pll_2 4000", "pll_2 4020"}
TeslaFunctions ==
  Asked \union Ends \union
  {"core of MCP79", "nvclk", "sclk", "mclk", "host", "hclk", "hclkm3", "dom6", "pll e810", "pll 4028",
   "pll 4020", "pll 4008", "ref 4028", "ref 4020", "ref 4008", "src", "src 4008"}
Gt215Functions ==
  Asked \union Ends \union
  {"vco", "clk 00", "clk 10", "clk 01", "clk 11", "clk 02", "clk 12", "pll 41", "pll 42"}
FermiFunctions ==
  Asked \union Ends \union
  {"vco", "div 137320", "div 137120", "div 137160", "div 137300", "pll e800", "pll e820", "pll 132000",
   "pll 132020", "pll 137000"}
Functions(chip) ==
  CASE chip = "NV40" -> CurieFunctions
    [] chip \in Teslas -> TeslaFunctions
    [] chip = "GT215" -> Gt215Functions
    [] OTHER -> FermiFunctions

\* f waits for g.
Lower(f, g) == Height(f) \in Nat /\ Height(g) \in Nat /\ Height(g) < Height(f)

(***************************************************************************)
(* A function of a level waits for any of the levels below it.             *)
(***************************************************************************)
LEMMA SourcesWait == \A f \in Sources, g \in Ends : Lower(f, g)
BY Heights DEF Lower

LEMMA SecondWait == \A f \in Second, g \in Ends \union Sources : Lower(f, g)
BY Heights DEF Lower

LEMMA ThirdWait == \A f \in Third, g \in Ends \union Sources \union Second : Lower(f, g)
BY Heights DEF Lower

LEMMA FourthWait == \A f \in Fourth, g \in Ends \union Sources \union Second \union Third : Lower(f, g)
BY Heights DEF Lower

LEMMA FifthWait == \A f \in Fifth, g \in Ends \union Sources \union Second \union Third \union Fourth : Lower(f, g)
BY Heights DEF Lower

LEMMA AskedWait == \A f \in Asked, g \in Ends \union Sources \union Second \union Third \union Fourth \union Fifth : Lower(f, g)
BY Heights DEF Lower

(***************************************************************************)
(* Waiting for one that waits is waiting.                                  *)
(***************************************************************************)
LEMMA LowerTrans ==
  ASSUME NEW f, NEW g, NEW h, Lower(f, g), Lower(g, h)
  PROVE  Lower(f, h)
BY DEF Lower

(***************************************************************************)
(* The functions of nv40 call only functions of nv40, each lower than      *)
(* itself.                                                                 *)
(***************************************************************************)
LEMMA CurieDescends ==
  ASSUME NEW f \in CurieFunctions \ Ends, NEW g \in Nv40Calls(f)
  PROVE  g \in CurieFunctions /\ Lower(f, g)
<1>1. CASE f \in {"core", "shader"}
  <2>1. Nv40Calls(f) \subseteq {"pll_2 4000", "pll_1 4008", "nothing"}
    BY <1>1 DEF Nv40Calls
  <2>2. g \in CurieFunctions /\ g \in Ends \union Sources
    BY <2>1 DEF CurieFunctions, Ends, Sources
  <2>3. f \in Asked
    BY <1>1 DEF Asked
  <2> QED BY <2>2, <2>3, AskedWait
<1>2. CASE f = "memory"
  <2>1. Nv40Calls(f) \subseteq {"pll_2 4020"}
    BY <1>2 DEF Nv40Calls
  <2>2. g \in CurieFunctions /\ g \in Sources
    BY <2>1 DEF CurieFunctions, Sources, Ends
  <2>3. f \in Asked
    BY <1>2 DEF Asked
  <2> QED BY <2>2, <2>3, AskedWait
<1>3. CASE f = "rop"
  <2>1. Nv40Calls(f) \subseteq {"nothing"}
    BY <1>3 DEF Nv40Calls
  <2>2. g \in CurieFunctions /\ g \in Ends
    BY <2>1 DEF CurieFunctions, Ends
  <2>3. f \in Asked
    BY <1>3 DEF Asked
  <2> QED BY <2>2, <2>3, AskedWait
<1>4. CASE f \in {"pll_1 4008", "pll_2 4000", "pll_2 4020"}
  <2>1. Nv40Calls(f) \subseteq {"reference"}
    BY <1>4 DEF Nv40Calls
  <2>2. g \in CurieFunctions /\ g \in Ends
    BY <2>1 DEF CurieFunctions, Ends
  <2>3. f \in Sources
    BY <1>4 DEF Sources
  <2> QED BY <2>2, <2>3, SourcesWait
<1> QED BY <1>1, <1>2, <1>3, <1>4 DEF CurieFunctions, Asked

(***************************************************************************)
(* The same of nv50, on every chip it is for: read_pll of the loop at      *)
(* 0x4028 may ask for dom6, and what dom6 asks for on that chip is lower   *)
(* still.                                                                  *)
(***************************************************************************)
LEMMA TeslaDescends ==
  ASSUME NEW chip \in Teslas, NEW f \in TeslaFunctions \ Ends, NEW g \in Nv50Calls(chip, f)
  PROVE  g \in TeslaFunctions /\ Lower(f, g)
<1>1. CASE f \in Asked
  <2>1. Nv50Calls(chip, f) \subseteq {"core of MCP79", "nvclk", "sclk", "mclk", "nothing"}
    BY <1>1 DEF Nv50Calls, Nv50Get, Asked
  <2>2. g \in TeslaFunctions /\ g \in Ends \union Sources \union Fifth
    BY <2>1 DEF TeslaFunctions, Ends, Sources, Fifth
  <2> QED BY <1>1, <2>2, AskedWait
<1>2. CASE f = "core of MCP79"
  <2>1. Nv50Calls(chip, f) \subseteq {"reference"}
    BY <1>2 DEF Nv50Calls, Asked
  <2>2. g \in TeslaFunctions /\ g \in Ends
    BY <2>1 DEF TeslaFunctions, Ends
  <2>3. f \in Sources
    BY <1>2 DEF Sources
  <2> QED BY <2>2, <2>3, SourcesWait
<1>3. CASE f = "pll e810"
  <2>1. Nv50Calls(chip, f) \subseteq {"crystal"}
    BY <1>3 DEF Nv50Calls, Asked, Nv50Pll
  <2>2. g \in TeslaFunctions /\ g \in Ends
    BY <2>1 DEF TeslaFunctions, Ends
  <2>3. f \in Sources
    BY <1>3 DEF Sources
  <2> QED BY <2>2, <2>3, SourcesWait
<1>4. CASE f = "pll 4028"
  <2>1. Nv50Calls(chip, f) \subseteq {"ref 4028", "dom6"}
    BY <1>4 DEF Nv50Calls, Asked, Nv50Pll
  <2>2. g \in TeslaFunctions /\ g \in Second \union Third
    BY <2>1 DEF TeslaFunctions, Second, Third, Ends
  <2>3. f \in Fourth
    BY <1>4 DEF Fourth
  <2> QED BY <2>2, <2>3, FourthWait
<1>5. CASE f = "pll 4020"
  <2>1. Nv50Calls(chip, f) \subseteq {"ref 4020"}
    BY <1>5 DEF Nv50Calls, Asked, Nv50Pll
  <2>2. g \in TeslaFunctions /\ g \in Second
    BY <2>1 DEF TeslaFunctions, Second, Ends
  <2>3. f \in Third
    BY <1>5 DEF Third
  <2> QED BY <2>2, <2>3, ThirdWait
<1>6. CASE f = "pll 4008"
  <2>1. Nv50Calls(chip, f) \subseteq {"ref 4008"}
    BY <1>6 DEF Nv50Calls, Asked, Nv50Pll
  <2>2. g \in TeslaFunctions /\ g \in Second
    BY <2>1 DEF TeslaFunctions, Second, Ends
  <2>3. f \in Third
    BY <1>6 DEF Third
  <2> QED BY <2>2, <2>3, ThirdWait
<1>7. CASE f \in {"ref 4028", "ref 4020", "ref 4008"}
  <2>1. Nv50Calls(chip, f) \subseteq {"reference", "src 4008", "src"}
    BY <1>7 DEF Nv50Calls, Asked, Nv50Ref
  <2>2. g \in TeslaFunctions /\ g \in Ends \union Sources
    BY <2>1 DEF TeslaFunctions, Ends, Sources
  <2>3. f \in Second
    BY <1>7 DEF Second
  <2> QED BY <2>2, <2>3, SecondWait
<1>8. CASE f \in {"src", "src 4008"}
  <2>1. Nv50Calls(chip, f) \subseteq {"nothing", "crystal", "reference"}
    BY <1>8 DEF Nv50Calls, Asked, Nv50Src
  <2>2. g \in TeslaFunctions /\ g \in Ends
    BY <2>1 DEF TeslaFunctions, Ends
  <2>3. f \in Sources
    BY <1>8 DEF Sources
  <2> QED BY <2>2, <2>3, SourcesWait
<1>9. CASE f = "nvclk"
  <2>1. Nv50Calls(chip, f) \subseteq {"crystal", "dom6", "pll 4020", "pll 4028"}
    BY <1>9 DEF Nv50Calls, Asked, Nv50Clk
  <2>2. g \in TeslaFunctions /\ g \in Ends \union Third \union Fourth
    BY <2>1 DEF TeslaFunctions, Ends, Third, Fourth
  <2>3. f \in Fifth
    BY <1>9 DEF Fifth
  <2> QED BY <2>2, <2>3, FifthWait
<1>10. CASE f = "sclk"
  <2>1. Nv50Calls(chip, f) \subseteq {"host", "crystal", "nothing", "pll 4028", "pll 4020"}
    BY <1>10 DEF Nv50Calls, Asked, Nv50Clk
  <2>2. g \in TeslaFunctions /\ g \in Ends \union Second \union Third \union Fourth
    BY <2>1 DEF TeslaFunctions, Ends, Second, Third, Fourth
  <2>3. f \in Fifth
    BY <1>10 DEF Fifth
  <2> QED BY <2>2, <2>3, FifthWait
<1>11. CASE f = "mclk"
  <2>1. Nv50Calls(chip, f) \subseteq {"crystal", "reference", "nothing", "pll 4008"}
    BY <1>11 DEF Nv50Calls, Asked, Nv50Clk
  <2>2. g \in TeslaFunctions /\ g \in Ends \union Third
    BY <2>1 DEF TeslaFunctions, Ends, Third
  <2>3. f \in Fifth
    BY <1>11 DEF Fifth
  <2> QED BY <2>2, <2>3, FifthWait
<1>12. CASE f = "host"
  <2>1. Nv50Calls(chip, f) \subseteq {"reference", "nothing", "hclk"}
    BY <1>12 DEF Nv50Calls, Asked, Nv50Clk
  <2>2. g \in TeslaFunctions /\ g \in Ends \union Sources
    BY <2>1 DEF TeslaFunctions, Ends, Sources
  <2>3. f \in Second
    BY <1>12 DEF Second
  <2> QED BY <2>2, <2>3, SecondWait
<1>13. CASE f = "hclk"
  <2>1. Nv50Calls(chip, f) \subseteq {"reference"}
    BY <1>13 DEF Nv50Calls, Asked, Nv50Clk
  <2>2. g \in TeslaFunctions /\ g \in Ends
    BY <2>1 DEF TeslaFunctions, Ends
  <2>3. f \in Sources
    BY <1>13 DEF Sources
  <2> QED BY <2>2, <2>3, SourcesWait
<1>14. CASE f = "hclkm3"
  <2>1. Nv50Calls(chip, f) \subseteq {"hclk"}
    BY <1>14 DEF Nv50Calls, Asked, Nv50Clk
  <2>2. g \in TeslaFunctions /\ g \in Sources
    BY <2>1 DEF TeslaFunctions, Sources, Ends
  <2>3. f \in Second
    BY <1>14 DEF Second
  <2> QED BY <2>2, <2>3, SecondWait
<1>15. CASE f = "dom6"
  <2>1. Nv50Calls(chip, f) \subseteq {"pll e810", "nothing", "reference", "hclk", "hclkm3"}
    BY <1>15 DEF Nv50Calls, Asked, Nv50Clk
  <2>2. g \in TeslaFunctions /\ g \in Ends \union Sources \union Second
    BY <2>1 DEF TeslaFunctions, Ends, Sources, Second
  <2>3. f \in Third
    BY <1>15 DEF Third
  <2> QED BY <2>2, <2>3, ThirdWait
<1> QED BY <1>1, <1>2, <1>3, <1>4, <1>5, <1>6, <1>7, <1>8, <1>9, <1>10, <1>11, <1>12, <1>13, <1>14, <1>15 DEF TeslaFunctions, Asked

(***************************************************************************)
(* The same of nva3.                                                       *)
(***************************************************************************)
LEMMA Gt215Descends ==
  ASSUME NEW f \in Gt215Functions \ Ends, NEW g \in Nva3Calls(f)
  PROVE  g \in Gt215Functions /\ Lower(f, g)
<1>1. CASE f = "core"
  <2>1. Nva3Calls(f) \subseteq {"clk 00", "clk 10", "nothing"}
    BY <1>1 DEF Nva3Calls, Nva3Pll
  <2>2. g \in Gt215Functions /\ g \in Ends \union Third
    BY <2>1 DEF Gt215Functions, Ends, Third
  <2>3. f \in Asked
    BY <1>1 DEF Asked
  <2> QED BY <2>2, <2>3, AskedWait
<1>2. CASE f = "shader"
  <2>1. Nva3Calls(f) \subseteq {"clk 01", "clk 11", "nothing"}
    BY <1>2 DEF Nva3Calls, Nva3Pll
  <2>2. g \in Gt215Functions /\ g \in Ends \union Third
    BY <2>1 DEF Gt215Functions, Ends, Third
  <2>3. f \in Asked
    BY <1>2 DEF Asked
  <2> QED BY <2>2, <2>3, AskedWait
<1>3. CASE f = "memory"
  <2>1. Nva3Calls(f) \subseteq {"clk 02", "clk 12", "nothing"}
    BY <1>3 DEF Nva3Calls, Nva3Pll
  <2>2. g \in Gt215Functions /\ g \in Ends \union Third
    BY <2>1 DEF Gt215Functions, Ends, Third
  <2>3. f \in Asked
    BY <1>3 DEF Asked
  <2> QED BY <2>2, <2>3, AskedWait
<1>4. CASE f = "rop"
  <2>1. Nva3Calls(f) \subseteq {"nothing"}
    BY <1>4 DEF Nva3Calls, Nva3Pll
  <2>2. g \in Gt215Functions /\ g \in Ends
    BY <2>1 DEF Gt215Functions, Ends
  <2>3. f \in Asked
    BY <1>4 DEF Asked
  <2> QED BY <2>2, <2>3, AskedWait
<1>5. CASE f \in {"pll 41", "pll 42"}
  <2>1. Nva3Calls(f) \subseteq {"crystal", "nothing"}
    BY <1>5 DEF Nva3Calls, Nva3Pll
  <2>2. g \in Gt215Functions /\ g \in Ends
    BY <2>1 DEF Gt215Functions, Ends
  <2>3. f \in Sources
    BY <1>5 DEF Sources
  <2> QED BY <2>2, <2>3, SourcesWait
<1>6. CASE f = "vco"
  <2>1. Nva3Calls(f) \subseteq {"pll 41", "pll 42"}
    BY <1>6 DEF Nva3Calls, Nva3Vco
  <2>2. g \in Gt215Functions /\ g \in Sources
    BY <2>1 DEF Gt215Functions, Sources, Ends
  <2>3. f \in Second
    BY <1>6 DEF Second
  <2> QED BY <2>2, <2>3, SecondWait
<1>7. CASE f \in {"clk 00", "clk 10", "clk 01", "clk 11", "clk 02", "clk 12"}
  <2>1. Nva3Calls(f) \subseteq {"nothing", "crystal", "reference", "vco"}
    BY <1>7 DEF Nva3Calls, Nva3Clk
  <2>2. g \in Gt215Functions /\ g \in Ends \union Second
    BY <2>1 DEF Gt215Functions, Ends, Second
  <2>3. f \in Third
    BY <1>7 DEF Third
  <2> QED BY <2>2, <2>3, ThirdWait
<1> QED BY <1>1, <1>2, <1>3, <1>4, <1>5, <1>6, <1>7 DEF Gt215Functions, Asked

(***************************************************************************)
(* The same of the functions nvc0 and nve0 have in common,                 *)
(***************************************************************************)
LEMMA FermiDescends ==
  ASSUME NEW f \in FermiFunctions \ (Ends \union Asked), NEW g \in NvcCalls(f)
  PROVE  g \in FermiFunctions /\ Lower(f, g)
<1>1. CASE f \in {"pll e800", "pll e820"}
  <2>1. NvcCalls(f) \subseteq {"nothing", "crystal"}
    BY <1>1 DEF NvcCalls, NvcPll
  <2>2. g \in FermiFunctions /\ g \in Ends
    BY <2>1 DEF FermiFunctions, Ends
  <2>3. f \in Sources
    BY <1>1 DEF Sources
  <2> QED BY <2>2, <2>3, SourcesWait
<1>2. CASE f = "pll 132000"
  <2>1. NvcCalls(f) \subseteq {"nothing", "pll 132020"}
    BY <1>2 DEF NvcCalls, NvcPll
  <2>2. g \in FermiFunctions /\ g \in Ends \union Fourth
    BY <2>1 DEF FermiFunctions, Ends, Fourth
  <2>3. f \in Fifth
    BY <1>2 DEF Fifth
  <2> QED BY <2>2, <2>3, FifthWait
<1>3. CASE f = "pll 132020"
  <2>1. NvcCalls(f) \subseteq {"nothing", "div 137320"}
    BY <1>3 DEF NvcCalls, NvcPll
  <2>2. g \in FermiFunctions /\ g \in Ends \union Third
    BY <2>1 DEF FermiFunctions, Ends, Third
  <2>3. f \in Fourth
    BY <1>3 DEF Fourth
  <2> QED BY <2>2, <2>3, FourthWait
<1>4. CASE f = "pll 137000"
  <2>1. NvcCalls(f) \subseteq {"nothing", "div 137120"}
    BY <1>4 DEF NvcCalls, NvcPll
  <2>2. g \in FermiFunctions /\ g \in Ends \union Third
    BY <2>1 DEF FermiFunctions, Ends, Third
  <2>3. f \in Fourth
    BY <1>4 DEF Fourth
  <2> QED BY <2>2, <2>3, FourthWait
<1>5. CASE f = "vco"
  <2>1. NvcCalls(f) \subseteq {"pll e800", "pll e820"}
    BY <1>5 DEF NvcCalls, NvcVco
  <2>2. g \in FermiFunctions /\ g \in Sources
    BY <2>1 DEF FermiFunctions, Sources, Ends
  <2>3. f \in Second
    BY <1>5 DEF Second
  <2> QED BY <2>2, <2>3, SecondWait
<1>6. CASE f \in {"div 137320", "div 137120", "div 137160", "div 137300"}
  <2>1. NvcCalls(f) \subseteq {"crystal", "reference", "nothing", "vco"}
    BY <1>6 DEF NvcCalls, NvcDiv
  <2>2. g \in FermiFunctions /\ g \in Ends \union Second
    BY <2>1 DEF FermiFunctions, Ends, Second
  <2>3. f \in Third
    BY <1>6 DEF Third
  <2> QED BY <2>2, <2>3, ThirdWait
<1> QED BY <1>1, <1>2, <1>3, <1>4, <1>5, <1>6 DEF FermiFunctions, Asked

(***************************************************************************)
(* and of what each of them asks those for.                                *)
(***************************************************************************)
LEMMA FermiGets ==
  ASSUME NEW f \in Asked, NEW g \in Nvc0Get(f) \union Nve0Get(f)
  PROVE  g \in FermiFunctions /\ Lower(f, g)
<1>1. CASE f \in {"core", "rop", "shader"}
  <2>1. Nvc0Get(f) \union Nve0Get(f) \subseteq {"pll 137000", "div 137160", "nothing"}
    BY <1>1 DEF Nvc0Get, Nve0Get, NvcClk
  <2>2. g \in FermiFunctions /\ g \in Ends \union Third \union Fourth
    BY <2>1 DEF FermiFunctions, Ends, Third, Fourth
  <2>3. f \in Asked
    BY <1>1 DEF Asked
  <2> QED BY <2>2, <2>3, AskedWait
<1>2. CASE f = "memory"
  <2>1. Nvc0Get(f) \union Nve0Get(f) \subseteq {"pll 132000", "div 137300", "pll 132020", "nothing"}
    BY <1>2 DEF Nvc0Get, Nve0Get
  <2>2. g \in FermiFunctions /\ g \in Ends \union Third \union Fourth \union Fifth
    BY <2>1 DEF FermiFunctions, Ends, Third, Fourth, Fifth
  <2>3. f \in Asked
    BY <1>2 DEF Asked
  <2> QED BY <2>2, <2>3, AskedWait
<1> QED BY <1>1, <1>2 DEF FermiFunctions, Asked

(***************************************************************************)
(* So it is on every chip.                                                 *)
(***************************************************************************)
LEMMA CalleesDescend ==
  ASSUME NEW chip \in ClockChips, NEW f \in Functions(chip) \ Ends, NEW g \in Callees(chip, f)
  PROVE  g \in Functions(chip) /\ Lower(f, g)
<1>1. CASE chip = "NV40"
  BY <1>1, CurieDescends DEF Functions, Callees, Teslas
<1>2. CASE chip \in Teslas
  BY <1>2, TeslaDescends DEF Functions, Callees, Teslas
<1>3. CASE chip = "GT215"
  BY <1>3, Gt215Descends DEF Functions, Callees, Teslas
<1>4. CASE chip = "GF100"
  BY <1>4, FermiDescends, FermiGets DEF Functions, Callees, Teslas
<1>5. CASE chip \in Keplers
  BY <1>5, FermiDescends, FermiGets DEF Functions, Callees, Teslas, Keplers
<1> QED BY <1>1, <1>2, <1>3, <1>4, <1>5, ClockAssumption

\* The functions that have not returned belong to the chip, each lower than those
\* that wait for it.
ClocksInv ==
  /\ clockChip \in ClockChips
  /\ calls \in Seq(Functions(clockChip))
  /\ \A i, j \in 1..Len(calls) : i < j => Lower(calls[i], calls[j])

(***************************************************************************)
(* On every chip, whatever the registers hold and however they change      *)
(* between two reads, no function is asked for the clock it is finding     *)
(* out, as no function stands lower than itself.                           *)
(***************************************************************************)
THEOREM ClocksEnd == ClocksSpec => []NoClockFeedsItself
<1>1. ClocksInit => ClocksInv
  BY DEF ClocksInit, ClocksInv
<1>2. ClocksInv /\ [ClocksNext]_clockVars => ClocksInv'
  <2> SUFFICES ASSUME ClocksInv, [ClocksNext]_clockVars PROVE ClocksInv'
    OBVIOUS
  <2>0. clockChip \in ClockChips /\ calls \in Seq(Functions(clockChip)) /\ Len(calls) \in Nat
    BY DEF ClocksInv
  <2>1. CASE AskClock
    <3>1. PICK clock \in Asked : calls' = <<clock>> /\ clockChip' = clockChip
      BY <2>1 DEF AskClock
    <3>2. clock \in Functions(clockChip)
      BY DEF Functions, CurieFunctions, TeslaFunctions, Gt215Functions, FermiFunctions
    <3> QED BY <2>0, <3>1, <3>2 DEF ClocksInv
  <2>2. CASE CallNext
    <3>1. PICK f \in Callees(clockChip, Current) : calls' = Append(calls, f) /\ clockChip' = clockChip
      BY <2>2 DEF CallNext
    <3> DEFINE n == Len(calls)
    <3>2. n \in 1..n /\ Current = calls[n] /\ Current \in Functions(clockChip) \ Ends
      BY <2>0, <2>2 DEF CallNext, Current
    <3>3. f \in Functions(clockChip) /\ Lower(Current, f)
      BY <2>0, <3>2, CalleesDescend
    <3>4. /\ calls' \in Seq(Functions(clockChip)) /\ Len(calls') = n + 1
          /\ \A i \in 1..n : calls'[i] = calls[i]
          /\ calls'[n + 1] = f
      BY <2>0, <3>1, <3>3
    <3>5. \A i \in 1..n : i < n => Lower(calls[i], calls[n])
      BY <3>2 DEF ClocksInv
    <3>6. \A i \in 1..n : Lower(calls[i], f)
      BY <2>0, <3>2, <3>3, <3>5, LowerTrans
    <3>7. ASSUME NEW i \in 1..Len(calls'), NEW j \in 1..Len(calls'), i < j
          PROVE  Lower(calls'[i], calls'[j])
      <4>1. CASE j = n + 1
        BY <2>0, <3>4, <3>6, <3>7, <4>1
      <4>2. CASE j \in 1..n
        BY <2>0, <3>4, <3>7, <4>2 DEF ClocksInv
      <4> QED BY <2>0, <3>4, <3>7, <4>1, <4>2
    <3> QED BY <2>0, <3>1, <3>4, <3>7 DEF ClocksInv
  <2>3. CASE Answered
    BY <2>0, <2>3 DEF Answered, ClocksInv
  <2>4. CASE UNCHANGED clockVars
    BY <2>4 DEF clockVars, ClocksInv
  <2> QED BY <2>1, <2>2, <2>3, <2>4 DEF ClocksNext
<1>3. ClocksInv => NoClockFeedsItself
  <2> SUFFICES ASSUME ClocksInv, NEW i \in 1..Len(calls), NEW j \in 1..Len(calls), calls[i] = calls[j], i < j
               PROVE  FALSE
    BY DEF NoClockFeedsItself, ClocksInv
  <2>1. Lower(calls[i], calls[i])
    BY DEF ClocksInv
  <2> QED BY <2>1 DEF Lower
<1> QED BY <1>1, <1>2, <1>3, PTL DEF ClocksSpec
-----------------------------------------------------------------------------
(* The search for Super I/O chips *)

BoardOK ==
  \A p \in Ports :
    /\ ChipAt(p).maker \in Makers
    /\ ChipAt(p).id \in 0..255 /\ ChipAt(p).rev \in 0..255
    /\ ChipAt(p).maker \in {"Winbond", "Fintek", "NSC"} => ChipAt(p).id \in 1..254 /\ ChipAt(p).rev \in 1..254
    /\ \A d \in Drivers : ChipAt(p).maker # "none" /\ Knows(d, ChipAt(p).id, ChipAt(p).rev) => ChipAt(p).maker = MakerOf[d]

Identity(p) == <<ChipAt(p).id, ChipAt(p).rev>>

\* Which chips are open: while a plug-in is at a pair of ports, those it opened there.
OpenIsKnown ==
  open = IF stage \in {"none", "enter"} THEN AlwaysOpen
         ELSE AlwaysOpen \union {p \in {port} : ChipAt(p).maker \in Opens(driver)}

\* At the second pair of ports, the first had nothing to find.
FirstWasTried == driver # "none" /\ port = 1 => ~Usable(driver, 0) \/ driver \in unsteady

\* What a model says that was kept, or found at the first ports.
ModelIsKnown ==
  /\ port = 0 /\ stage \in {"enter", "identify"} => model = NoModel
  /\ driver = "F718x" /\ model # NoModel /\ (port = 0 \/ stage \in {"enter", "identify"}) => Mistaken

\* A chip that goes on to be asked for its address was identified, or is F718x's mistake.
Identified ==
  /\ ChipAt(port).maker = MakerOf[driver]
  /\ Knows(driver, ChipAt(port).id, ChipAt(port).rev)
  /\ model = Identity(port)
  /\ device = Device(driver, ChipAt(port).id, ChipAt(port).rev)

SelectedIsKnown ==
  stage = "select" => Identified \/ (driver = "F718x" /\ port = 1 /\ Mistaken /\ ~Usable(driver, port))

FoundIsUsable ==
  stage = "found" => \/ driver = "F718x" /\ port = 1 /\ Mistaken
                     \/ Usable(driver, port) /\ model = Identity(port)

RefusedIsNot == stage = "refused" => ~Usable(driver, port) \/ driver \in unsteady

ProbeTypes ==
  /\ BoardOK /\ board.drivers \subseteq Drivers /\ waiting \subseteq Drivers
  /\ port \in Ports /\ stage \in {"none", "enter", "identify", "select", "found", "refused"}
  /\ driver \in Drivers \union {"none"} /\ (driver = "none" <=> stage = "none")
  /\ driver \notin waiting

ProbeInv ==
  /\ ProbeTypes /\ OpenIsKnown /\ FirstWasTried /\ ModelIsKnown
  /\ SelectedIsKnown /\ FoundIsUsable /\ RefusedIsNot
  /\ ClaimsItsOwn /\ NoneIsMissed /\ TakesTheFirst

(***************************************************************************)
(* A chip on one of the boards is as the assumption on boards has it.      *)
(***************************************************************************)
LEMMA BoardsAreOK == board \in Boards => BoardOK /\ board.drivers \subseteq Drivers
<1> SUFFICES ASSUME board \in Boards PROVE BoardOK /\ board.drivers \subseteq Drivers
  OBVIOUS
<1>1. ASSUME NEW p \in Ports
      PROVE  /\ ChipAt(p).maker \in Makers
             /\ ChipAt(p).id \in 0..255 /\ ChipAt(p).rev \in 0..255
             /\ ChipAt(p).maker \in {"Winbond", "Fintek", "NSC"} => ChipAt(p).id \in 1..254 /\ ChipAt(p).rev \in 1..254
             /\ \A d \in Drivers :
                  ChipAt(p).maker # "none" /\ Knows(d, ChipAt(p).id, ChipAt(p).rev) => ChipAt(p).maker = MakerOf[d]
  BY <1>1, BoardAssumption DEF ChipAt
<1> QED BY <1>1, BoardAssumption DEF BoardOK

(***************************************************************************)
(* A plug-in can use a chip of its maker that it knows, whose logical      *)
(* device has an address and that passes its last checks.                  *)
(***************************************************************************)
LEMMA UsableIs ==
  ASSUME NEW d \in Drivers, NEW p \in Ports
  PROVE  Usable(d, p) <=> /\ ChipAt(p).maker = MakerOf[d]
                          /\ Knows(d, ChipAt(p).id, ChipAt(p).rev)
                          /\ d # "PC8739x" => Device(d, ChipAt(p).id, ChipAt(p).rev) \in ChipAt(p).good
                          /\ d \in {"IT87x", "PC8739x"} => ChipAt(p).works
<1>1. CASE d = "W836x"
  BY <1>1 DEF Usable, Device
<1>2. CASE d = "F718x"
  BY <1>2 DEF Usable, Device
<1>3. CASE d = "IT87x"
  BY <1>3 DEF Usable, Device
<1>4. CASE d = "PC8739x"
  BY <1>4 DEF Usable, Device
<1> QED BY <1>1, <1>2, <1>3, <1>4 DEF Drivers

(***************************************************************************)
(* What is said of a chip stays so while the board is the same.            *)
(***************************************************************************)
LEMMA SameBoard ==
  ASSUME board' = board
  PROVE  /\ \A p : ChipAt(p)' = ChipAt(p)
         /\ \A d, p : Usable(d, p)' <=> Usable(d, p)
         /\ Mistaken' <=> Mistaken
         /\ BoardOK' <=> BoardOK
         /\ AlwaysOpen' = AlwaysOpen
         /\ \A p : Identity(p)' = Identity(p)
<1>1. \A p : ChipAt(p)' = ChipAt(p)
  BY DEF ChipAt
<1> QED BY <1>1 DEF Usable, Mistaken, BoardOK, AlwaysOpen, Identity

(***************************************************************************)
(* A plug-in opens the chips of its maker, unless those are always open.   *)
(***************************************************************************)
LEMMA OpensItsOwn ==
  ASSUME NEW d \in Drivers
  PROVE  /\ MakerOf[d] # "none"
         /\ MakerOf[d] \in Opens(d) \/ MakerOf[d] = "NSC"
         /\ "none" \notin Opens(d) /\ "NSC" \notin Closes(d)
         /\ Opens(d) \subseteq Closes(d)
  BY DEF Drivers, Opens, Closes, MakerOf

(***************************************************************************)
(* No identity that IT87x knows is read of an empty socket.                *)
(***************************************************************************)
LEMMA IteIsThere ==
  ASSUME NEW id, NEW rev, Knows("IT87x", id, rev)
  PROVE  (256 * id) + rev \notin {0, \hFFFF}
  BY DEF Knows, IteIds

(***************************************************************************)
(* An open chip answers a plug-in with its identity, another with 0xff.    *)
(***************************************************************************)
LEMMA WhatIsOpenAnswers ==
  ASSUME ProbeTypes, OpenIsKnown, stage = "identify"
  PROVE  /\ port \in open <=> ChipAt(port).maker \in Opens(driver) \union {"NSC"}
         /\ port \notin open => Reads(ChipAt(port).id) = \hFF /\ Reads(ChipAt(port).rev) = \hFF
         /\ port \in open => Reads(ChipAt(port).id) = ChipAt(port).id /\ Reads(ChipAt(port).rev) = ChipAt(port).rev
<1>1. port \in open <=> ChipAt(port).maker \in Opens(driver) \union {"NSC"}
  BY DEF OpenIsKnown, AlwaysOpen, ProbeTypes
<1> QED BY <1>1 DEF Reads

SeenId == Reads(ChipAt(port).id)
SeenRev == Reads(ChipAt(port).rev)
KnownHere == There(SeenId, SeenRev) /\ Knows(driver, SeenId, SeenRev)

(***************************************************************************)
(* What a plug-in takes for a chip it knows is one, of its maker; and it   *)
(* knows whatever it could use.                                            *)
(***************************************************************************)
LEMMA IdentifyIsTrue ==
  ASSUME ProbeTypes, OpenIsKnown, stage = "identify"
  PROVE  /\ KnownHere => /\ SeenId = ChipAt(port).id /\ SeenRev = ChipAt(port).rev
                         /\ ChipAt(port).maker = MakerOf[driver]
                         /\ Knows(driver, ChipAt(port).id, ChipAt(port).rev)
         /\ ChipAt(port).maker = MakerOf[driver] /\ Knows(driver, ChipAt(port).id, ChipAt(port).rev) => KnownHere
<1>0. port \in Ports /\ driver \in Drivers /\ BoardOK
  BY DEF ProbeTypes
<1>1. ASSUME KnownHere
      PROVE  SeenId = ChipAt(port).id /\ SeenRev = ChipAt(port).rev /\ ChipAt(port).maker = MakerOf[driver]
  <2>1. port \in open
    <3> SUFFICES ASSUME port \notin open PROVE FALSE
      OBVIOUS
    <3>1. SeenId = \hFF /\ SeenRev = \hFF
      BY WhatIsOpenAnswers DEF SeenId, SeenRev
    <3>2. (256 * SeenId) + SeenRev = \hFFFF
      BY <3>1
    <3> QED BY <1>1, <3>1, <3>2 DEF KnownHere, There
  <2>2. SeenId = ChipAt(port).id /\ SeenRev = ChipAt(port).rev
    BY <2>1, WhatIsOpenAnswers DEF SeenId, SeenRev
  <2>3. ChipAt(port).maker # "none"
    BY <1>0, <2>1, OpensItsOwn, WhatIsOpenAnswers
  <2> QED BY <1>0, <1>1, <2>2, <2>3 DEF BoardOK, KnownHere
<1>2. ASSUME ChipAt(port).maker = MakerOf[driver], Knows(driver, ChipAt(port).id, ChipAt(port).rev)
      PROVE  KnownHere
  <2>1. port \in open
    BY <1>0, <1>2, OpensItsOwn, WhatIsOpenAnswers
  <2>2. SeenId = ChipAt(port).id /\ SeenRev = ChipAt(port).rev
    BY <2>1, WhatIsOpenAnswers DEF SeenId, SeenRev
  <2>3. CASE driver = "IT87x"
    BY <1>2, <2>2, <2>3, IteIsThere DEF KnownHere, There
  <2>4. CASE driver # "IT87x"
    <3>1. ChipAt(port).maker \in {"Winbond", "Fintek", "NSC"}
      BY <1>0, <1>2, <2>4 DEF Drivers, MakerOf
    <3>2. SeenId \in 1..254 /\ SeenRev \in 1..254
      BY <1>0, <2>2, <3>1 DEF BoardOK
    <3> QED BY <1>2, <2>2, <3>2 DEF KnownHere, There
  <2> QED BY <2>3, <2>4
<1> QED BY <1>1, <1>2 DEF KnownHere

(***************************************************************************)
(* Whichever plug-ins are installed, in whichever order they are asked and *)
(* whatever chips the board has, each finds the first chip it can use and  *)
(* none has another's, F718x excepted where it keeps the model of a chip   *)
(* that it had to give up; and no chip is left open.                       *)
(***************************************************************************)
THEOREM ProbesFindTheirChips == ProbeSpec => []ChipsFindTheirDrivers
<1>1. ProbeInit => ProbeInv
  <2> SUFFICES ASSUME ProbeInit PROVE ProbeInv
    OBVIOUS
  <2>1. ProbeTypes
    BY BoardsAreOK DEF ProbeInit, ProbeTypes, Drivers, Ports
  <2>2. OpenIsKnown /\ FirstWasTried /\ ModelIsKnown /\ SelectedIsKnown /\ FoundIsUsable /\ RefusedIsNot
    BY DEF ProbeInit, OpenIsKnown, FirstWasTried, ModelIsKnown, SelectedIsKnown, FoundIsUsable, RefusedIsNot
  <2>3. ClaimsItsOwn /\ NoneIsMissed /\ TakesTheFirst
    BY DEF ProbeInit, ClaimsItsOwn, NoneIsMissed, TakesTheFirst
  <2> QED BY <2>1, <2>2, <2>3 DEF ProbeInv
<1>2. ProbeInv /\ [ProbeNext]_probeVars => ProbeInv'
  <2> SUFFICES ASSUME ProbeInv, [ProbeNext]_probeVars PROVE ProbeInv'
    OBVIOUS
  <2> USE DEF ProbeInv
  <2>0. board' = board
    BY DEF ProbeNext, Match, Enter, Identify, CheckDevice, Exit, probeVars
  <2>1. CASE \E d \in Drivers : Match(d)
    <3>1. PICK d \in Drivers : Match(d)
      BY <2>1
    <3>2. ProbeTypes'
      BY <3>1, SameBoard DEF ProbeTypes, Match, Drivers, Ports
    <3>3. stage = "none" /\ driver \notin Drivers /\ open = AlwaysOpen
      BY <3>1 DEF Match, ProbeTypes, OpenIsKnown, Drivers
    <3>4. OpenIsKnown' /\ FirstWasTried' /\ ModelIsKnown' /\ SelectedIsKnown' /\ FoundIsUsable' /\ RefusedIsNot'
      BY <2>0, <3>1, <3>3, SameBoard
      DEF Match, OpenIsKnown, FirstWasTried, ModelIsKnown, SelectedIsKnown, FoundIsUsable, RefusedIsNot
    <3>5. ClaimsItsOwn' /\ TakesTheFirst'
      BY <2>0, <3>1, SameBoard DEF Match, ClaimsItsOwn, TakesTheFirst, Identity
    <3>6. NoneIsMissed'
      <4>1. driver = "none" /\ "none" \notin board.drivers
        BY <3>1 DEF Match, ProbeTypes, Drivers
      <4>2. /\ waiting' = waiting \ {d} /\ driver' = d /\ claims' = claims /\ unsteady' = unsteady
        BY <3>1 DEF Match
      <4> QED BY <2>0, <4>1, <4>2, SameBoard DEF NoneIsMissed
    <3> QED BY <3>2, <3>4, <3>5, <3>6
  <2>2. CASE Enter
    <3>1. ProbeTypes'
      BY <2>0, <2>2, SameBoard DEF ProbeTypes, Enter
    <3>2. OpenIsKnown'
      BY <2>0, <2>2, SameBoard DEF Enter, OpenIsKnown
    <3>3. FirstWasTried' /\ ModelIsKnown' /\ SelectedIsKnown' /\ FoundIsUsable' /\ RefusedIsNot'
      BY <2>0, <2>2, SameBoard DEF Enter, FirstWasTried, ModelIsKnown, SelectedIsKnown, FoundIsUsable, RefusedIsNot
    <3>4. ClaimsItsOwn' /\ NoneIsMissed' /\ TakesTheFirst'
      BY <2>0, <2>2, SameBoard DEF Enter, ClaimsItsOwn, NoneIsMissed, TakesTheFirst
    <3> QED BY <3>1, <3>2, <3>3, <3>4
  <2>3. CASE Identify
    <3>1. /\ stage = "identify"
          /\ model' = IF KnownHere THEN <<SeenId, SeenRev>> ELSE Kept
          /\ device' = Device(driver, SeenId, SeenRev)
          /\ stage' = IF KnownHere \/ (There(SeenId, SeenRev) /\ GoesOnAnyway) THEN "select" ELSE "refused"
          /\ UNCHANGED <<open, waiting, driver, port, claims, unsteady>>
      BY <2>3 DEF Identify, KnownHere, SeenId, SeenRev
    <3>2. driver \in Drivers /\ port \in Ports
      BY <3>1 DEF ProbeTypes
    <3>3. /\ KnownHere => /\ SeenId = ChipAt(port).id /\ SeenRev = ChipAt(port).rev
                          /\ ChipAt(port).maker = MakerOf[driver]
                          /\ Knows(driver, ChipAt(port).id, ChipAt(port).rev)
          /\ ChipAt(port).maker = MakerOf[driver] /\ Knows(driver, ChipAt(port).id, ChipAt(port).rev) => KnownHere
      BY <3>1, IdentifyIsTrue
    <3>4. ~KnownHere => ~Usable(driver, port)
      BY <3>2, <3>3, UsableIs
    <3>5. KnownHere /\ driver = "F718x" /\ port = 0 => Mistaken
      BY <3>3 DEF Mistaken, MakerOf
    <3>6. GoesOnAnyway => driver = "F718x" /\ port = 1 /\ Mistaken
      BY <3>1, <3>2 DEF GoesOnAnyway, ModelIsKnown, Ports
    <3>7. ProbeTypes'
      BY <2>0, <3>1, SameBoard DEF ProbeTypes
    <3>8. OpenIsKnown' /\ FirstWasTried'
      BY <2>0, <3>1, SameBoard DEF OpenIsKnown, FirstWasTried
    <3>9. ModelIsKnown'
      <4>1. ~KnownHere /\ port = 0 => model' = NoModel
        BY <3>1 DEF Kept, ModelIsKnown
      <4> QED BY <2>0, <3>1, <3>5, <4>1, SameBoard DEF ModelIsKnown
    <3>10. SelectedIsKnown'
      <4> SUFFICES ASSUME stage' = "select"
                   PROVE  Identified' \/ (driver = "F718x" /\ port = 1 /\ Mistaken /\ ~Usable(driver, port))
        BY <2>0, <3>1, SameBoard DEF SelectedIsKnown
      <4>1. CASE KnownHere
        <5>1. model' = Identity(port) /\ device' = Device(driver, ChipAt(port).id, ChipAt(port).rev)
          BY <3>1, <3>3, <4>1 DEF Identity
        <5> QED BY <2>0, <3>1, <3>3, <4>1, <5>1, SameBoard DEF Identified
      <4>2. CASE ~KnownHere
        BY <3>1, <3>4, <3>6, <4>2
      <4> QED BY <4>1, <4>2
    <3>11. FoundIsUsable' /\ RefusedIsNot'
      BY <2>0, <3>1, <3>4, SameBoard DEF FoundIsUsable, RefusedIsNot
    <3>12. ClaimsItsOwn' /\ NoneIsMissed' /\ TakesTheFirst'
      BY <2>0, <3>1, SameBoard DEF ClaimsItsOwn, NoneIsMissed, TakesTheFirst
    <3> QED BY <3>7, <3>8, <3>9, <3>10, <3>11, <3>12
  <2>4. CASE \E same \in BOOLEAN : CheckDevice(same)
    <3>1. PICK same \in BOOLEAN : CheckDevice(same)
      BY <2>4
    <3> DEFINE checked == driver \in {"IT87x", "PC8739x"} => ChipAt(port).works
    <3>2. /\ stage = "select"
          /\ stage' = IF ((device \in ChipAt(port).good /\ same) \/ driver = "PC8739x") /\ checked THEN "found" ELSE "refused"
          /\ unsteady' = unsteady \union (IF same THEN {} ELSE {driver})
          /\ UNCHANGED <<open, waiting, driver, port, model, device, claims>>
      BY <3>1 DEF CheckDevice, Addressed
    <3>3. driver \in Drivers /\ port \in Ports
      BY <3>2 DEF ProbeTypes
    <3>4. ProbeTypes'
      BY <2>0, <3>2, SameBoard DEF ProbeTypes
    <3>5. OpenIsKnown' /\ FirstWasTried' /\ ModelIsKnown' /\ SelectedIsKnown'
      BY <2>0, <3>2, SameBoard DEF OpenIsKnown, FirstWasTried, ModelIsKnown, SelectedIsKnown
    <3>6. /\ stage' = "found" => (driver = "F718x" /\ port = 1 /\ Mistaken) \/ (Usable(driver, port) /\ model = Identity(port))
          /\ stage' = "refused" => ~Usable(driver, port) \/ ~same
      <4>1. CASE Identified
        BY <3>2, <3>3, <4>1, UsableIs DEF Identified
      <4>2. CASE ~Identified
        BY <3>2, <4>2 DEF SelectedIsKnown
      <4> QED BY <4>1, <4>2
    <3>7. FoundIsUsable' /\ RefusedIsNot'
      BY <2>0, <3>2, <3>6, SameBoard DEF FoundIsUsable, RefusedIsNot
    <3>8. ClaimsItsOwn' /\ NoneIsMissed' /\ TakesTheFirst'
      BY <2>0, <3>2, SameBoard DEF ClaimsItsOwn, NoneIsMissed, TakesTheFirst
    <3> QED BY <3>4, <3>5, <3>7, <3>8
  <2>5. CASE Exit
    <3>1. driver \in Drivers /\ port \in Ports /\ BoardOK /\ stage \in {"found", "refused"}
      BY <2>5 DEF Exit, ProbeTypes
    <3>2. open' = AlwaysOpen
      <4>1. open = AlwaysOpen \union {p \in {port} : ChipAt(p).maker \in Opens(driver)}
        BY <3>1 DEF OpenIsKnown
      <4> QED BY <2>5, <3>1, <4>1, OpensItsOwn DEF Exit, Closed, AlwaysOpen
    <3>3. CASE stage = "refused" /\ port = 0
      <4>1. port' = 1 /\ stage' = "enter" /\ UNCHANGED <<driver, claims, waiting, model, unsteady>>
        BY <2>5, <3>3 DEF Exit
      <4>2. ProbeTypes'
        BY <2>0, <3>1, <4>1, SameBoard DEF ProbeTypes, Ports, Drivers
      <4>3. OpenIsKnown'
        BY <2>0, <3>2, <4>1, SameBoard DEF OpenIsKnown
      <4>4. FirstWasTried'
        BY <2>0, <3>3, <4>1, SameBoard DEF FirstWasTried, RefusedIsNot
      <4>5. ModelIsKnown'
        BY <2>0, <3>3, <4>1, SameBoard DEF ModelIsKnown
      <4>6. SelectedIsKnown' /\ FoundIsUsable' /\ RefusedIsNot'
        BY <4>1 DEF SelectedIsKnown, FoundIsUsable, RefusedIsNot
      <4>7. ClaimsItsOwn' /\ NoneIsMissed' /\ TakesTheFirst'
        BY <2>0, <4>1, SameBoard DEF ClaimsItsOwn, NoneIsMissed, TakesTheFirst
      <4> QED BY <4>2, <4>3, <4>4, <4>5, <4>6, <4>7
    <3>4. CASE ~(stage = "refused" /\ port = 0)
      <4>1. /\ driver' = "none" /\ stage' = "none" /\ UNCHANGED <<port, waiting, model, unsteady>>
            /\ claims' = IF stage = "refused" THEN claims
                         ELSE [d \in DOMAIN claims \union {driver} |->
                                 IF d = driver THEN [port |-> port, model |-> model, device |-> device] ELSE claims[d]]
        BY <2>5, <3>4 DEF Exit
      <4>2. ProbeTypes'
        BY <2>0, <3>1, <4>1, SameBoard DEF ProbeTypes, Drivers
      <4>3. OpenIsKnown'
        BY <2>0, <3>2, <4>1, SameBoard DEF OpenIsKnown
      <4>4. FirstWasTried' /\ ModelIsKnown' /\ SelectedIsKnown' /\ FoundIsUsable' /\ RefusedIsNot'
        BY <4>1 DEF FirstWasTried, ModelIsKnown, SelectedIsKnown, FoundIsUsable, RefusedIsNot
      <4>5. CASE stage = "refused"
        <5>1. claims' = claims /\ port = 1
          BY <3>1, <3>4, <4>1, <4>5 DEF Ports
        <5>2. driver \notin unsteady => \A p \in Ports : ~Usable(driver, p)
          BY <3>1, <4>5, <5>1 DEF FirstWasTried, RefusedIsNot, Ports, Drivers
        <5>3. ClaimsItsOwn' /\ TakesTheFirst'
          BY <2>0, <4>1, <5>1, SameBoard DEF ClaimsItsOwn, TakesTheFirst
        <5>4. NoneIsMissed'
          BY <2>0, <4>1, <5>1, <5>2, SameBoard DEF NoneIsMissed
        <5> QED BY <4>2, <4>3, <4>4, <5>3, <5>4
      <4>6. CASE stage = "found"
        <5>1. /\ DOMAIN claims' = DOMAIN claims \union {driver}
              /\ claims'[driver].port = port /\ claims'[driver].model = model
              /\ \A d \in DOMAIN claims : d # driver => claims'[d] = claims[d]
          BY <4>1, <4>6
        <5>2. (driver = "F718x" /\ port = 1 /\ Mistaken) \/ (Usable(driver, port) /\ model = Identity(port))
          BY <4>6 DEF FoundIsUsable
        <5>3. ClaimsItsOwn'
          BY <2>0, <5>1, <5>2, SameBoard DEF ClaimsItsOwn, Identity
        <5>4. NoneIsMissed'
          BY <2>0, <4>1, <5>1, SameBoard DEF NoneIsMissed
        <5>5. TakesTheFirst'
          <6>1. driver \notin unsteady /\ port = 1 => ~Usable(driver, 0)
            BY <3>1 DEF FirstWasTried, Drivers
          <6> QED BY <2>0, <4>1, <5>1, <6>1, SameBoard DEF TakesTheFirst
        <5> QED BY <4>2, <4>3, <4>4, <5>3, <5>4, <5>5
      <4> QED BY <3>1, <4>5, <4>6
    <3> QED BY <3>3, <3>4
  <2>6. CASE UNCHANGED probeVars
    BY <2>0, <2>6, SameBoard, ZenonT(40)
    DEF probeVars, ProbeTypes, OpenIsKnown, FirstWasTried, ModelIsKnown, SelectedIsKnown, FoundIsUsable,
        RefusedIsNot, ClaimsItsOwn, NoneIsMissed, TakesTheFirst, Identified
  <2> QED BY <2>1, <2>2, <2>3, <2>4, <2>5, <2>6 DEF ProbeNext
<1>3. ProbeInv => ChipsFindTheirDrivers
  BY DEF ProbeInv, ChipsFindTheirDrivers, OpenIsKnown, ChipsAreLeftClosed
<1> QED BY <1>1, <1>2, <1>3, PTL DEF ProbeSpec
-----------------------------------------------------------------------------
(* The start of the Super I/O drivers *)

ITE == "IT87x"

StartShape ==
  /\ DOMAIN lists = DOMAIN mainboard.chips /\ DOMAIN starting = DOMAIN lists /\ DOMAIN lists \subseteq SuperIODrivers
  /\ ITE \in DOMAIN lists => starting[ITE] \in -2..5

\* Only IT87x has controls, and those of a fan have the number of its input.
ControlsAreNumbered ==
  \A d \in DOMAIN lists : \A k \in DOMAIN lists[d] : lists[d][k].group = "control" =>
    d = ITE /\ (k[1] \in {"FMCL", "FMCR"} \/ k[2] = lists[d][k].input)

OthersHaveFans == \E o \in DOMAIN lists \ {ITE} : \E k \in DOMAIN lists[o] : k[1] = "Ac"

FanInput(n) == lists[ITE][<<"Ac", n>>].input

\* While IT87x alone has fans, FNum counts them, in the order of their inputs.
FansAreCounted ==
  (ITE \in DOMAIN lists /\ ~OthersHaveFans) =>
    /\ fnum \in Nat
    /\ starting[ITE] < 0 => fnum = 0
    /\ starting[ITE] >= 0 => fnum <= starting[ITE]
    /\ \A k \in DOMAIN lists[ITE] : k[1] = "Ac" => \E n \in 0..(fnum - 1) : k = <<"Ac", n>>
    /\ \A n \in 0..(fnum - 1) : <<"Ac", n>> \in DOMAIN lists[ITE] /\ FanInput(n) \in n..(starting[ITE] - 1)
    /\ \A m, n \in 0..(fnum - 1) : m < n => FanInput(m) < FanInput(n)

StartInv == StartShape /\ ControlsAreNumbered /\ FansAreCounted

(***************************************************************************)
(* A driver that adds sensors keeps those it has, gets one for each new    *)
(* key, and disturbs no other driver's.                                    *)
(***************************************************************************)
LEMMA AddedIs ==
  ASSUME NEW d \in DOMAIN lists, NEW added, DOMAIN added \subseteq 0..10, AddSensors(d, added)
  PROVE  /\ DOMAIN lists' = DOMAIN lists
         /\ \A o \in DOMAIN lists \ {d} : lists'[o] = lists[o]
         /\ DOMAIN lists'[d] = DOMAIN lists[d] \union {added[i].key : i \in DOMAIN added}
         /\ \A k \in DOMAIN lists[d] : lists'[d][k] = lists[d][k]
         /\ \A k \in DOMAIN lists'[d] \ DOMAIN lists[d] :
              \E i \in DOMAIN added : added[i].key = k /\ lists'[d][k] = added[i]
<1> DEFINE new == {added[i].key : i \in DOMAIN added} \ DOMAIN lists[d]
           IsFirst(k, i) == added[i].key = k /\ \A j \in DOMAIN added : added[j].key = k => i <= j
           First(k) == CHOOSE i \in DOMAIN added : IsFirst(k, i)
           Extended == [k \in DOMAIN lists[d] \union new |-> IF k \in new THEN added[First(k)] ELSE lists[d][k]]
<1>1. lists' = [lists EXCEPT ![d] = Extended]
  BY DEF AddSensors
<1>2. DOMAIN lists' = DOMAIN lists /\ lists'[d] = Extended /\ \A o \in DOMAIN lists \ {d} : lists'[o] = lists[o]
  <2> HIDE DEF Extended
  <2> QED BY <1>1
<1>3. ASSUME NEW k \in new PROVE First(k) \in DOMAIN added /\ added[First(k)].key = k
  <2> DEFINE T == {i \in DOMAIN added : added[i].key = k}
  <2>1. T \subseteq 0..10 /\ T # {} /\ 10 \in Nat
    OBVIOUS
  <2>2. \E i \in T : \A j \in T : i <= j
    <3> HIDE DEF T
    <3> QED BY <2>1, LeastOf
  <2>3. \E i \in DOMAIN added : IsFirst(k, i)
    BY <2>2
  <2> QED BY <2>3
<1> HIDE DEF First
<1> QED BY <1>2, <1>3

(***************************************************************************)
(* No sensor of a temperature is a fan or a control,                       *)
(***************************************************************************)
LEMMA TemperaturesAre ==
  ASSUME NEW d \in SuperIODrivers
  PROVE  /\ DOMAIN Temperatures(d) \subseteq 0..10
         /\ \A i \in DOMAIN Temperatures(d) :
              LET w == Temperatures(d)[i]
              IN  w.group = "temperature" /\ w.key[1] # "Ac"
<1> DEFINE temp == Configuration(ITE).temp
           wired == {i \in Wiring(ITE).cold \intersect 0..2 : NameAt(temp, i) \in DOMAIN IteNames}
<1>1. CASE d = "IT87x"
  <2>1. \A name \in DOMAIN IteNames : IteNames[name] # "Ac"
    BY DEF IteNames
  <2>2. \A i \in 0..2 : NameAt(temp, i) \in DOMAIN IteNames => temp[i] \in DOMAIN IteNames
    BY DEF NameAt, IteNames, Absent
  <2>3. Temperatures(d) = IteTemperatures
    BY <1>1 DEF Temperatures
  <2>4. CASE ~Configured(ITE)
    BY <2>3, <2>4 DEF IteTemperatures, Warm, Wire, ITE
  <2>5. CASE Configured(ITE)
    <3>1. IteTemperatures = [i \in wired |-> Warm(IteNames[temp[i]], i)]
      BY <2>5 DEF IteTemperatures, ITE
    <3>2. \A i \in wired : i \in 0..2 /\ IteNames[temp[i]] # "Ac"
      BY <2>1, <2>2
    <3> HIDE DEF temp, wired
    <3> QED BY <2>3, <3>1, <3>2 DEF Warm, Wire
  <2> QED BY <2>4, <2>5
<1>2. CASE d = "W836x"
  BY <1>2 DEF Temperatures, WinbondTemperatures, Warm, Wire
<1>3. CASE d \in {"F718x", "PC8739x"}
  BY <1>3 DEF Temperatures, Warm, Wire
<1> QED BY <1>1, <1>2, <1>3 DEF SuperIODrivers

(***************************************************************************)
(* and none of a voltage.                                                  *)
(***************************************************************************)
LEMMA VoltagesAre ==
  ASSUME NEW d \in SuperIODrivers
  PROVE  /\ DOMAIN Voltages(d) \subseteq 0..10
         /\ \A i \in DOMAIN Voltages(d) :
              LET w == Voltages(d)[i]
              IN  w.group = "voltage" /\ w.key[1] # "Ac"
<1> DEFINE volt == Configuration(d).volt
<1>1. CASE d \in {"IT87x", "W836x"}
  <2>1. \A i \in Inputs : NameAt(volt, i) \in Rails(d) => i \in 0..10 /\ volt[i] # "Ac"
    BY DEF NameAt, Rails, Inputs, Absent
  <2> QED BY <1>1, <2>1 DEF Voltages, Wire
<1>2. CASE d \in {"F718x", "PC8739x"}
  BY <1>2 DEF Voltages, Wire
<1> QED BY <1>1, <1>2 DEF SuperIODrivers

(***************************************************************************)
(* A step of a fan adds the fan's key, if there is a fan, and controls,    *)
(* each with the number of its input or one for all fans.                  *)
(***************************************************************************)
LEMMA FanAdds ==
  ASSUME NEW d \in SuperIODrivers, NEW i
  PROVE  /\ DOMAIN FanSensors(d, i) \subseteq 0..10
         /\ IsFan(d, i) => 0 \in DOMAIN FanSensors(d, i)
         /\ \A c \in DOMAIN FanSensors(d, i) :
              LET w == FanSensors(d, i)[c]
              IN  IF c = 0 THEN w = Tachometer(i) /\ IsFan(d, i)
                  ELSE /\ d = ITE /\ w.group = "control" /\ w.key[1] # "Ac"
                       /\ w.key[1] \in {"FMCL", "FMCR"} \/ w.key[2] = w.input
<1> DEFINE w(c) == FanSensors(d, i)[c]
<1>1. ASSUME NEW c \in 1..9
      PROVE  /\ Control(c, i).group = "control" /\ Control(c, i).key[1] # "Ac"
             /\ Control(c, i).key[1] \in {"FMCL", "FMCR"} \/ Control(c, i).key[2] = Control(c, i).input
  <2>1. ControlKinds[c] # "Ac" /\ (c > 7 => ControlKinds[c] \in {"FMCL", "FMCR"})
    <3>1. c \in {1, 2, 3, 4, 5, 6, 7, 8, 9}
      OBVIOUS
    <3> QED BY <3>1 DEF ControlKinds
  <2> QED BY <2>1 DEF Control, Wire, ControlNumber
<1>2. Controls(d, i) \subseteq 1..9 /\ (Controls(d, i) # {} => d = ITE)
  BY DEF Controls, ITE
<1>3. /\ DOMAIN FanSensors(d, i) = Controls(d, i) \union (IF IsFan(d, i) THEN {0} ELSE {})
      /\ \A c \in DOMAIN FanSensors(d, i) : FanSensors(d, i)[c] = IF c = 0 THEN Tachometer(i) ELSE Control(c, i)
  BY DEF FanSensors
<1> QED BY <1>1, <1>2, <1>3

(***************************************************************************)
(* Controls stay numbered when only IT87x adds any, numbered.              *)
(***************************************************************************)
LEMMA StaysNumbered ==
  ASSUME ControlsAreNumbered,
         NEW d \in DOMAIN lists, NEW added, DOMAIN added \subseteq 0..10, AddSensors(d, added),
         \A c \in DOMAIN added : added[c].group = "control" =>
           d = ITE /\ (added[c].key[1] \in {"FMCL", "FMCR"} \/ added[c].key[2] = added[c].input)
  PROVE  ControlsAreNumbered'
<1> SUFFICES ASSUME NEW o \in DOMAIN lists', NEW k \in DOMAIN lists'[o], lists'[o][k].group = "control"
             PROVE  o = ITE /\ (k[1] \in {"FMCL", "FMCR"} \/ k[2] = lists'[o][k].input)
  BY DEF ControlsAreNumbered
<1>0. o \in DOMAIN lists
  BY AddedIs
<1>1. CASE o # d
  BY <1>0, <1>1, AddedIs DEF ControlsAreNumbered
<1>2. CASE o = d /\ k \in DOMAIN lists[d]
  BY <1>0, <1>2, AddedIs DEF ControlsAreNumbered
<1>3. CASE o = d /\ k \notin DOMAIN lists[d]
  <2>1. PICK c \in DOMAIN added : added[c].key = k /\ lists'[d][k] = added[c]
    BY <1>3, AddedIs
  <2> QED BY <1>3, <2>1
<1> QED BY <1>1, <1>2, <1>3

(***************************************************************************)
(* What another driver adds leaves IT87x's fans in order, or gives fans to *)
(* that driver.                                                            *)
(***************************************************************************)
LEMMA OthersAdd ==
  ASSUME FansAreCounted, DOMAIN starting = DOMAIN lists, NEW d \in DOMAIN lists \ {ITE}, NEW added, DOMAIN added \subseteq 0..10, AddSensors(d, added),
         starting' = [starting EXCEPT ![d] = starting'[d]],
         fnum' = fnum \/ \E c \in DOMAIN added : added[c].key[1] = "Ac"
  PROVE  FansAreCounted'
<1> SUFFICES ASSUME ITE \in DOMAIN lists', ~OthersHaveFans'
             PROVE  FansAreCounted'
  BY DEF FansAreCounted
<1>1. DOMAIN lists' = DOMAIN lists /\ DOMAIN lists[d] \subseteq DOMAIN lists'[d] /\ lists'[ITE] = lists[ITE]
  BY AddedIs
<1>2. \A o \in DOMAIN lists : DOMAIN lists[o] \subseteq DOMAIN lists'[o]
  BY <1>1, AddedIs
<1>3. ~OthersHaveFans
  BY <1>1, <1>2 DEF OthersHaveFans
<1>4. ~\E c \in DOMAIN added : added[c].key[1] = "Ac"
  BY <1>1, AddedIs DEF OthersHaveFans
<1>5. fnum' = fnum /\ starting'[ITE] = starting[ITE]
  BY <1>1, <1>4
<1> QED BY <1>1, <1>3, <1>5 DEF FansAreCounted, FanInput

(***************************************************************************)
(* Each fan of IT87x is the next one, and its input the highest so far.    *)
(***************************************************************************)
LEMMA NextFan ==
  ASSUME StartInv, ITE \in DOMAIN lists, ITE \in SuperIODrivers, StartFan(ITE), ~OthersHaveFans
  PROVE  /\ fnum' \in Nat /\ fnum' <= starting[ITE] + 1
         /\ \A k \in DOMAIN lists'[ITE] : k[1] = "Ac" => \E n \in 0..(fnum' - 1) : k = <<"Ac", n>>
         /\ \A n \in 0..(fnum' - 1) : <<"Ac", n>> \in DOMAIN lists'[ITE] /\ FanInput(n)' \in n..starting[ITE]
         /\ \A m, n \in 0..(fnum' - 1) : m < n => FanInput(m)' < FanInput(n)'
<1> DEFINE i == starting[ITE]
           list == lists[ITE]
           next == lists'[ITE]
<1>1. /\ i \in 0..4 /\ AddSensors(ITE, FanSensors(ITE, i))
      /\ fnum' = IF IsFan(ITE, i) /\ Tachometer(i).key \notin DOMAIN list THEN (fnum + 1) % 256 ELSE fnum
  BY DEF StartFan, FanLimit, ITE
<1>2. /\ fnum \in Nat /\ fnum <= i
      /\ \A k \in DOMAIN list : k[1] = "Ac" => \E n \in 0..(fnum - 1) : k = <<"Ac", n>>
      /\ \A n \in 0..(fnum - 1) : <<"Ac", n>> \in DOMAIN list /\ list[<<"Ac", n>>].input \in n..(i - 1)
      /\ \A m, n \in 0..(fnum - 1) : m < n => list[<<"Ac", m>>].input < list[<<"Ac", n>>].input
  BY <1>1 DEF StartInv, FansAreCounted, FanInput
<1>3. Tachometer(i).key = <<"Ac", fnum>> /\ Tachometer(i).input = i
  BY DEF Tachometer, Wire
<1>4. /\ \A k \in DOMAIN list : k \in DOMAIN next /\ next[k] = list[k]
      /\ \A k \in DOMAIN next \ DOMAIN list :
           \E c \in DOMAIN FanSensors(ITE, i) : FanSensors(ITE, i)[c].key = k /\ next[k] = FanSensors(ITE, i)[c]
      /\ \A c \in DOMAIN FanSensors(ITE, i) : FanSensors(ITE, i)[c].key \in DOMAIN next
  BY <1>1, AddedIs, FanAdds
<1>5. <<"Ac", fnum>> \notin DOMAIN list
  <2> SUFFICES ASSUME <<"Ac", fnum>> \in DOMAIN list PROVE FALSE
    OBVIOUS
  <2>1. PICK n \in 0..(fnum - 1) : <<"Ac", fnum>> = <<"Ac", n>>
    BY <1>2
  <2> QED BY <1>2, <2>1
<1>6. \A k \in DOMAIN next \ DOMAIN list : k[1] = "Ac" => IsFan(ITE, i) /\ next[k] = Tachometer(i) /\ k = <<"Ac", fnum>>
  <2> SUFFICES ASSUME NEW k \in DOMAIN next \ DOMAIN list, k[1] = "Ac"
               PROVE  IsFan(ITE, i) /\ next[k] = Tachometer(i) /\ k = <<"Ac", fnum>>
    OBVIOUS
  <2>1. PICK c \in DOMAIN FanSensors(ITE, i) : FanSensors(ITE, i)[c].key = k /\ next[k] = FanSensors(ITE, i)[c]
    BY <1>4
  <2>2. c = 0
    BY <2>1, FanAdds
  <2>3. FanSensors(ITE, i)[c] = Tachometer(i) /\ IsFan(ITE, i)
    BY <2>2, FanAdds
  <2> QED BY <1>3, <2>1, <2>3
<1>7. CASE IsFan(ITE, i)
  <2>1. fnum' = fnum + 1
    BY <1>1, <1>2, <1>3, <1>5, <1>7
  <2>2. <<"Ac", fnum>> \in DOMAIN next
    BY <1>3, <1>4, <1>7, FanAdds
  <2>3. next[<<"Ac", fnum>>].input = i
    BY <1>3, <1>5, <1>6, <2>2
  <2>4. \A n \in 0..(fnum - 1) : <<"Ac", n>> \in DOMAIN next /\ next[<<"Ac", n>>].input = list[<<"Ac", n>>].input
    BY <1>2, <1>4
  <2>5. \A n \in 0..fnum : <<"Ac", n>> \in DOMAIN next /\ next[<<"Ac", n>>].input \in n..i
    <3>1. ASSUME NEW n \in 0..(fnum - 1)
          PROVE  <<"Ac", n>> \in DOMAIN next /\ next[<<"Ac", n>>].input \in n..i
      <4>1. list[<<"Ac", n>>].input \in n..(i - 1)
        BY <1>2
      <4> QED BY <1>1, <2>4, <4>1
    <3>2. i \in fnum..i
      BY <1>1, <1>2
    <3> SUFFICES ASSUME NEW n \in 0..fnum PROVE <<"Ac", n>> \in DOMAIN next /\ next[<<"Ac", n>>].input \in n..i
      OBVIOUS
    <3>3. CASE n = fnum
      BY <2>2, <2>3, <3>2, <3>3
    <3>4. CASE n # fnum
      <4>1. n \in 0..(fnum - 1)
        BY <1>2, <3>4
      <4> HIDE DEF next, i
      <4> QED BY <3>1, <4>1
    <3> QED BY <3>3, <3>4
  <2>6. \A m, n \in 0..fnum : m < n => next[<<"Ac", m>>].input < next[<<"Ac", n>>].input
    <3> SUFFICES ASSUME NEW m \in 0..fnum, NEW n \in 0..fnum, m < n
                 PROVE  next[<<"Ac", m>>].input < next[<<"Ac", n>>].input
      OBVIOUS
    <3>1. CASE n = fnum
      <4>1. m \in 0..(fnum - 1)
        BY <1>2, <3>1
      <4> QED BY <1>1, <1>2, <2>3, <2>4, <3>1, <4>1
    <3>2. CASE n # fnum
      <4>1. m \in 0..(fnum - 1) /\ n \in 0..(fnum - 1)
        BY <1>2, <3>2
      <4> QED BY <1>2, <2>4, <4>1
    <3> QED BY <3>1, <3>2
  <2>7. \A k \in DOMAIN next : k[1] = "Ac" => \E n \in 0..fnum : k = <<"Ac", n>>
    BY <1>2, <1>6
  <2>8. fnum' - 1 = fnum /\ fnum' \in Nat /\ fnum' <= i + 1
    <3>1. i \in 0..4
      BY <1>1
    <3> QED BY <1>2, <2>1, <3>1
  <2>9. \A n : FanInput(n)' = next[<<"Ac", n>>].input
    BY DEF FanInput
  <2> QED BY <2>5, <2>6, <2>7, <2>8, <2>9
<1>8. CASE ~IsFan(ITE, i)
  <2>1. fnum' = fnum
    BY <1>1, <1>8
  <2>2. \A k \in DOMAIN next : k[1] = "Ac" => k \in DOMAIN list
    BY <1>6, <1>8
  <2>3. \A n \in 0..(fnum - 1) : <<"Ac", n>> \in DOMAIN next /\ next[<<"Ac", n>>].input = list[<<"Ac", n>>].input
    BY <1>2, <1>4
  <2> QED BY <1>1, <1>2, <2>1, <2>2, <2>3 DEF FanInput
<1> QED BY <1>7, <1>8

(***************************************************************************)
(* The n-th fan, in the order of the inputs, is on the n-th input if no    *)
(* input before a fan lacks one: the first of which it is not true would   *)
(* be further on, and the input it left out is no other fan's.             *)
(***************************************************************************)
LEMMA FansAreWhereTheyCount ==
  ASSUME ITE \in DOMAIN lists, FansAreCounted, ~OthersHaveFans, NEW i \in Int, starting[ITE] \in Int,
         <<"Ac", i>> \in DOMAIN lists[ITE],
         \A a \in DOMAIN lists[ITE] : a[1] = "Ac" =>
           \A n \in 0..lists[ITE][a].input : \E b \in DOMAIN lists[ITE] : b[1] = "Ac" /\ lists[ITE][b].input = n
  PROVE  FanInput(i) = i
<1> DEFINE T == {n \in 0..(fnum - 1) : FanInput(n) # n}
<1>1. /\ fnum \in Nat
      /\ \A k \in DOMAIN lists[ITE] : k[1] = "Ac" => \E n \in 0..(fnum - 1) : k = <<"Ac", n>>
      /\ \A n \in 0..(fnum - 1) : <<"Ac", n>> \in DOMAIN lists[ITE] /\ FanInput(n) \in Int /\ n <= FanInput(n)
      /\ \A m, n \in 0..(fnum - 1) : m < n => FanInput(m) < FanInput(n)
  BY DEF FansAreCounted
<1>2. i \in 0..(fnum - 1)
  <2>1. PICK n \in 0..(fnum - 1) : <<"Ac", i>> = <<"Ac", n>>
    BY <1>1
  <2> QED BY <2>1
<1>3. T = {}
  <2> SUFFICES ASSUME T # {} PROVE FALSE
    OBVIOUS
  <2>1. PICK x \in T : \A y \in T : x <= y
    <3>1. T \subseteq 0..fnum
      BY <1>1
    <3> HIDE DEF T
    <3> QED BY <1>1, <3>1, LeastOf
  <2>2. x \in 0..(fnum - 1) /\ FanInput(x) \in Int /\ x < FanInput(x) /\ <<"Ac", x>> \in DOMAIN lists[ITE]
    BY <1>1
  <2>3. PICK b \in DOMAIN lists[ITE] : b[1] = "Ac" /\ lists[ITE][b].input = x
    <3>1. x \in 0..lists[ITE][<<"Ac", x>>].input
      BY <1>1, <2>2 DEF FanInput
    <3>2. <<"Ac", x>>[1] = "Ac"
      OBVIOUS
    <3> QED BY <2>2, <3>1, <3>2
  <2>4. PICK m \in 0..(fnum - 1) : b = <<"Ac", m>>
    BY <1>1, <2>3
  <2>5. FanInput(m) = x
    BY <2>3, <2>4 DEF FanInput
  <2>6. m < x
    BY <1>1, <2>2, <2>5
  <2>7. m \in T
    BY <2>4, <2>5, <2>6
  <2> QED BY <1>1, <2>1, <2>6, <2>7
<1> QED BY <1>2, <1>3

(***************************************************************************)
(* On every machine and in whichever order the drivers' starts run, a key  *)
(* F<n>Ac and the SmartGuardian keys with its number are of the same fan,  *)
(* if no input before a fan lacks one and no other driver has fans.        *)
(***************************************************************************)
THEOREM FansAreControlledByNumber == StartSpec => []ControlsMatchFans
<1>1. StartInit => StartInv
  <2> SUFFICES ASSUME StartInit PROVE StartInv
    OBVIOUS
  <2>1. StartShape
    BY MainboardsAssumption DEF StartInit, StartShape
  <2> QED BY <2>1 DEF StartInit, StartInv, StartShape, ControlsAreNumbered, FansAreCounted
<1>2. StartInv /\ [StartNext]_startVars => StartInv'
  <2> SUFFICES ASSUME StartInv, [StartNext]_startVars PROVE StartInv'
    OBVIOUS
  <2>1. ASSUME NEW d \in DOMAIN mainboard.chips, StartTemperatures(d) \/ StartVoltages(d)
        PROVE  StartInv'
    <3>1. d \in DOMAIN lists /\ d \in SuperIODrivers /\ mainboard' = mainboard /\ fnum' = fnum
      BY <2>1 DEF StartInv, StartShape, StartTemperatures, StartVoltages
    <3>2. /\ starting[d] \in {-2, -1} /\ starting' = [starting EXCEPT ![d] = starting[d] + 1]
      BY <2>1 DEF StartTemperatures, StartVoltages
    <3>3. PICK added : /\ AddSensors(d, added) /\ DOMAIN added \subseteq 0..10
                       /\ \A c \in DOMAIN added : added[c].group # "control" /\ added[c].key[1] # "Ac"
      BY <2>1, <3>1, TemperaturesAre, VoltagesAre DEF StartTemperatures, StartVoltages
    <3>4. StartShape'
      BY <3>1, <3>2, <3>3, AddedIs DEF StartInv, StartShape
    <3>5. ControlsAreNumbered'
      BY <3>1, <3>3, StaysNumbered DEF StartInv
    <3>6. CASE d # ITE
      <4>1. FansAreCounted'
        BY <3>1, <3>2, <3>3, <3>6, OthersAdd DEF StartInv, StartShape
      <4> QED BY <3>4, <3>5, <4>1 DEF StartInv
    <3>7. CASE d = ITE
      <4>1. OthersHaveFans' <=> OthersHaveFans
        BY <3>1, <3>3, <3>7, AddedIs DEF OthersHaveFans
      <4>2. ASSUME ~OthersHaveFans
            PROVE  fnum' = 0 /\ \A k \in DOMAIN lists'[ITE] : k[1] # "Ac"
        <5>1. fnum = 0 /\ \A k \in DOMAIN lists[ITE] : k[1] # "Ac"
          BY <3>1, <3>2, <3>7, <4>2 DEF StartInv, FansAreCounted
        <5> QED BY <3>1, <3>3, <3>7, <5>1, AddedIs
      <4>3. starting'[ITE] \in Int
        BY <3>1, <3>2, <3>4, <3>7 DEF StartShape, StartInv
      <4>4. starting'[ITE] \in {-1, 0}
        BY <3>1, <3>2, <3>7 DEF StartShape, StartInv
      <4>5. FansAreCounted'
        BY <4>1, <4>2, <4>4 DEF FansAreCounted
      <4> QED BY <3>4, <3>5, <4>5 DEF StartInv
    <3> QED BY <3>6, <3>7
  <2>2. ASSUME NEW d \in DOMAIN mainboard.chips, StartFan(d)
        PROVE  StartInv'
    <3> DEFINE i == starting[d]
    <3>1. d \in DOMAIN lists /\ d \in SuperIODrivers /\ mainboard' = mainboard
      BY <2>2 DEF StartInv, StartShape, StartFan
    <3>2. /\ i \in 0..(FanLimit(d) - 1) /\ starting' = [starting EXCEPT ![d] = i + 1]
          /\ AddSensors(d, FanSensors(d, i))
          /\ ~IsFan(d, i) => fnum' = fnum
      BY <2>2 DEF StartFan
    <3>3. /\ DOMAIN FanSensors(d, i) \subseteq 0..10
          /\ \A c \in DOMAIN FanSensors(d, i) : FanSensors(d, i)[c].group = "control" =>
               d = ITE /\ (\/ FanSensors(d, i)[c].key[1] \in {"FMCL", "FMCR"}
                           \/ FanSensors(d, i)[c].key[2] = FanSensors(d, i)[c].input)
      <4>1. Tachometer(i).group = "tachometer"
        BY DEF Tachometer, Wire
      <4> QED BY <3>1, <4>1, FanAdds
    <3>4. StartShape'
      <4>1. DOMAIN lists' = DOMAIN lists
        BY <3>1, <3>2, <3>3, AddedIs
      <4>2. d = ITE => i \in 0..4
        BY <3>2 DEF FanLimit, ITE
      <4> QED BY <3>1, <3>2, <4>1, <4>2 DEF StartInv, StartShape
    <3>5. ControlsAreNumbered'
      BY <3>1, <3>2, <3>3, StaysNumbered DEF StartInv
    <3>6. CASE d # ITE
      <4>1. IsFan(d, i) => \E c \in DOMAIN FanSensors(d, i) : FanSensors(d, i)[c].key[1] = "Ac"
        <5>1. Tachometer(i).key[1] = "Ac"
          BY DEF Tachometer, Wire
        <5> QED BY <3>1, <5>1, FanAdds
      <4>2. starting' = [starting EXCEPT ![d] = starting'[d]]
        BY <3>1, <3>2 DEF StartInv, StartShape
      <4>3. FansAreCounted'
        BY <3>1, <3>2, <3>3, <3>6, <4>1, <4>2, OthersAdd DEF StartInv, StartShape
      <4> QED BY <3>4, <3>5, <4>3 DEF StartInv
    <3>7. CASE d = ITE
      <4>1. OthersHaveFans' <=> OthersHaveFans
        BY <3>1, <3>2, <3>3, <3>7, AddedIs DEF OthersHaveFans
      <4>2. starting'[ITE] = starting[ITE] + 1 /\ starting[ITE] \in Nat
        BY <3>1, <3>2, <3>7 DEF StartInv, StartShape
      <4>3. FansAreCounted'
        <5> SUFFICES ASSUME ~OthersHaveFans'
                     PROVE  FansAreCounted'
          BY DEF FansAreCounted
        <5> QED BY <2>2, <3>1, <3>7, <4>1, <4>2, NextFan DEF FansAreCounted
      <4> QED BY <3>4, <3>5, <4>3 DEF StartInv
    <3> QED BY <3>6, <3>7
  <2>3. CASE UNCHANGED startVars
    BY <2>3 DEF startVars, StartInv, StartShape, ControlsAreNumbered, FansAreCounted, OthersHaveFans, FanInput
  <2> QED BY <2>1, <2>2, <2>3 DEF StartNext
<1>3. StartInv => ControlsMatchFans
  <2> SUFFICES ASSUME StartInv,
                      NEW d \in DOMAIN lists, NEW k \in DOMAIN lists[d],
                      lists[d][k].group = "control", <<"Ac", k[2]>> \in DOMAIN lists[d],
                      k[1] # "FMCL", k[1] # "FMCR",
                      "Ac" \notin UNION {{e[1] : e \in DOMAIN lists[o]} : o \in DOMAIN lists \ {d}},
                      \A i \in {lists[d][a].input : a \in {b \in DOMAIN lists[d] : b[1] = "Ac"}} :
                        0..i \subseteq {lists[d][a].input : a \in {b \in DOMAIN lists[d] : b[1] = "Ac"}}
               PROVE  lists[d][k].input = lists[d][<<"Ac", k[2]>>].input
    BY DEF ControlsMatchFans
  <2>1. d = ITE /\ k[2] = lists[d][k].input
    BY DEF StartInv, ControlsAreNumbered
  <2>2. ~OthersHaveFans
    BY <2>1 DEF OthersHaveFans
  <2>3. \A a \in DOMAIN lists[ITE] : a[1] = "Ac" =>
          \A n \in 0..lists[ITE][a].input : \E b \in DOMAIN lists[ITE] : b[1] = "Ac" /\ lists[ITE][b].input = n
    <3> DEFINE fans == {lists[ITE][a].input : a \in {b \in DOMAIN lists[ITE] : b[1] = "Ac"}}
    <3>1. \A j \in fans : 0..j \subseteq fans
      BY <2>1
    <3>2. \A a \in DOMAIN lists[ITE] : a[1] = "Ac" => lists[ITE][a].input \in fans
      OBVIOUS
    <3>3. \A n \in fans : \E b \in DOMAIN lists[ITE] : b[1] = "Ac" /\ lists[ITE][b].input = n
      OBVIOUS
    <3> HIDE DEF fans
    <3> QED BY <3>1, <3>2, <3>3
  <2>4. PICK n \in 0..(fnum - 1) : <<"Ac", k[2]>> = <<"Ac", n>>
    BY <2>1, <2>2 DEF StartInv, FansAreCounted
  <2>5. k[2] \in Int
    BY <2>1, <2>2, <2>4 DEF StartInv, FansAreCounted
  <2>6. FanInput(k[2]) = k[2]
    BY <2>1, <2>2, <2>3, <2>5, FansAreWhereTheyCount DEF StartInv, StartShape
  <2> QED BY <2>1, <2>6 DEF FanInput
<1> QED BY <1>1, <1>2, <1>3, PTL DEF StartSpec
-----------------------------------------------------------------------------
(* The levels of batteries *)

LevelRecord ==
  [DesignCapacity : Nat, LastFullChargeCapacity : Nat, DesignVoltage : Nat,
   RemainingCapacity : Nat, LastRemainingCapacity : Nat]

\* A battery's voltage is not known, or it is the battery's own; and the flag is that
\* of the battery the driver was informed of last.
LevelsInv ==
  /\ pack \in Packs
  /\ charge \in [Cells -> Nat] /\ Battery \in [Cells -> LevelRecord]
  /\ \A b \in Cells : Battery[b].DesignVoltage \in {0, pack[b].volt}
  /\ informed \in Cells \union {0}
  /\ informed # 0 => PowerUnitIsWatt = IsWatt(informed)
  /\ PowerUnitIsWatt \in BOOLEAN /\ inserted \subseteq Cells

(***************************************************************************)
(* A product divided by one of its factors is the other.                   *)
(***************************************************************************)
LEMMA DividesOut ==
  ASSUME NEW a \in Nat, NEW v \in Nat \ {0}
  PROVE  (a * v) \div v = a
  BY Z3

(***************************************************************************)
(* What a battery is made for tells whether its figures are to be turned.  *)
(***************************************************************************)
LEMMA IsWattIsRight ==
  ASSUME pack \in Packs, NEW b \in Cells
  PROVE  IsWatt(b) <=> pack[b].unit = "mWh"
<1> DEFINE p == pack[b]
<1>1. /\ {p.unit, p.says} \subseteq Units /\ p.volt \in Nat \ {0} /\ p.design \in Nat /\ LeastDesign \in Nat
      /\ p.unit = "mWh" => p.says = "mWh" /\ p.design >= LeastDesign
      /\ p.unit = "mAh" /\ p.says = "mWh" => p.design \div p.volt < LeastDesign
  BY PacksAssumption DEF Cells
<1>2. (p.design * p.volt) \div p.volt = p.design
  BY <1>1, DividesOut
<1>3. CASE p.unit = "mWh"
  BY <1>1, <1>2, <1>3 DEF IsWatt, Reported
<1>4. CASE p.unit = "mAh"
  <2>1. p.design \div p.volt \in Int
    BY <1>1
  <2> QED BY <1>1, <1>4, <2>1 DEF IsWatt, Reported
<1> QED BY <1>1, <1>3, <1>4 DEF Units

(***************************************************************************)
(* A battery's figure, turned if that is called for, is its charge.        *)
(***************************************************************************)
LEMMA MeasuredIsHeld ==
  ASSUME LevelsInv, NEW b \in Cells
  PROVE  Measured(b, IsWatt(b), pack[b].volt) = charge[b]
<1>1. charge[b] \in Nat /\ pack[b].volt \in Nat \ {0} /\ pack[b].unit \in Units
  BY PacksAssumption DEF LevelsInv, Cells
<1>2. IsWatt(b) <=> pack[b].unit = "mWh"
  BY IsWattIsRight DEF LevelsInv
<1>3. CASE pack[b].unit = "mWh"
  BY <1>1, <1>2, <1>3, DividesOut DEF Measured, Reported
<1>4. CASE pack[b].unit = "mAh"
  BY <1>1, <1>2, <1>4 DEF Measured, Reported
<1> QED BY <1>1, <1>3, <1>4 DEF Units

(***************************************************************************)
(* Figures are numbers, turned or not, when there is a voltage.            *)
(***************************************************************************)
LEMMA MeasuredIsNat ==
  ASSUME LevelsInv, NEW b \in Cells, NEW watts \in BOOLEAN, watts => Battery[b].DesignVoltage # 0
  PROVE  Measured(b, watts, Battery[b].DesignVoltage) \in Nat
<1>1. charge[b] \in Nat /\ pack[b].volt \in Nat /\ Battery[b].DesignVoltage \in Nat
  BY PacksAssumption DEF LevelsInv, Cells, LevelRecord
<1>2. Reported(b, charge[b]) \in Nat
  BY <1>1 DEF Reported
<1> QED BY <1>1, <1>2 DEF Measured

(***************************************************************************)
(* The larger of two numbers is one and no less than the second.           *)
(***************************************************************************)
LEMMA LargerIsLarger ==
  ASSUME NEW x \in Nat, NEW y \in Nat
  PROVE  Larger(x, y) \in Nat /\ y <= Larger(x, y)
<1>1. CASE x < y
  BY <1>1 DEF Larger
<1>2. CASE ~(x < y)
  BY <1>2 DEF Larger
<1> QED BY <1>1, <1>2

(***************************************************************************)
(* After an answer the driver still has numbers, and the voltage it had.   *)
(***************************************************************************)
LEMMA AfterIsRecord ==
  ASSUME LevelsInv, NEW b \in Cells, NEW reply \in Replies, NEW watts \in BOOLEAN,
         reply # "no answer" => Divides(b, watts)
  PROVE  /\ After(b, reply, watts).battery \in LevelRecord
         /\ After(b, reply, watts).battery.DesignVoltage = Battery[b].DesignVoltage
         /\ reply # "no answer" =>
              LET now == After(b, reply, watts).battery
              IN  /\ now.RemainingCapacity = Measured(b, watts, Battery[b].DesignVoltage)
                  /\ now.RemainingCapacity <= now.LastFullChargeCapacity
<1>1. Battery[b] \in LevelRecord
  BY DEF LevelsInv
<1>2. CASE reply = "no answer"
  BY <1>1, <1>2 DEF After, Unanswered, LevelRecord
<1>3. CASE reply # "no answer"
  <2>1. Measured(b, watts, Battery[b].DesignVoltage) \in Nat
    BY <1>3, MeasuredIsNat DEF Divides
  <2> DEFINE m == Measured(b, watts, Battery[b].DesignVoltage)
             full == IF reply = "full" THEN m ELSE Larger(Battery[b].LastFullChargeCapacity, m)
  <2>2. After(b, reply, watts).battery =
          [Battery[b] EXCEPT !.RemainingCapacity = m, !.LastRemainingCapacity = m, !.LastFullChargeCapacity = full]
    BY <1>3 DEF After, Known
  <2>3. full \in Nat /\ m <= full
    <3>1. m \in Nat /\ Battery[b].LastFullChargeCapacity \in Nat
      BY <1>1, <2>1 DEF LevelRecord
    <3> HIDE DEF m
    <3>2. CASE reply = "full"
      BY <3>1, <3>2
    <3>3. CASE reply # "full"
      <4>1. full = Larger(Battery[b].LastFullChargeCapacity, m)
        BY <3>3
      <4> QED BY <3>1, <4>1, LargerIsLarger
    <3> QED BY <3>2, <3>3
  <2> HIDE DEF m, full
  <2> QED BY <1>1, <2>1, <2>2, <2>3 DEF LevelRecord, m
<1> QED BY <1>2, <1>3

(***************************************************************************)
(* BatteryInformation leaves the flag as the battery's it was asked about. *)
(***************************************************************************)
LEMMA InformationStays ==
  ASSUME LevelsInv, NEW b \in Cells, BatteryInformation(b),
         pack' = pack, charge' = charge, inserted' \subseteq Cells
  PROVE  LevelsInv'
<1>1. PICK reply \in Replies, answers \in BOOLEAN :
        LET status == After(b, reply, FALSE)
            battery == IF answers THEN Informed(b, status.battery) ELSE status.battery
        IN  /\ Battery' = [Battery EXCEPT ![b] = battery]
            /\ PowerUnitIsWatt' = (answers /\ IsWatt(b))
            /\ informed' = IF answers THEN b ELSE 0
  BY DEF BatteryInformation
<1> DEFINE status == After(b, reply, FALSE)
           battery == IF answers THEN Informed(b, status.battery) ELSE status.battery
<1>2. status.battery \in LevelRecord /\ status.battery.DesignVoltage \in {0, pack[b].volt}
  BY AfterIsRecord DEF Divides, LevelsInv
<1>3. \A r \in LevelRecord : Informed(b, r) \in LevelRecord /\ Informed(b, r).DesignVoltage = pack[b].volt
  <2>1. pack[b].volt \in Nat \ {0} /\ pack[b].design \in Nat /\ pack[b].full \in Nat
    BY PacksAssumption DEF LevelsInv, Cells
  <2>2. Reported(b, pack[b].design) \in Nat /\ Reported(b, pack[b].full) \in Nat
    BY <2>1 DEF Reported
  <2> DEFINE In(mAh) == IF IsWatt(b) THEN Reported(b, mAh) \div pack[b].volt ELSE Reported(b, mAh)
             design == In(pack[b].design)
             full == In(pack[b].full)
  <2>3. design \in Nat /\ full \in Nat
    BY <2>1, <2>2
  <2>4. \A r : Informed(b, r) = [r EXCEPT !.DesignCapacity = Larger(design, full),
                                         !.LastFullChargeCapacity = Smaller(design, full),
                                         !.DesignVoltage = pack[b].volt]
    BY DEF Informed
  <2> HIDE DEF design, full
  <2>5. Larger(design, full) \in Nat /\ Smaller(design, full) \in Nat
    BY <2>3 DEF Larger, Smaller
  <2> DEFINE larger == Larger(design, full)
             smaller == Smaller(design, full)
  <2> HIDE DEF larger, smaller
  <2> SUFFICES ASSUME NEW r \in LevelRecord
               PROVE  Informed(b, r) \in LevelRecord /\ Informed(b, r).DesignVoltage = pack[b].volt
    OBVIOUS
  <2>6. Informed(b, r) = [r EXCEPT !.DesignCapacity = larger, !.LastFullChargeCapacity = smaller, !.DesignVoltage = pack[b].volt]
    BY <2>4 DEF larger, smaller
  <2>7. larger \in Nat /\ smaller \in Nat /\ pack[b].volt \in Nat
    BY <2>1, <2>5 DEF larger, smaller
  <2> QED BY <2>6, <2>7 DEF LevelRecord
<1>4. battery \in LevelRecord /\ battery.DesignVoltage \in {0, pack[b].volt}
  <2> HIDE DEF status
  <2> QED BY <1>2, <1>3
<1>5. Battery' = [Battery EXCEPT ![b] = battery]
  BY <1>1
<1>6. Cells' = Cells
  BY DEF Cells
<1>7. PowerUnitIsWatt' \in BOOLEAN /\ informed' \in Cells \union {0} /\ (informed' # 0 => PowerUnitIsWatt' = IsWatt(informed'))
  <2>1. IsWatt(b) \in BOOLEAN
    BY DEF IsWatt
  <2> QED BY <1>1, <2>1
<1>8. \A c : IsWatt(c)' = IsWatt(c)
  BY DEF IsWatt, Reported
<1> HIDE DEF battery
<1>9. Battery' \in [Cells -> LevelRecord] /\ \A c \in Cells : Battery'[c].DesignVoltage \in {0, pack[c].volt}
  BY <1>4, <1>5 DEF LevelsInv
<1> QED BY <1>6, <1>7, <1>8, <1>9 DEF LevelsInv

(***************************************************************************)
(* A battery that is gone leaves what is known of the others.              *)
(***************************************************************************)
LEMMA BlankStays ==
  ASSUME LevelsInv, NEW b \in Cells, BlankOut(b), pack' = pack, charge' = charge, inserted' \subseteq Cells
  PROVE  LevelsInv'
<1>1. Cells' = Cells /\ Battery' = Battery /\ PowerUnitIsWatt' = FALSE /\ informed' = 0
  BY DEF Cells, BlankOut
<1> QED BY <1>1 DEF LevelsInv

(***************************************************************************)
(* Whatever batteries come and go, however they charge and whoever asks,   *)
(* a battery is answered for with what it holds and with no more than all, *)
(* as long as the flag is that of a battery of its kind.                   *)
(***************************************************************************)
THEOREM BatteriesAreAnsweredFor == LevelsSpec => LevelsAreTrue
<1>1. LevelsInit => LevelsInv
  <2> SUFFICES ASSUME LevelsInit PROVE LevelsInv
    OBVIOUS
  <2>1. charge \in [Cells -> Nat]
    BY PacksAssumption DEF LevelsInit, Cells
  <2>2. Unread \in LevelRecord /\ Unread.DesignVoltage = 0
    BY DEF Unread, LevelRecord
  <2>3. Battery = [b \in Cells |-> Unread]
    BY DEF LevelsInit
  <2> QED BY <2>1, <2>2, <2>3 DEF LevelsInit, LevelsInv
<1>2. LevelsInv /\ [LevelsNext]_levelVars => LevelsInv'
  <2> SUFFICES ASSUME LevelsInv, [LevelsNext]_levelVars PROVE LevelsInv'
    OBVIOUS
  <2>0. ASSUME pack' = pack PROVE Cells' = Cells /\ \A c : IsWatt(c)' = IsWatt(c)
    BY <2>0 DEF Cells, IsWatt, Reported
  <2>1. CASE Drift
    <3>1. PICK b \in inserted : \E c \in {charge[b] - 1, charge[b] + 1} \intersect 0..pack[b].full : charge' = [charge EXCEPT ![b] = c]
      BY <2>1 DEF Drift
    <3>0. PICK c \in {charge[b] - 1, charge[b] + 1} \intersect 0..pack[b].full : charge' = [charge EXCEPT ![b] = c]
      BY <3>1
    <3>2. b \in Cells /\ c \in Nat
      <4>1. b \in Cells /\ pack[b].full \in Nat
        BY PacksAssumption DEF LevelsInv, Cells
      <4> QED BY <4>1
    <3>3. charge' \in [Cells -> Nat]
      BY <3>0, <3>2 DEF LevelsInv
    <3>4. UNCHANGED <<pack, inserted, Battery, PowerUnitIsWatt, informed>>
      BY <2>1 DEF Drift
    <3> QED BY <2>0, <3>3, <3>4 DEF LevelsInv
  <2>2. CASE PutIn
    <3>1. PICK b \in Cells \ inserted : inserted' = inserted \union {b} /\ BatteryInformation(b)
      BY <2>2 DEF PutIn
    <3> QED BY <2>2, <3>1, InformationStays DEF PutIn, LevelsInv
  <2>3. CASE TakeOut
    <3>1. PICK b \in inserted : inserted' = inserted \ {b} /\ BlankOut(b)
      BY <2>3 DEF TakeOut
    <3> QED BY <2>3, <3>1, BlankStays DEF TakeOut, LevelsInv
  <2>4. CASE Inform
    <3>1. PICK b \in Cells : IF b \in inserted THEN BatteryInformation(b) ELSE BlankOut(b)
      BY <2>4 DEF Inform
    <3> QED BY <2>4, <3>1, InformationStays, BlankStays DEF Inform, LevelsInv
  <2>5. CASE ReadLevel
    <3>1. PICK ask \in Asks : \E reply \in [ask.of -> Replies] :
            IF Stops(ask.of, reply, PowerUnitIsWatt) THEN UNCHANGED Battery
            ELSE BatteryStatus(ask.of, reply, PowerUnitIsWatt)
      BY <2>5 DEF ReadLevel
    <3>2. PICK reply \in [ask.of -> Replies] :
            IF Stops(ask.of, reply, PowerUnitIsWatt) THEN UNCHANGED Battery
            ELSE BatteryStatus(ask.of, reply, PowerUnitIsWatt)
      BY <3>1
    <3>3. UNCHANGED <<pack, charge, inserted, PowerUnitIsWatt, informed>>
      BY <2>5 DEF ReadLevel
    <3>4. CASE Stops(ask.of, reply, PowerUnitIsWatt)
      BY <2>0, <3>2, <3>3, <3>4 DEF LevelsInv
    <3>5. CASE ~Stops(ask.of, reply, PowerUnitIsWatt)
      <4>1. Battery' = [b \in Cells |-> IF b \in ask.of THEN After(b, reply[b], PowerUnitIsWatt).battery ELSE Battery[b]]
        BY <3>2, <3>5 DEF BatteryStatus
      <4>2. ASSUME NEW b \in Cells
            PROVE  Battery'[b] \in LevelRecord /\ Battery'[b].DesignVoltage \in {0, pack[b].volt}
        <5>1. CASE b \in ask.of
          <6>1. reply[b] \in Replies /\ (reply[b] # "no answer" => Divides(b, PowerUnitIsWatt))
            BY <3>5, <5>1 DEF Stops
          <6> QED BY <4>1, <5>1, <6>1, AfterIsRecord DEF LevelsInv
        <5>2. CASE b \notin ask.of
          BY <4>1, <5>2 DEF LevelsInv
        <5> QED BY <5>1, <5>2
      <4>3. Battery' \in [Cells -> LevelRecord]
        BY <4>1, <4>2
      <4> QED BY <2>0, <3>3, <4>2, <4>3 DEF LevelsInv
    <3> QED BY <3>4, <3>5
  <2>6. CASE AnswerTaken \/ UNCHANGED levelVars
    BY <2>0, <2>6 DEF AnswerTaken, levelVars, LevelsInv
  <2> QED BY <2>1, <2>2, <2>3, <2>4, <2>5, <2>6 DEF LevelsNext
<1>3. ASSUME LevelsInv, ReadLevel, ~panicked', NEW b \in DOMAIN answered'.value
      PROVE  /\ answered'.kind = "percent" => answered'.value[b] <= 100
             /\ answered'.kind = "remaining" /\ informed # 0 /\ IsWatt(informed) = IsWatt(b) =>
                  answered'.value[b] = answered'.held[b]
  <2>0. PICK ask \in Asks : \E reply \in [ask.of -> Replies] :
          IF Stops(ask.of, reply, PowerUnitIsWatt)
          THEN panicked' = TRUE
          ELSE /\ BatteryStatus(ask.of, reply, PowerUnitIsWatt)
               /\ panicked' = (ask.kind = "percent" /\ \E c \in inserted : Battery'[c].LastFullChargeCapacity = 0)
               /\ answered' = IF panicked' THEN NotAnswered ELSE AnswerOf(ask.kind, {c \in ask.of : reply[c] # "no answer"})
    BY <1>3 DEF ReadLevel
  <2>1. PICK reply \in [ask.of -> Replies] :
          IF Stops(ask.of, reply, PowerUnitIsWatt)
          THEN panicked' = TRUE
          ELSE /\ BatteryStatus(ask.of, reply, PowerUnitIsWatt)
               /\ panicked' = (ask.kind = "percent" /\ \E c \in inserted : Battery'[c].LastFullChargeCapacity = 0)
               /\ answered' = IF panicked' THEN NotAnswered ELSE AnswerOf(ask.kind, {c \in ask.of : reply[c] # "no answer"})
    BY <2>0
  <2> DEFINE bs == {c \in ask.of : reply[c] # "no answer"}
             now == After(b, reply[b], PowerUnitIsWatt).battery
  <2>2. ~Stops(ask.of, reply, PowerUnitIsWatt) /\ BatteryStatus(ask.of, reply, PowerUnitIsWatt)
        /\ answered' = AnswerOf(ask.kind, bs)
    BY <1>3, <2>1
  <2>3. DOMAIN answered'.value = bs /\ answered'.kind = ask.kind
        /\ answered'.value = [c \in bs |-> IF ask.kind = "remaining" THEN Battery'[c].RemainingCapacity ELSE Percent(Battery'[c])]
        /\ answered'.held = [c \in bs |-> charge[c]]
    BY <2>2 DEF AnswerOf
  <2>4. b \in ask.of /\ reply[b] # "no answer" /\ reply[b] \in Replies /\ Divides(b, PowerUnitIsWatt)
    BY <1>3, <2>2, <2>3 DEF Stops
  <2>5. b \in Cells /\ ask.kind \in {"remaining", "percent"} /\ (ask.kind = "percent" => ask.of = inserted)
    <3>1. CASE ask = [kind |-> "percent", of |-> inserted]
      BY <1>3, <2>4, <3>1 DEF LevelsInv
    <3>2. CASE \E c \in Cells : ask = [kind |-> "remaining", of |-> {c}]
      <4>1. PICK c \in Cells : ask = [kind |-> "remaining", of |-> {c}]
        BY <3>2
      <4>2. ask.kind = "remaining" /\ ask.of = {c}
        BY <4>1
      <4> QED BY <2>4, <4>2
    <3> QED BY <3>1, <3>2 DEF Asks
  <2>6. Battery'[b] = now
    BY <2>2, <2>4, <2>5 DEF BatteryStatus
  <2>7. /\ now \in LevelRecord
        /\ now.RemainingCapacity = Measured(b, PowerUnitIsWatt, Battery[b].DesignVoltage)
        /\ now.RemainingCapacity <= now.LastFullChargeCapacity
    BY <1>3, <2>4, <2>5, AfterIsRecord DEF LevelsInv
  <2> HIDE DEF bs, now
  <2>8. CASE ask.kind = "percent"
    <3>1. answered'.value[b] = Percent(now)
      BY <1>3, <2>3, <2>6, <2>8
    <3>2. now.LastFullChargeCapacity # 0
      BY <1>3, <2>1, <2>2, <2>4, <2>5, <2>6, <2>8
    <3>3. \A r, f \in Nat : f # 0 /\ r <= f => (r * 100) \div f <= 100
      BY Z3
    <3>4. now.RemainingCapacity \in Nat /\ now.LastFullChargeCapacity \in Nat
      BY <2>7 DEF LevelRecord
    <3>5. Percent(now) <= 100
      BY <2>7, <3>2, <3>3, <3>4 DEF Percent
    <3> QED BY <2>3, <2>8, <3>1, <3>5
  <2>9. CASE ask.kind = "remaining" /\ informed # 0 /\ IsWatt(informed) = IsWatt(b)
    <3>1. answered'.value[b] = now.RemainingCapacity /\ answered'.held[b] = charge[b]
      BY <1>3, <2>3, <2>6, <2>9
    <3>2. PowerUnitIsWatt = IsWatt(b)
      BY <1>3, <2>9 DEF LevelsInv
    <3>3. Measured(b, PowerUnitIsWatt, Battery[b].DesignVoltage) = charge[b]
      <4>1. CASE IsWatt(b)
        <5>1. Battery[b].DesignVoltage = pack[b].volt
          BY <1>3, <2>4, <2>5, <3>2, <4>1 DEF Divides, LevelsInv
        <5> QED BY <1>3, <2>5, <3>2, <5>1, MeasuredIsHeld
      <4>2. CASE ~IsWatt(b)
        <5>1. Measured(b, IsWatt(b), Battery[b].DesignVoltage) = Measured(b, IsWatt(b), pack[b].volt)
          BY <4>2 DEF Measured
        <5> QED BY <1>3, <2>5, <3>2, <5>1, MeasuredIsHeld
      <4> QED BY <4>1, <4>2
    <3> QED BY <2>3, <2>7, <2>9, <3>1, <3>3
  <2> QED BY <2>3, <2>8, <2>9
<1>4. LevelsInv /\ [LevelsNext]_levelVars =>
        [ReadLevel /\ ~panicked' =>
           \A b \in DOMAIN answered'.value :
             /\ answered'.kind = "percent" => answered'.value[b] <= 100
             /\ answered'.kind = "remaining" /\ informed # 0 /\ IsWatt(informed) = IsWatt(b) =>
                  answered'.value[b] = answered'.held[b]]_levelVars
  BY <1>3
<1> QED BY <1>1, <1>2, <1>4, PTL DEF LevelsSpec, LevelsAreTrue

-----------------------------------------------------------------------------
(* The search for a sensor chip *)

\* What is detected in a chip at entry i of the static list, on the first port.
FamilyAt(i) == Family(StaticList[i][1], card.chips[card.ports[0]][StaticList[i][2]], StaticList[i][2])

\* Entry i of the static list is that of a chip that should be found.
Due(i) ==
  /\ flaky = 0 /\ card.ports[0] # NoPort
  /\ i \in Listed(card.ports[0]) /\ \A j \in Listed(card.ports[0]) : i <= j
  /\ FamilyAt(i) # {}

Trying == doing \in {"probe", "create", "detect"}
NotYet == doing \in {"external", "next"} \/ Trying

Asking ==
  /\ searches \in {Searches, Tail(Searches), <<>>}
  /\ doing = "external" => searches = Searches
  /\ Trying \/ doing = "found" => searches # <<>> /\ bus
  /\ Trying => entry \in Nat \ {0}
  /\ doing \in {"create", "detect"} => entry \in DOMAIN List /\ Present(Port, Address)
  /\ doing = "detect" => Address \in devs
  /\ unlocked \in BOOLEAN /\ (unlocked => Trying \/ doing \in {"found", "panic"})
  /\ flaky \in Nat

\* The chip a set of functions was installed for is still to be asked.
Fits ==
  /\ bus /\ sensor.addr \in devs
  /\ garbled \/ functions \in MadeFor(card.chips[sensor.port][sensor.addr].kind)

Installed ==
  /\ NotYet => functions = "none" /\ sensor = NoSensor
  /\ functions # "none" => Fits
  /\ doing = "done" => tempKeys = TempKinds

OnTime ==
  \A i \in 1..Len(StaticList) : Due(i) =>
    /\ NotYet => searches = Searches
    /\ Trying => entry <= i
    /\ doing \in {"probe", "create"} => devs = {}
    /\ doing \in {"found", "register", "done"} =>
         sensor = [port |-> card.ports[0], addr |-> StaticList[i][2]] /\ functions \in FamilyAt(i)

SensorInv == card \in Cards /\ Asking /\ Installed /\ OnTime

(***************************************************************************)
(* The static list is tried on the first port, then on the second.         *)
(***************************************************************************)
LEMMA SearchesAre ==
  /\ Searches # <<>> /\ Head(Searches).on = 0 /\ Head(Searches).list = StaticList
  /\ Tail(Searches) # <<>> /\ Head(Tail(Searches)).list = StaticList /\ Tail(Tail(Searches)) = <<>>
<1> DEFINE first == Search(0, StaticList)
           second == Search(1, StaticList)
<1>1. first.on = 0 /\ first.list = StaticList /\ second.list = StaticList
  BY DEF Search
<1>2. Searches = <<first, second>>
  BY DEF Searches
<1> HIDE DEF first, second
<1>3. Head(Searches) = first /\ Tail(Searches) = <<second>>
  BY <1>2
<1> QED BY <1>1, <1>2, <1>3

(***************************************************************************)
(* It has a number of entries.                                             *)
(***************************************************************************)
LEMMA StaticListIs == Len(StaticList) \in Nat /\ DOMAIN StaticList = 1..Len(StaticList)
BY DEF StaticList

(***************************************************************************)
(* Whichever search it is at, the list is the static one.                  *)
(***************************************************************************)
LEMMA ListIsStatic ==
  ASSUME Asking, searches # <<>>
  PROVE  /\ List = StaticList
         /\ searches = Searches => Port = card.ports[0]
         /\ Tail(searches) \in {Searches, Tail(Searches), <<>>}
BY SearchesAre DEF Asking, List, Port

(***************************************************************************)
(* A detection finds functions for the registers of the chip, or none.     *)
(***************************************************************************)
LEMMA FamilyIsMadeFor ==
  ASSUME NEW type, NEW chip, NEW a, NEW f \in Family(type, chip, a)
  PROVE  f = "none" \/ f \in MadeFor(chip.kind)
<1>1. LmFamily(chip, a) \subseteq {"LM99", "MAX6559"}
  <2>1. \A r \in LmRules : r.is \in {"LM99", "MAX6559"}
    BY DEF LmRules, LmRule
  <2>2. MaximOne(chip) \subseteq {"LM99", "MAX6559"}
    BY DEF MaximOne
  <2> QED BY <2>1, <2>2 DEF LmFamily
<1> QED BY <1>1 DEF Family, MadeFor, Adt7473Family, F75375Family, W83781dFamily

(***************************************************************************)
(* A detection finds one set of functions at most.                         *)
(***************************************************************************)
LEMMA FamilyIsOne ==
  ASSUME NEW type, NEW chip, NEW a, NEW f \in Family(type, chip, a), NEW g \in Family(type, chip, a)
  PROVE  f = g
<1>1. \A s, u \in LmFamily(chip, a) : s = u
  <2>1. CASE chip.man = \h4D /\ chip.id = 1
    BY <2>1 DEF LmFamily, MaximOne
  <2>2. \A q, r \in LmRules : q.man = r.man /\ q.ids \intersect r.ids # {} => q.is = r.is
    BY DEF LmRules, LmRule
  <2>3. CASE ~(chip.man = \h4D /\ chip.id = 1)
    BY <2>2, <2>3 DEF LmFamily
  <2> QED BY <2>1, <2>3
<1> QED BY <1>1 DEF Family, Adt7473Family, F75375Family, W83781dFamily

(***************************************************************************)
(* When a question to a chip stays open that should be found, that chip    *)
(* need no longer be; and no chip becomes due.                             *)
(***************************************************************************)
LEMMA DueStays ==
  ASSUME flaky \in Nat, NEW heard \in BOOLEAN, Answers(heard), card' = card, NEW i, Due(i)'
  PROVE  Due(i) /\ (Present(Port, Address) => heard)
BY DEF Answers, Due, FamilyAt, Listed, Present

(***************************************************************************)
(* What is due is told by the card and the questions left open.            *)
(***************************************************************************)
LEMMA DueIsSame ==
  ASSUME card' = card, flaky' = flaky, NEW i
  PROVE  Due(i)' = Due(i) /\ FamilyAt(i)' = FamilyAt(i)
BY DEF Due, FamilyAt, Listed, Present

(***************************************************************************)
(* While no chip was found, none is served whatever becomes of the bus.    *)
(***************************************************************************)
LEMMA NothingInstalled ==
  ASSUME Installed, functions = "none", sensor = NoSensor, functions' = functions, sensor' = sensor, doing' # "done"
  PROVE  Installed'
BY DEF Installed, NoSensor

(***************************************************************************)
(* The search of the table, and those that come to nothing, keep what is   *)
(* known of the search: it is still in time for a chip that is due.        *)
(***************************************************************************)
LEMMA FindExternalStep ==
  ASSUME SensorInv, FindExternal
  PROVE  SensorInv'
<1>1. doing = "external" /\ doing' \in {"external", "next"} /\ searches = Searches
      /\ UNCHANGED <<card, searches, bus, devs, sensor, functions, tempKeys, unlocked, flaky, garbled>>
  BY DEF FindExternal, SensorInv, Asking
<1>2. Asking'
  BY <1>1 DEF SensorInv, Asking, Trying
<1>3. Installed'
  BY <1>1, NothingInstalled DEF SensorInv, Installed, NotYet
<1>4. OnTime'
  BY <1>1, DueIsSame DEF SensorInv, OnTime, Trying, NotYet
<1> QED BY <1>1, <1>2, <1>3, <1>4 DEF SensorInv

(***************************************************************************)
(* A search begins with the first entry of the list, on the bus of its     *)
(* port, or is given up where the card has no such port.                   *)
(***************************************************************************)
LEMMA IdentifySensorStep ==
  ASSUME SensorInv, IdentifySensor
  PROVE  SensorInv'
<1>1. doing = "next" /\ searches # <<>> /\ UNCHANGED <<card, sensor, functions, tempKeys, flaky, garbled>>
      /\ IF Port = NoPort
         THEN searches' = Tail(searches) /\ UNCHANGED <<entry, doing, bus, devs, unlocked>>
         ELSE /\ entry' = 1 /\ doing' = "probe" /\ bus' = TRUE /\ devs' = {} /\ unlocked' = TRUE
              /\ UNCHANGED searches
  BY DEF IdentifySensor
<1>2. List = StaticList /\ (searches = Searches => Port = card.ports[0]) /\ Tail(searches) \in {Searches, Tail(Searches), <<>>}
  BY <1>1, ListIsStatic DEF SensorInv
<1>3. Installed'
  BY <1>1, NothingInstalled DEF SensorInv, Installed, NotYet
<1>4. CASE Port = NoPort
  <2>1. Asking'
    BY <1>1, <1>2, <1>4 DEF SensorInv, Asking, Trying
  <2>2. OnTime'
    <3> SUFFICES ASSUME NEW i \in 1..Len(StaticList), Due(i) PROVE FALSE
      BY <1>1, DueIsSame DEF OnTime
    <3>1. searches = Searches
      BY <1>1 DEF SensorInv, OnTime, NotYet
    <3> QED BY <1>2, <1>4, <3>1 DEF Due
  <2> QED BY <1>1, <1>3, <2>1, <2>2 DEF SensorInv
<1>5. CASE Port # NoPort
  <2>1. Asking'
    BY <1>1, <1>5 DEF SensorInv, Asking, Trying
  <2>2. OnTime'
    BY <1>1, <1>5, DueIsSame, StaticListIs DEF SensorInv, OnTime, Trying, NotYet
  <2> QED BY <1>1, <1>3, <2>1, <2>2 DEF SensorInv
<1> QED BY <1>4, <1>5

(***************************************************************************)
(* A search that came to the end of its list leaves no functions, and no   *)
(* chip that was due is passed with it.                                    *)
(***************************************************************************)
LEMMA NotFoundStep ==
  ASSUME SensorInv, NotFound
  PROVE  SensorInv'
<1>1. /\ doing = "probe" /\ entry > Len(List) /\ doing' \in {"next", "panic"} /\ searches' = Tail(searches)
      /\ unlocked' = FALSE /\ UNCHANGED <<card, entry, sensor, functions, tempKeys, flaky, garbled>>
  BY DEF NotFound, AfterFree, ListEnds
<1>2. searches # <<>> /\ List = StaticList /\ Tail(searches) \in {Searches, Tail(Searches), <<>>}
  <2>1. searches # <<>>
    BY <1>1 DEF SensorInv, Asking, Trying
  <2> QED BY <2>1, ListIsStatic DEF SensorInv
<1>3. Installed'
  BY <1>1, NothingInstalled DEF SensorInv, Installed, NotYet, Trying
<1>4. Asking'
  BY <1>1, <1>2 DEF SensorInv, Asking, Trying
<1>5. OnTime'
  <2> SUFFICES ASSUME NEW i \in 1..Len(StaticList), Due(i) PROVE FALSE
    BY <1>1, DueIsSame DEF OnTime
  <2>1. entry <= i /\ entry > Len(StaticList) /\ entry \in Nat
    BY <1>1, <1>2 DEF SensorInv, OnTime, Trying, Asking
  <2> QED BY <2>1, StaticListIs
<1> QED BY <1>1, <1>3, <1>4, <1>5 DEF SensorInv

(***************************************************************************)
(* The last search left behind what there was to find.                     *)
(***************************************************************************)
LEMMA NoSearchLeftStep ==
  ASSUME SensorInv, NoSearchLeft
  PROVE  SensorInv'
<1>1. doing = "next" /\ searches = <<>> /\ doing' = "register"
      /\ UNCHANGED <<card, searches, entry, bus, devs, sensor, functions, tempKeys, unlocked, flaky, garbled>>
  BY DEF NoSearchLeft
<1>2. Installed'
  BY <1>1, NothingInstalled DEF SensorInv, Installed, NotYet
<1>3. Asking'
  BY <1>1 DEF SensorInv, Asking, Trying
<1>4. OnTime'
  BY <1>1, DueIsSame, SearchesAre DEF SensorInv, OnTime, NotYet
<1> QED BY <1>1, <1>2, <1>3, <1>4 DEF SensorInv

(***************************************************************************)
(* The keys are registered for what was found.                             *)
(***************************************************************************)
LEMMA RegisteringStep ==
  ASSUME SensorInv, Found \/ RegisterTemperatures
  PROVE  SensorInv'
<1>1. /\ doing \in {"found", "register"} /\ doing' \in {"register", "done"} /\ (unlocked' => unlocked)
      /\ unlocked' \in BOOLEAN /\ (doing = "found" => unlocked' = FALSE) /\ bus' = bus
      /\ UNCHANGED <<card, searches, entry, devs, sensor, functions, flaky, garbled>>
      /\ doing' = "done" => tempKeys' = TempKinds
  <2>1. unlocked \in BOOLEAN
    BY DEF SensorInv, Asking
  <2>2. CASE Found
    BY <2>1, <2>2 DEF Found, BusAfter
  <2>3. CASE RegisterTemperatures
    BY <2>1, <2>3 DEF RegisterTemperatures
  <2> QED BY <2>2, <2>3
<1>2. Installed'
  BY <1>1 DEF SensorInv, Installed, NotYet, Trying, Fits, MadeFor, TempKinds
<1>3. Asking'
  BY <1>1 DEF SensorInv, Asking, Trying
<1>4. OnTime'
  BY <1>1, DueIsSame DEF SensorInv, OnTime, NotYet, Trying
<1> QED BY <1>1, <1>2, <1>3, <1>4 DEF SensorInv

(***************************************************************************)
(* An address is asked for: the search goes on, past the chip that is due  *)
(* only when that did not answer.                                          *)
(***************************************************************************)
LEMMA ProbeAddressStep ==
  ASSUME SensorInv, NEW heard \in BOOLEAN, ProbeAddress(heard)
  PROVE  SensorInv'
<1>1. /\ doing = "probe" /\ ~ListEnds /\ Answers(heard)
      /\ IF heard THEN doing' = "create" /\ UNCHANGED entry ELSE entry' = entry + 1 /\ UNCHANGED doing
      /\ UNCHANGED <<card, searches, bus, devs, sensor, functions, tempKeys, unlocked, garbled>>
  BY DEF ProbeAddress
<1>2. searches # <<>> /\ List = StaticList /\ (searches = Searches => Port = card.ports[0]) /\ entry \in 1..Len(StaticList)
  <2>1. entry \in Nat \ {0} /\ searches # <<>>
    BY <1>1 DEF SensorInv, Asking, Trying
  <2>2. List = StaticList /\ (searches = Searches => Port = card.ports[0])
    BY <2>1, ListIsStatic DEF SensorInv
  <2> QED BY <1>1, <2>1, <2>2, StaticListIs DEF ListEnds
<1>3. flaky' \in Nat
  BY <1>1 DEF Answers, SensorInv, Asking
<1>4. Installed'
  BY <1>1, NothingInstalled DEF SensorInv, Installed, NotYet, Trying
<1>5. Asking'
  <2>1. entry' \in Nat \ {0} /\ (doing' = "create" => entry' \in DOMAIN List' /\ Present(Port, Address)')
    BY <1>1, <1>2, StaticListIs DEF Answers, Present, Port, Address, List
  <2> QED BY <1>1, <1>3, <2>1 DEF SensorInv, Asking, Trying
<1>6. OnTime'
  <2> SUFFICES ASSUME NEW i \in 1..Len(StaticList), Due(i)'
               PROVE  searches = Searches /\ entry' <= i /\ devs = {}
    BY <1>1 DEF OnTime, NotYet, Trying
  <2>1. Due(i) /\ (Present(Port, Address) => heard)
    BY <1>1, DueStays DEF SensorInv, Asking
  <2>2. searches = Searches /\ entry <= i /\ devs = {}
    BY <1>1, <2>1 DEF SensorInv, OnTime, NotYet, Trying
  <2>3. CASE entry = i /\ ~heard
    <3>1. Present(Port, Address)
      BY <1>2, <2>1, <2>2, <2>3 DEF Due, Listed, Address
    <3> QED BY <2>1, <2>3, <3>1
  <2>4. CASE entry < i \/ heard
    BY <1>1, <1>2, <2>2, <2>4
  <2> QED BY <1>2, <2>2, <2>3, <2>4
<1> QED BY <1>1, <1>4, <1>5, <1>6 DEF SensorInv

(***************************************************************************)
(* When the chip that is due has answered it is that entry's turn.         *)
(***************************************************************************)
LEMMA ItIsItsTurn ==
  ASSUME SensorInv, doing \in {"create", "detect"}, NEW i \in 1..Len(StaticList), Due(i)
  PROVE  searches = Searches /\ entry = i /\ Port = card.ports[0] /\ List = StaticList
<1>1. searches = Searches /\ entry <= i /\ entry \in DOMAIN List /\ Present(Port, Address)
  BY DEF SensorInv, OnTime, NotYet, Trying, Asking
<1>2. List = StaticList /\ Port = card.ports[0]
  BY <1>1, ListIsStatic, SearchesAre DEF SensorInv
<1>3. entry \in Listed(card.ports[0])
  BY <1>1, <1>2, StaticListIs DEF Listed, Address
<1> QED BY <1>1, <1>2, <1>3, StaticListIs DEF Due

(***************************************************************************)
(* A device record is made for an address once.                            *)
(***************************************************************************)
LEMMA CreateStep ==
  ASSUME SensorInv, NEW heard \in BOOLEAN, Create(heard)
  PROVE  SensorInv'
<1>1. /\ doing = "create" /\ Answers(heard)
      /\ doing' \in {"found", "panic", "detect"}
      /\ heard /\ Address \notin devs => doing' = "detect"
      /\ doing' = "detect" => heard
      /\ devs' = IF heard THEN devs \union {Address} ELSE devs
      /\ UNCHANGED <<card, searches, entry, bus, sensor, functions, tempKeys, unlocked, garbled>>
  BY DEF Create, AfterFree
<1>2. functions = "none" /\ sensor = NoSensor
  BY <1>1 DEF SensorInv, Installed, NotYet, Trying
<1>3. Installed'
  BY <1>1, <1>2, NothingInstalled DEF SensorInv
<1>4. Asking'
  <2>1. flaky' \in Nat
    BY <1>1 DEF Answers, SensorInv, Asking
  <2>2. doing' = "detect" => Address' \in devs'
    BY <1>1 DEF Address, List
  <2>3. List' = List /\ Present(Port, Address)' = Present(Port, Address)
    BY <1>1 DEF Present, Port, Address, List
  <2> QED BY <1>1, <2>1, <2>2, <2>3 DEF SensorInv, Asking, Trying
<1>5. OnTime'
  <2> SUFFICES ASSUME NEW i \in 1..Len(StaticList), Due(i)'
               PROVE  doing' = "detect" /\ searches = Searches /\ entry <= i
    BY <1>1 DEF OnTime, NotYet, Trying
  <2>1. Due(i) /\ (Present(Port, Address) => heard)
    BY <1>1, DueStays DEF SensorInv, Asking
  <2>2. searches = Searches /\ entry <= i /\ devs = {} /\ Present(Port, Address)
    BY <1>1, <2>1 DEF SensorInv, OnTime, NotYet, Trying, Asking
  <2> QED BY <1>1, <2>1, <2>2
<1> QED BY <1>1, <1>3, <1>4, <1>5 DEF SensorInv

(***************************************************************************)
(* A detection installs the functions of the chip that answers, whichever  *)
(* type is tried, unless it is misled; and those of the chip that is due.  *)
(***************************************************************************)
LEMMA DetectStep ==
  ASSUME SensorInv, NEW heard \in BOOLEAN, Detect(heard)
  PROVE  SensorInv'
<1> DEFINE chip == card.chips[Port][Address]
           family == Family(Type, chip, Address)
<1>1. /\ doing = "detect"
      /\ IF Type = "adm1021" THEN heard /\ UNCHANGED flaky ELSE Answers(heard)
      /\ IF heard
         THEN /\ IF family = {} THEN NotThis ELSE \E f \in family : Install(f)
              /\ UNCHANGED garbled
         ELSE \/ NotThis /\ UNCHANGED garbled
              \/ \E f \in Careless(Type) : Install(f) /\ garbled' = TRUE
      /\ UNCHANGED <<card, searches, bus, devs, tempKeys, unlocked>>
  BY DEF Detect
<1>2. /\ searches # <<>> /\ List = StaticList /\ bus /\ Address \in devs /\ entry \in 1..Len(StaticList)
      /\ Present(Port, Address) /\ functions = "none" /\ sensor = NoSensor
  <2>1. /\ searches # <<>> /\ bus /\ Address \in devs /\ entry \in DOMAIN List
        /\ Present(Port, Address) /\ functions = "none" /\ sensor = NoSensor
    BY <1>1 DEF SensorInv, Asking, Trying, Installed, NotYet
  <2> QED BY <2>1, ListIsStatic, StaticListIs DEF SensorInv
<1>3. /\ flaky' \in Nat
      /\ \A i : Due(i)' => Due(i) /\ heard /\ FamilyAt(i)' = FamilyAt(i)
  <2>1. flaky \in Nat
    BY DEF SensorInv, Asking
  <2>2. CASE Type = "adm1021"
    BY <1>1, <2>1, <2>2, DueIsSame
  <2>3. CASE Type # "adm1021"
    BY <1>1, <1>2, <2>1, <2>3, DueStays DEF Answers, FamilyAt
  <2> QED BY <2>2, <2>3
<1> HIDE DEF chip, family
<1>4. CASE NotThis
  <2>1. doing' = "probe" /\ entry' = entry + 1 /\ functions' = functions /\ sensor' = sensor
    BY <1>4 DEF NotThis
  <2>2. Installed'
    BY <1>2, <2>1, NothingInstalled DEF SensorInv
  <2>3. Asking'
    BY <1>1, <1>2, <1>3, <2>1, StaticListIs DEF SensorInv, Asking, Trying
  <2>4. OnTime'
    <3> SUFFICES ASSUME NEW i \in 1..Len(StaticList), Due(i)' PROVE FALSE
      BY DEF OnTime
    <3>1. Due(i) /\ heard
      BY <1>3
    <3>2. entry = i /\ Port = card.ports[0]
      BY <1>1, <3>1, ItIsItsTurn
    <3>3. family = FamilyAt(i)
      BY <1>2, <3>2 DEF family, chip, FamilyAt, Type, Address
    <3>4. family = {}
      BY <1>1, <1>4, <3>1, <2>1 DEF Install
    <3> QED BY <3>1, <3>3, <3>4 DEF Due
  <2> QED BY <1>1, <2>2, <2>3, <2>4 DEF SensorInv
<1>5. ASSUME NEW f, Install(f), (f \in family /\ heard /\ UNCHANGED garbled) \/ (~heard /\ garbled' = TRUE)
      PROVE  SensorInv'
  <2>1. sensor' = [port |-> Port, addr |-> Address] /\ functions' = f /\ doing' = "found" /\ entry' = entry
    BY <1>5 DEF Install
  <2>2. Asking'
    BY <1>1, <1>2, <1>3, <2>1 DEF SensorInv, Asking, Trying
  <2>3. Installed'
    <3> SUFFICES ASSUME f # "none" PROVE Fits'
      BY <2>1 DEF Installed, NotYet, Trying
    <3>1. bus' /\ sensor'.addr \in devs'
      BY <1>1, <1>2, <2>1
    <3>2. card'.chips[sensor'.port][sensor'.addr] = chip
      BY <1>1, <2>1 DEF chip
    <3>3. garbled' \/ f \in MadeFor(chip.kind)
      BY <1>5, FamilyIsMadeFor DEF family
    <3> QED BY <2>1, <3>1, <3>2, <3>3 DEF Fits
  <2>4. OnTime'
    <3> SUFFICES ASSUME NEW i \in 1..Len(StaticList), Due(i)'
                 PROVE  sensor' = [port |-> card.ports[0], addr |-> StaticList[i][2]] /\ f \in FamilyAt(i)
      BY <1>1, <1>3, <2>1 DEF OnTime, NotYet, Trying
    <3>1. Due(i) /\ heard
      BY <1>3
    <3>2. entry = i /\ Port = card.ports[0]
      BY <1>1, <3>1, ItIsItsTurn
    <3>3. family = FamilyAt(i) /\ Address = StaticList[i][2]
      BY <1>2, <3>2 DEF family, chip, FamilyAt, Type, Address
    <3> QED BY <1>5, <2>1, <3>1, <3>2, <3>3
  <2> QED BY <1>1, <2>2, <2>3, <2>4 DEF SensorInv
<1>6. CASE heard
  BY <1>1, <1>4, <1>5, <1>6
<1>7. CASE ~heard
  <2>1. CASE \E f \in Careless(Type) : Install(f) /\ garbled' = TRUE
    BY <1>5, <1>7, <2>1
  <2> QED BY <1>1, <1>4, <1>7, <2>1
<1> QED BY <1>6, <1>7

(***************************************************************************)
(* Whichever chips a card has and whichever of them fail to answer, the    *)
(* functions that serve its keys are those of the chip they ask, over a    *)
(* bus that exists; and the first chip of the list is not overlooked.      *)
(***************************************************************************)
THEOREM SensorStaysFound == GeforceSpec => []SensorIsFound
<1>1. GeforceInit => SensorInv
  <2> SUFFICES ASSUME GeforceInit PROVE SensorInv
    OBVIOUS
  <2>1. card \in Cards /\ searches = Searches /\ doing = "external" /\ sensor = NoSensor /\ functions = "none"
        /\ unlocked = FALSE /\ flaky = 0
    BY DEF GeforceInit
  <2>2. Asking
    BY <2>1 DEF Asking, Trying
  <2>3. Installed
    BY <2>1 DEF Installed
  <2>4. OnTime
    BY <2>1 DEF OnTime, Trying
  <2> QED BY <2>1, <2>2, <2>3, <2>4 DEF SensorInv
<1>2. SensorInv /\ [GeforceNext]_geforceVars => SensorInv'
  <2> SUFFICES ASSUME SensorInv, [GeforceNext]_geforceVars PROVE SensorInv'
    OBVIOUS
  <2>1. CASE GeforceNext
    <3>1. CASE FindExternal \/ IdentifySensor \/ Found \/ NotFound \/ NoSearchLeft \/ RegisterTemperatures
      BY <3>1, FindExternalStep, IdentifySensorStep, RegisteringStep, NotFoundStep, NoSearchLeftStep
    <3>2. ASSUME NEW heard \in BOOLEAN, ProbeAddress(heard) \/ Create(heard) \/ Detect(heard)
          PROVE  SensorInv'
      BY <3>2, ProbeAddressStep, CreateStep, DetectStep
    <3> QED BY <2>1, <3>1, <3>2 DEF GeforceNext
  <2>2. CASE UNCHANGED geforceVars
    <3>1. UNCHANGED <<card, searches, entry, doing, bus, devs, sensor, functions, tempKeys, unlocked, flaky, garbled>>
      BY <2>2 DEF geforceVars
    <3>2. Asking'
      BY <3>1 DEF SensorInv, Asking, Trying, Present, Port, Address, List
    <3>3. Installed'
      BY <3>1 DEF SensorInv, Installed, NotYet, Trying, Fits, MadeFor, TempKinds
    <3>4. OnTime'
      BY <3>1, DueIsSame DEF SensorInv, OnTime, NotYet, Trying
    <3> QED BY <3>1, <3>2, <3>3, <3>4 DEF SensorInv
  <2> QED BY <2>1, <2>2
<1>3. SensorInv => SensorIsFound
  <2> SUFFICES ASSUME SensorInv, doing = "done" PROVE FunctionsFit /\ FirstIsFound
    BY DEF SensorIsFound, FunctionsFit, FirstIsFound
  <2>1. FunctionsFit
    BY DEF FunctionsFit, SensorInv, Asking, Trying, Installed, TempKinds, Fits
  <2>2. FirstIsFound
    <3> DEFINE p == card.ports[0]
               i == Met(p)
    <3> SUFFICES ASSUME flaky = 0, p # NoPort, Listed(p) # {},
                        NEW f \in FamilyAt(i)
                 PROVE  sensor = [port |-> p, addr |-> StaticList[i][2]] /\ functions = f
      BY DEF FirstIsFound, FamilyAt
    <3>1. i \in Listed(p) /\ \A j \in Listed(p) : i <= j
      <4>1. Listed(p) \subseteq 0..Len(StaticList)
        BY StaticListIs DEF Listed
      <4>2. \E x \in Listed(p) : \A y \in Listed(p) : x <= y
        BY <4>1, StaticListIs, LeastOf
      <4> QED BY <4>2 DEF Met
    <3> HIDE DEF i
    <3>2. i \in 1..Len(StaticList) /\ Due(i)
      BY <3>1 DEF Due, Listed
    <3>3. sensor = [port |-> p, addr |-> StaticList[i][2]] /\ functions \in FamilyAt(i)
      BY <3>2 DEF SensorInv, OnTime
    <3> QED BY <3>3, FamilyIsOne DEF FamilyAt
  <2> QED BY <2>1, <2>2
<1> QED BY <1>1, <1>2, <1>3, PTL DEF GeforceSpec

-----------------------------------------------------------------------------
(* The list of keys *)

Begun == dumping = "start" =>
  option = "help" /\ wanted = "#KEY" /\ keyTotal = -1 /\ printed = <<>> /\ dumpHistory.there = <<>> /\ dumpHistory.missed = {}

KeysOK ==
  /\ keyList \in Seq(SmcKeys)
  /\ Len(keyList) > 0 /\ keyList[1].name = "#KEY" /\ keyList[1].type = CountType
  /\ keyList[1].bytes = <<0, 0, 0, LastByte(Len(keyList))>>
  /\ \A i, j \in DOMAIN keyList : keyList[i].name = keyList[j].name => i = j

LateOK == lateLeft \in Seq(SmcKeys) /\ \A i \in DOMAIN lateLeft : lateLeft[i].name # "#KEY"

\* What is known of the key wanted still holds, unless it was set.
AskedOK ==
  dumping = "bytes" =>
    /\ wanted = "#KEY" => keyVal = [type |-> CountType, size |-> 4]
    /\ ~dumpHistory.torn =>
         IF IsThere(wanted) THEN /\ keyVal.type = keyList[PositionOf(wanted)].type
                                 /\ keyVal.size = Len(keyList[PositionOf(wanted)].bytes)
         ELSE keyVal = NoVal

PrintedOK ==
  /\ \E S : printed \in Seq(S)
  /\ \A i \in DOMAIN printed : ~printed[i].torn => printed[i].shows = printed[i].holds

HistoryOK ==
  /\ dumpHistory = [there |-> dumpHistory.there, missed |-> dumpHistory.missed, torn |-> dumpHistory.torn]
  /\ dumpHistory.torn \in BOOLEAN /\ (dumping # "bytes" => ~dumpHistory.torn)

Uncounted ==
  option = "list" /\ keyTotal = -1 =>
    /\ dumping \in {"info", "bytes", "closed"} /\ wanted = "#KEY"
    /\ printed = <<>> /\ dumpHistory.there = <<>> /\ dumpHistory.missed = {}

\* Of the first k keys there were, lines were printed in their order or they are out.
ListedTo(lines, k, there, out) ==
  /\ \A i \in DOMAIN lines : lines[i].name \notin out /\ \E a \in 1..k : there[a] = lines[i].name
  /\ \A a \in 1..k : there[a] \in out \/ \E i \in DOMAIN lines : lines[i].name = there[a]
  /\ \A name \in out : \E a \in 1..k : there[a] = name
  /\ \A i, j \in DOMAIN lines : i < j =>
       \E a, b \in 1..k : a < b /\ there[a] = lines[i].name /\ there[b] = lines[j].name

ListedSoFar ==
  option = "list" /\ keyTotal # -1 =>
    /\ dumping \in {"next", "info", "bytes", "closed"}
    /\ keyTotal \in 0..Len(keyList) /\ keyIndex \in 0..keyTotal
    /\ dumpHistory.there \in Seq(STRING) /\ keyTotal = LastByte(Len(dumpHistory.there))
    /\ \A a \in 1..keyTotal : dumpHistory.there[a] = keyList[a].name
    /\ dumping \in {"info", "bytes"} => keyIndex < keyTotal /\ wanted = dumpHistory.there[keyIndex + 1]
    /\ dumping = "closed" => keyIndex = keyTotal
    /\ ListedTo(printed, keyIndex, dumpHistory.there, dumpHistory.missed)

DumpInv == Begun /\ KeysOK /\ LateOK /\ AskedOK /\ PrintedOK /\ HistoryOK /\ Uncounted /\ ListedSoFar

(***************************************************************************)
(* A number of keys below 256 is its last byte.                            *)
(***************************************************************************)
LEMMA LastByteIs ==
  ASSUME NEW n \in Nat
  PROVE  LastByte(n) \in Nat /\ LastByte(n) <= n /\ (n < 256 => LastByte(n) = n)
BY DEF LastByte

(***************************************************************************)
(* A key keeps its name and its type when its value is set.                *)
(***************************************************************************)
LEMMA KeyIsSet ==
  ASSUME NEW k \in SmcKeys, NEW b \in Seq(Nat)
  PROVE  /\ [k EXCEPT !.bytes = b] \in SmcKeys
         /\ [k EXCEPT !.bytes = b].name = k.name /\ [k EXCEPT !.bytes = b].type = k.type
         /\ [k EXCEPT !.bytes = b].bytes = b
<1> DEFINE T == [kind : STRING, i : Nat, f : Nat]
<1>1. SmcKeys = [name : STRING, type : T, bytes : Seq(Nat)]
  BY DEF SmcKeys
<1> HIDE DEF T
<1> QED BY <1>1

(***************************************************************************)
(* The value of a key is bytes, its name a string.                         *)
(***************************************************************************)
LEMMA KeyHasBytes ==
  ASSUME NEW k \in SmcKeys
  PROVE  k.bytes \in Seq(Nat) /\ k.name \in STRING
<1> DEFINE T == [kind : STRING, i : Nat, f : Nat]
<1>1. SmcKeys = [name : STRING, type : T, bytes : Seq(Nat)]
  BY DEF SmcKeys
<1> HIDE DEF T
<1> QED BY <1>1

(***************************************************************************)
(* getKey finds the one key of a name.                                     *)
(***************************************************************************)
LEMMA PositionIs ==
  ASSUME KeysOK, NEW i \in DOMAIN keyList
  PROVE  PositionOf(keyList[i].name) = i /\ IsThere(keyList[i].name)
BY DEF KeysOK, PositionOf, IsThere

(***************************************************************************)
(* addKeyWithValue adds a key at the end or sets the one there is, and the *)
(* first key goes on holding their number.                                 *)
(***************************************************************************)
LEMMA AddKeyKeeps ==
  ASSUME KeysOK, NEW k \in SmcKeys, k.name # "#KEY", AddKey(k)
  PROVE  /\ KeysOK' /\ Len(keyList) <= Len(keyList')
         /\ \A i \in DOMAIN keyList : keyList'[i].name = keyList[i].name /\ keyList'[i].type = keyList[i].type
         /\ \A i \in DOMAIN keyList : keyList[i].name # k.name => Len(keyList'[i].bytes) = Len(keyList[i].bytes)
         /\ \A i \in DOMAIN keyList' \ DOMAIN keyList : keyList'[i].name = k.name
<1>0. k.bytes \in Seq(Nat) /\ Len(keyList) \in Nat /\ DOMAIN keyList = 1..Len(keyList)
      /\ \A i \in DOMAIN keyList : keyList[i] \in SmcKeys
  BY KeyHasBytes DEF KeysOK
<1>1. CASE IsThere(k.name)
  <2>1. PICK p \in DOMAIN keyList : keyList[p].name = k.name
    BY <1>1 DEF IsThere
  <2>2. PositionOf(k.name) = p /\ p # 1
    BY <2>1, PositionIs DEF KeysOK
  <2> DEFINE changed == [keyList[p] EXCEPT !.bytes = k.bytes]
  <2>3. changed \in SmcKeys /\ changed.name = keyList[p].name /\ changed.type = keyList[p].type
    BY <1>0, KeyIsSet
  <2>4. keyList' = [keyList EXCEPT ![p] = changed]
    BY <1>1, <2>2 DEF AddKey
  <2> HIDE DEF changed
  <2>5. keyList' \in Seq(SmcKeys) /\ Len(keyList') = Len(keyList) /\ DOMAIN keyList' = DOMAIN keyList
    BY <1>0, <2>3, <2>4 DEF KeysOK
  <2>6. keyList'[p] = changed /\ \A i \in DOMAIN keyList \ {p} : keyList'[i] = keyList[i]
    BY <2>4
  <2>7. \A i \in DOMAIN keyList : keyList'[i].name = keyList[i].name /\ keyList'[i].type = keyList[i].type
    BY <2>3, <2>6
  <2>8. keyList'[1] = keyList[1] /\ 1 \in DOMAIN keyList
    BY <1>0, <2>2, <2>6 DEF KeysOK
  <2>9. KeysOK'
    BY <2>5, <2>7, <2>8 DEF KeysOK
  <2> QED BY <1>0, <2>1, <2>5, <2>6, <2>7, <2>9
<1>2. CASE ~IsThere(k.name)
  <2> DEFINE n == Len(keyList)
             longer == Append(keyList, k)
             changed == [longer[1] EXCEPT !.bytes = <<0, 0, 0, LastByte(n + 1)>>]
  <2>1. longer \in Seq(SmcKeys) /\ Len(longer) = n + 1 /\ DOMAIN longer = 1..(n + 1)
        /\ (\A i \in 1..n : longer[i] = keyList[i]) /\ longer[n + 1] = k
    BY <1>0 DEF KeysOK
  <2>2. n >= 1 /\ longer[1] = keyList[1] /\ keyList[1] \in SmcKeys
    BY <1>0, <2>1 DEF KeysOK
  <2>3. <<0, 0, 0, LastByte(n + 1)>> \in Seq(Nat)
    <3>1. LastByte(n + 1) \in Nat
      BY <1>0, LastByteIs
    <3> QED BY <3>1
  <2>4. changed \in SmcKeys /\ changed.name = keyList[1].name /\ changed.type = keyList[1].type
        /\ changed.bytes = <<0, 0, 0, LastByte(n + 1)>>
    <3>1. changed = [keyList[1] EXCEPT !.bytes = <<0, 0, 0, LastByte(n + 1)>>]
      BY <2>2
    <3> HIDE DEF changed
    <3> QED BY <2>2, <2>3, <3>1, KeyIsSet
  <2>5. keyList' = [longer EXCEPT ![1] = changed]
    BY <1>2, <2>1 DEF AddKey, WithCount
  <2> HIDE DEF longer, changed
  <2>6. keyList' \in Seq(SmcKeys) /\ Len(keyList') = n + 1 /\ DOMAIN keyList' = 1..(n + 1)
    BY <2>1, <2>4, <2>5
  <2>7. keyList'[1] = changed /\ (\A i \in 2..n : keyList'[i] = keyList[i]) /\ keyList'[n + 1] = k
    BY <1>0, <2>1, <2>2, <2>5
  <2>8. \A i \in 1..n : keyList'[i].name = keyList[i].name /\ keyList'[i].type = keyList[i].type
    BY <1>0, <2>4, <2>7
  <2>9. \A i \in 1..n : keyList[i].name # k.name
    BY <1>0, <1>2 DEF IsThere
  <2>10. \A i, j \in 1..(n + 1) : keyList'[i].name = keyList'[j].name => i = j
    <3>1. \A i, j \in 1..n : keyList[i].name = keyList[j].name => i = j
      BY <1>0 DEF KeysOK
    <3>2. \A i \in 1..n : keyList'[i].name # keyList'[n + 1].name
      BY <2>7, <2>8, <2>9
    <3>3. \A i \in 1..(n + 1) : i \in 1..n \/ i = n + 1
      BY <1>0
    <3> QED BY <2>8, <3>1, <3>2, <3>3
  <2>11. KeysOK'
    BY <1>0, <2>2, <2>4, <2>6, <2>7, <2>10 DEF KeysOK
  <2>12. \A i \in 1..n : Len(keyList'[i].bytes) = Len(keyList[i].bytes)
    <3>1. Len(<<0, 0, 0, LastByte(n + 1)>>) = 4 /\ Len(<<0, 0, 0, LastByte(n)>>) = 4
      OBVIOUS
    <3>2. Len(keyList'[1].bytes) = Len(keyList[1].bytes)
      BY <2>4, <2>7, <3>1 DEF KeysOK
    <3> QED BY <1>0, <2>7, <3>2
  <2> QED BY <1>0, <2>6, <2>7, <2>8, <2>11, <2>12
<1> QED BY <1>1, <1>2

(***************************************************************************)
(* A key that could not be read is left out of the list ...                *)
(***************************************************************************)
LEMMA MissedIsListed ==
  ASSUME NEW lines, NEW k \in Nat, NEW there, NEW out, ListedTo(lines, k, there, out),
         \A a \in 1..k : there[a] # there[k + 1]
  PROVE  ListedTo(lines, k + 1, there, out \union {there[k + 1]})
<1>1. 1..k \subseteq 1..(k + 1) /\ k + 1 \in 1..(k + 1) /\ \A a \in 1..(k + 1) : a \in 1..k \/ a = k + 1
  OBVIOUS
<1> QED BY <1>1 DEF ListedTo

(***************************************************************************)
(* ... and one that was is printed after those before it.                  *)
(***************************************************************************)
LEMMA LongerIsListed ==
  ASSUME NEW lines, NEW longer, NEW n \in Nat, DOMAIN lines = 1..n, DOMAIN longer = 1..(n + 1),
         \A i \in 1..n : longer[i] = lines[i],
         NEW k \in Nat, NEW there, NEW out, ListedTo(lines, k, there, out),
         \A a \in 1..k : there[a] # there[k + 1], longer[n + 1].name = there[k + 1]
  PROVE  ListedTo(longer, k + 1, there, out)
<1>1. 1..k \subseteq 1..(k + 1) /\ k + 1 \in 1..(k + 1) /\ \A a \in 1..(k + 1) : a \in 1..k \/ a = k + 1
  OBVIOUS
<1>2. n \in Nat /\ DOMAIN lines = 1..n /\ DOMAIN longer = 1..(n + 1) /\ longer[n + 1].name = there[k + 1]
      /\ \A i \in 1..n : longer[i] = lines[i]
  OBVIOUS
<1>3. 1..n \subseteq 1..(n + 1) /\ n + 1 \in 1..(n + 1) /\ \A i \in 1..(n + 1) : i \in 1..n \/ i = n + 1
  BY <1>2
<1>4. ASSUME NEW i \in DOMAIN longer
      PROVE  longer[i].name \notin out /\ \E a \in 1..(k + 1) : there[a] = longer[i].name
  <2>1. CASE i \in 1..n
    BY <1>1, <1>2, <2>1 DEF ListedTo
  <2>2. CASE i = n + 1
    BY <1>1, <1>2, <2>2 DEF ListedTo
  <2> QED BY <1>2, <1>3, <2>1, <2>2
<1>5. \A a \in 1..(k + 1) : there[a] \in out \/ \E i \in DOMAIN longer : longer[i].name = there[a]
  BY <1>1, <1>2, <1>3 DEF ListedTo
<1>6. \A name \in out : \E a \in 1..(k + 1) : there[a] = name
  BY <1>1 DEF ListedTo
<1>7. ASSUME NEW i \in DOMAIN longer, NEW j \in DOMAIN longer, i < j
      PROVE  \E a, b \in 1..(k + 1) : a < b /\ there[a] = longer[i].name /\ there[b] = longer[j].name
  <2>1. i \in 1..n
    BY <1>2, <1>7
  <2>2. CASE j \in 1..n
    <3>0. i \in DOMAIN lines /\ j \in DOMAIN lines
      BY <1>2, <2>1, <2>2
    <3>1. PICK a, b \in 1..k : a < b /\ there[a] = lines[i].name /\ there[b] = lines[j].name
      BY <1>7, <3>0 DEF ListedTo
    <3> QED BY <1>1, <1>2, <2>1, <2>2, <3>1
  <2>3. CASE j = n + 1
    <3>1. PICK a \in 1..k : there[a] = lines[i].name
      BY <1>2, <2>1 DEF ListedTo
    <3>2. a < k + 1 /\ there[k + 1] = longer[j].name /\ there[a] = longer[i].name
      BY <1>2, <2>1, <2>3, <3>1
    <3> QED BY <1>1, <3>2
  <2> QED BY <1>2, <1>3, <2>2, <2>3
<1> QED BY <1>4, <1>5, <1>6, <1>7 DEF ListedTo

(***************************************************************************)
(* A line for the next key goes to the end of the list.                    *)
(***************************************************************************)
LEMMA PrintedIsListed ==
  ASSUME NEW S, NEW lines \in Seq(S), NEW k \in Nat, NEW there, NEW out, ListedTo(lines, k, there, out),
         \A a \in 1..k : there[a] # there[k + 1],
         NEW line, line.name = there[k + 1]
  PROVE  ListedTo(Append(lines, line), k + 1, there, out)
<1> DEFINE n == Len(lines)
           longer == Append(lines, line)
<1>1. n \in Nat /\ DOMAIN lines = 1..n /\ DOMAIN longer = 1..(n + 1) /\ longer[n + 1] = line
      /\ \A i \in 1..n : longer[i] = lines[i]
  OBVIOUS
<1> HIDE DEF longer, n
<1>2. ListedTo(longer, k + 1, there, out)
  BY <1>1, LongerIsListed
<1> QED BY <1>2 DEF longer

(***************************************************************************)
(* Of no keys none is listed; and the keys that are counted differ.        *)
(***************************************************************************)
LEMMA NothingListed ==
  ASSUME NEW there
  PROVE  ListedTo(<<>>, 0, there, {})
BY DEF ListedTo

(***************************************************************************)
(* The keys that were counted are distinct.                                *)
(***************************************************************************)
LEMMA ThereAreDistinct ==
  ASSUME KeysOK, ListedSoFar, option = "list", keyTotal # -1, keyIndex < keyTotal
  PROVE  /\ keyIndex \in Nat /\ keyTotal \in Nat
         /\ dumpHistory.there[keyIndex + 1] = keyList[keyIndex + 1].name
         /\ \A a \in 1..keyIndex : dumpHistory.there[a] # dumpHistory.there[keyIndex + 1]
<1>1. keyTotal \in 0..Len(keyList) /\ keyIndex \in 0..keyTotal /\ Len(keyList) \in Nat /\ DOMAIN keyList = 1..Len(keyList)
      /\ \A a \in 1..keyTotal : dumpHistory.there[a] = keyList[a].name
  BY DEF KeysOK, ListedSoFar
<1>2. \A i, j \in DOMAIN keyList : keyList[i].name = keyList[j].name => i = j
  BY DEF KeysOK
<1>3. keyIndex + 1 \in 1..keyTotal /\ 1..keyTotal \subseteq DOMAIN keyList
  BY <1>1
<1>4. \A a \in 1..keyIndex : a \in 1..keyTotal /\ a # keyIndex + 1
  BY <1>1
<1> QED BY <1>1, <1>2, <1>3, <1>4

(***************************************************************************)
(* The number of keys is decoded from the four bytes of its key.           *)
(***************************************************************************)
LEMMA NumberIsCount ==
  ASSUME NEW n \in Nat
  PROVE  Number(<<0, 0, 0, n>>, CountType) = n
<1>1. Len(<<0, 0, 0, n>>) = 4
  OBVIOUS
<1>2. CountType.kind = "ui" /\ CountType.i = 32
  BY DEF CountType, SmcType
<1>3. FromBig(<<0, 0, 0, n>>) = n
  BY <1>1 DEF FromBig
<1> HIDE DEF CountType
<1>4. decodeNumericValueFromBuffer(<<0, 0, 0, n>>, CountType) = n
  BY <1>1, <1>2, <1>3 DEF decodeNumericValueFromBuffer, isValidIntegerSmcType, isValidFloatingSmcType
<1> QED BY <1>4 DEF Number, Undecoded

(***************************************************************************)
(* What is shown depends on the type and the bytes only.                   *)
(***************************************************************************)
LEMMA ShownByTypeAndBytes ==
  ASSUME NEW v, NEW w, v.type = w.type, v.bytes = w.bytes
  PROVE  ValueShown(v) = ValueShown(w)
BY DEF ValueShown

(***************************************************************************)
(* The two calls together read what the key holds, unless it was set.      *)
(***************************************************************************)
LEMMA ReadingIsTrue ==
  ASSUME KeysOK, AskedOK, dumping = "bytes", NEW stale, NEW v, v = [type |-> keyVal.type, bytes |-> BytesRead(stale)]
  PROVE  /\ wanted = "#KEY" => v.type = CountType /\ v.bytes = <<0, 0, 0, LastByte(Len(keyList))>>
         /\ ~dumpHistory.torn => Line(v).shows = Line(v).holds
<1>0. v.type = keyVal.type /\ v.bytes = BytesRead(stale)
  OBVIOUS
<1>1. ASSUME NEW p \in DOMAIN keyList, wanted = keyList[p].name, keyVal.size = Len(keyList[p].bytes)
      PROVE  v.bytes = keyList[p].bytes
  <2>1. WantedBytes = keyList[p].bytes
    BY <1>1, PositionIs DEF WantedBytes
  <2>2. keyList[p].bytes \in Seq(Nat)
    BY <1>1, KeyHasBytes DEF KeysOK
  <2> DEFINE b == keyList[p].bytes
  <2>3. BytesRead(stale) = [i \in 1..Len(b) |-> b[i]]
    BY <1>1, <2>1 DEF BytesRead
  <2>4. b = [i \in 1..Len(b) |-> b[i]]
    BY <2>2
  <2> QED BY <1>0, <2>3, <2>4
<1>2. ASSUME wanted = "#KEY"
      PROVE  v.type = CountType /\ v.bytes = <<0, 0, 0, LastByte(Len(keyList))>>
  <2>1. 1 \in DOMAIN keyList /\ keyList[1].name = "#KEY" /\ keyList[1].bytes = <<0, 0, 0, LastByte(Len(keyList))>>
    BY DEF KeysOK
  <2>2. Len(<<0, 0, 0, LastByte(Len(keyList))>>) = 4
    OBVIOUS
  <2>3. keyVal.type = CountType /\ keyVal.size = 4
    BY <1>2 DEF AskedOK
  <2> QED BY <1>0, <1>1, <1>2, <2>1, <2>2, <2>3
<1>3. ASSUME ~dumpHistory.torn, IsThere(wanted)
      PROVE  Line(v).shows = Line(v).holds
  <2>1. PICK p \in DOMAIN keyList : keyList[p].name = wanted
    BY <1>3 DEF IsThere
  <2>2. PositionOf(wanted) = p
    BY <2>1, PositionIs
  <2>3. keyVal.type = keyList[p].type /\ keyVal.size = Len(keyList[p].bytes)
    BY <1>3, <2>2 DEF AskedOK
  <2>4. ValueShown(v) = ValueShown(keyList[p])
    BY <1>0, <1>1, <2>1, <2>3, ShownByTypeAndBytes
  <2> QED BY <1>3, <2>2, <2>4 DEF Line
<1>4. ASSUME ~dumpHistory.torn, ~IsThere(wanted)
      PROVE  Line(v).shows = Line(v).holds
  <2>0. keyVal = NoVal
    BY <1>4 DEF AskedOK
  <2>1. keyVal.size = 0
    BY <2>0 DEF NoVal
  <2>2. v.bytes = <<>>
    BY <1>0, <2>1 DEF BytesRead
  <2>3. ValueShown(v) = <<"no data">>
    BY <2>2 DEF ValueShown
  <2> QED BY <1>4, <2>3 DEF Line
<1> QED BY <1>2, <1>3, <1>4

(***************************************************************************)
(* A key that could not be read is missed; as many as were not counted     *)
(* are none.                                                               *)
(***************************************************************************)
LEMMA ReadFailsStep ==
  ASSUME DumpInv, dumping \in {"info", "bytes"}, ReadFails, UNCHANGED <<stock, keyList, lateLeft, option, wanted>>
  PROVE  DumpInv'
<1> DEFINE there == dumpHistory.there
           out == dumpHistory.missed
<1>1. KeysOK' /\ LateOK'
  BY DEF DumpInv, KeysOK, LateOK
<1>2. printed' = printed /\ PrintedOK'
  BY DEF DumpInv, PrintedOK, ReadFails, CountIs
<1>3. CASE Counting
  <2>1. keyTotal' = 0 /\ keyIndex' = 0 /\ dumping' = "next"
        /\ dumpHistory' = [there |-> <<>>, missed |-> out, torn |-> FALSE]
    BY <1>3 DEF ReadFails, CountIs, DumpInv, HistoryOK
  <2>2. printed = <<>> /\ out = {} /\ option = "list"
    BY <1>3 DEF Counting, DumpInv, Uncounted
  <2>3. ListedTo(<<>>, 0, <<>>, {})
    BY NothingListed
  <2>4. ListedSoFar'
    <3>1. 0 \in 0..Len(keyList')
      BY <1>1 DEF KeysOK
    <3>2. <<>> \in Seq(STRING) /\ 0 = LastByte(Len(<<>>))
      BY DEF LastByte
    <3> QED BY <1>2, <2>1, <2>2, <2>3, <3>1, <3>2 DEF ListedSoFar
  <2> QED BY <1>1, <1>2, <2>1, <2>4 DEF DumpInv, Begun, AskedOK, HistoryOK, Uncounted
<1>4. CASE ~Counting
  <2>1. keyTotal' = keyTotal /\ keyIndex' = keyIndex + 1 /\ dumping' = (IF option = "list" THEN "next" ELSE "closed")
        /\ dumpHistory' = [there |-> there, missed |-> out \union {wanted}, torn |-> FALSE]
    BY <1>4 DEF ReadFails, NextKey, DumpInv, HistoryOK
  <2>2. ListedSoFar'
    <3> SUFFICES ASSUME option = "list", keyTotal # -1 PROVE ListedSoFar'
      BY <2>1 DEF ListedSoFar
    <3>1. keyIndex < keyTotal /\ wanted = there[keyIndex + 1] /\ ListedTo(printed, keyIndex, there, out)
          /\ keyTotal \in 0..Len(keyList) /\ there \in Seq(STRING) /\ keyTotal = LastByte(Len(there)) /\ \A a \in 1..keyTotal : there[a] = keyList[a].name
      BY DEF DumpInv, ListedSoFar
    <3>2. keyIndex \in Nat /\ keyTotal \in Nat /\ \A a \in 1..keyIndex : there[a] # there[keyIndex + 1]
      BY <3>1, ThereAreDistinct DEF DumpInv
    <3>3. ListedTo(printed, keyIndex + 1, there, out \union {there[keyIndex + 1]})
      BY <3>1, <3>2, MissedIsListed
    <3>4. keyIndex + 1 \in 0..keyTotal
      BY <3>1, <3>2
    <3> QED BY <1>2, <2>1, <3>1, <3>3, <3>4 DEF ListedSoFar
  <2> QED BY <1>1, <1>2, <1>4, <2>1, <2>2 DEF DumpInv, Begun, AskedOK, HistoryOK, Uncounted, Counting
<1> QED BY <1>3, <1>4

(***************************************************************************)
(* A key that was read is printed, the number of keys begins the list.     *)
(***************************************************************************)
LEMMA ReadGivesStep ==
  ASSUME DumpInv, dumping = "bytes", NEW stale, NEW v, v = [type |-> keyVal.type, bytes |-> BytesRead(stale)],
         ReadGives(v), UNCHANGED <<stock, keyList, lateLeft, option, wanted>>
  PROVE  DumpInv'
<1> DEFINE there == dumpHistory.there
           out == dumpHistory.missed
<1>1. KeysOK' /\ LateOK'
  BY DEF DumpInv, KeysOK, LateOK
<1>2. /\ wanted = "#KEY" => v.type = CountType /\ v.bytes = <<0, 0, 0, LastByte(Len(keyList))>>
      /\ ~dumpHistory.torn => Line(v).shows = Line(v).holds
  BY ReadingIsTrue DEF DumpInv
<1>3. CASE Counting
  <2>1. printed = <<>> /\ out = {} /\ option = "list" /\ wanted = "#KEY" /\ Len(keyList) \in Nat /\ DOMAIN keyList = 1..Len(keyList)
    BY <1>3 DEF Counting, DumpInv, Uncounted, KeysOK
  <2>2. Number(v.bytes, v.type) = LastByte(Len(keyList))
    <3>1. LastByte(Len(keyList)) \in Nat
      BY <2>1, LastByteIs
    <3> QED BY <1>2, <2>1, <3>1, NumberIsCount
  <2>3. keyTotal' = LastByte(Len(keyList)) /\ keyIndex' = 0 /\ dumping' = "next" /\ printed' = printed
        /\ dumpHistory' = [there |-> NamesOf(keyList), missed |-> out, torn |-> FALSE]
    BY <1>3, <2>2 DEF ReadGives, CountIs, DumpInv, HistoryOK
  <2>4. ListedSoFar'
    <3>1. ListedTo(<<>>, 0, NamesOf(keyList), {})
      BY NothingListed
    <3>2. NamesOf(keyList) \in Seq(STRING) /\ Len(NamesOf(keyList)) = Len(keyList)
          /\ \A a \in 1..Len(keyList) : NamesOf(keyList)[a] = keyList[a].name
      <4>1. \A a \in 1..Len(keyList) : keyList[a].name \in STRING
        <5>1. \A a \in 1..Len(keyList) : keyList[a] \in SmcKeys
          BY <2>1 DEF DumpInv, KeysOK
        <5> QED BY <5>1, KeyHasBytes
      <4> QED BY <2>1, <4>1 DEF NamesOf
    <3>3. LastByte(Len(keyList)) \in 0..Len(keyList)
      BY <2>1, LastByteIs
    <3> QED BY <2>1, <2>3, <3>1, <3>2, <3>3 DEF ListedSoFar
  <2>5. PrintedOK'
    BY <2>3 DEF DumpInv, PrintedOK
  <2>6. keyTotal' # -1
    BY <2>1, <2>3, LastByteIs
  <2>7. Uncounted' /\ Begun' /\ AskedOK' /\ HistoryOK'
    BY <2>3, <2>6 DEF Begun, AskedOK, HistoryOK, Uncounted
  <2> QED BY <1>1, <2>4, <2>5, <2>7 DEF DumpInv
<1>4. CASE ~Counting
  <2>1. keyTotal' = keyTotal /\ keyIndex' = keyIndex + 1 /\ dumping' = (IF option = "list" THEN "next" ELSE "closed")
        /\ dumpHistory' = [there |-> there, missed |-> out, torn |-> FALSE]
        /\ printed' = Append(printed, Line(v))
    BY <1>4 DEF ReadGives, NextKey, DumpInv, HistoryOK
  <2>2. PICK S : printed \in Seq(S)
    BY DEF DumpInv, PrintedOK
  <2> DEFINE line == Line(v)
             n == Len(printed)
  <2>3. /\ printed' \in Seq(S \union {line}) /\ DOMAIN printed' = 1..(n + 1) /\ n \in Nat /\ DOMAIN printed = 1..n
        /\ (\A i \in 1..n : printed'[i] = printed[i]) /\ printed'[n + 1] = line
    <3>1. printed \in Seq(S \union {line}) /\ line \in S \union {line}
      BY <2>2
    <3> HIDE DEF line
    <3> QED BY <2>1, <3>1 DEF line
  <2>4. line.torn = dumpHistory.torn /\ line.name = wanted
    BY DEF Line
  <2> HIDE DEF line, n
  <2>5. PrintedOK'
    <3>1. ASSUME NEW i \in DOMAIN printed', ~printed'[i].torn
          PROVE  printed'[i].shows = printed'[i].holds
      <4>1. CASE i \in 1..n
        BY <2>3, <3>1, <4>1 DEF DumpInv, PrintedOK
      <4>2. CASE i = n + 1
        BY <1>2, <2>3, <2>4, <3>1, <4>2 DEF line
      <4> QED BY <2>3, <4>1, <4>2
    <3> QED BY <2>3, <3>1 DEF PrintedOK
  <2>6. ListedSoFar'
    <3> SUFFICES ASSUME option = "list", keyTotal # -1 PROVE ListedSoFar'
      BY <2>1 DEF ListedSoFar
    <3>1. keyIndex < keyTotal /\ wanted = there[keyIndex + 1] /\ ListedTo(printed, keyIndex, there, out)
          /\ keyTotal \in 0..Len(keyList) /\ there \in Seq(STRING) /\ keyTotal = LastByte(Len(there)) /\ \A a \in 1..keyTotal : there[a] = keyList[a].name
      BY DEF DumpInv, ListedSoFar
    <3>2. keyIndex \in Nat /\ keyTotal \in Nat /\ \A a \in 1..keyIndex : there[a] # there[keyIndex + 1]
      BY <3>1, ThereAreDistinct DEF DumpInv
    <3>3. ListedTo(Append(printed, line), keyIndex + 1, there, out)
      BY <2>2, <2>4, <3>1, <3>2, PrintedIsListed
    <3>4. keyIndex + 1 \in 0..keyTotal
      BY <3>1, <3>2
    <3> QED BY <2>1, <3>1, <3>3, <3>4 DEF ListedSoFar, line
  <2> QED BY <1>1, <1>4, <2>1, <2>5, <2>6 DEF DumpInv, Begun, AskedOK, HistoryOK, Uncounted, Counting
<1> QED BY <1>3, <1>4

(***************************************************************************)
(* A plug-in adds a key or sets one: what was asked for is torn by that    *)
(* only when it is the same, and the keys that were counted stay in place. *)
(***************************************************************************)
LEMMA PluginCallStep ==
  ASSUME DumpInv, PluginCall
  PROVE  DumpInv'
<1> DEFINE k == Head(lateLeft)
<1>1. lateLeft # <<>> /\ AddKey(k) /\ lateLeft' = Tail(lateLeft)
      /\ UNCHANGED <<stock, dumping, option, wanted, keyTotal, keyIndex, keyVal, printed>>
      /\ dumpHistory' = [there |-> dumpHistory.there, missed |-> dumpHistory.missed,
                         torn |-> (dumpHistory.torn \/ (dumping = "bytes" /\ k.name = wanted))]
  BY DEF PluginCall, program, DumpInv, HistoryOK
<1>2. k \in SmcKeys /\ k.name # "#KEY" /\ LateOK'
  <2>1. lateLeft \in Seq(SmcKeys) /\ 1 \in DOMAIN lateLeft /\ k = lateLeft[1]
    BY <1>1 DEF DumpInv, LateOK
  <2>2. lateLeft' \in Seq(SmcKeys) /\ \A i \in DOMAIN lateLeft' : i + 1 \in DOMAIN lateLeft /\ lateLeft'[i] = lateLeft[i + 1]
    BY <1>1, <2>1
  <2> QED BY <2>1, <2>2 DEF DumpInv, LateOK
<1> HIDE DEF k
<1>3. /\ KeysOK' /\ Len(keyList) <= Len(keyList')
      /\ \A i \in DOMAIN keyList : keyList'[i].name = keyList[i].name /\ keyList'[i].type = keyList[i].type
      /\ \A i \in DOMAIN keyList : keyList[i].name # k.name => Len(keyList'[i].bytes) = Len(keyList[i].bytes)
      /\ \A i \in DOMAIN keyList' \ DOMAIN keyList : keyList'[i].name = k.name
  BY <1>1, <1>2, AddKeyKeeps DEF DumpInv
<1>4. Len(keyList) \in Nat /\ Len(keyList') \in Nat /\ DOMAIN keyList = 1..Len(keyList) /\ DOMAIN keyList' = 1..Len(keyList')
  BY <1>3 DEF DumpInv, KeysOK
<1>5. AskedOK'
  <2> SUFFICES ASSUME dumping = "bytes", ~dumpHistory.torn, wanted # k.name
               PROVE  IF IsThere(wanted)' THEN /\ keyVal.type = keyList'[PositionOf(wanted)'].type
                                               /\ keyVal.size = Len(keyList'[PositionOf(wanted)'].bytes)
                      ELSE keyVal = NoVal
    BY <1>1 DEF AskedOK, DumpInv
  <2>1. CASE IsThere(wanted)
    <3>1. PICK p \in DOMAIN keyList : keyList[p].name = wanted
      BY <2>1 DEF IsThere
    <3>2. PositionOf(wanted) = p /\ keyVal.type = keyList[p].type /\ keyVal.size = Len(keyList[p].bytes)
      BY <2>1, <3>1, PositionIs DEF DumpInv, AskedOK
    <3>3. p \in DOMAIN keyList' /\ keyList'[p].name = wanted
      BY <1>3, <1>4, <3>1
    <3>4. PositionOf(wanted)' = p
      BY <1>1, <1>3, <3>3 DEF PositionOf, KeysOK
    <3>5. IsThere(wanted)'
      BY <1>1, <3>3 DEF IsThere
    <3>6. keyList'[p].type = keyList[p].type /\ Len(keyList'[p].bytes) = Len(keyList[p].bytes)
      BY <1>3, <3>1
    <3> QED BY <1>1, <3>2, <3>4, <3>5, <3>6
  <2>2. CASE ~IsThere(wanted)
    <3>1. keyVal = NoVal
      BY <2>2 DEF DumpInv, AskedOK
    <3>2. ~IsThere(wanted)'
      BY <1>1, <1>3, <2>2 DEF IsThere
    <3> QED BY <3>1, <3>2
  <2> QED BY <2>1, <2>2
<1>6. ListedSoFar'
  <2> SUFFICES ASSUME option = "list", keyTotal # -1 PROVE ListedSoFar'
    BY <1>1 DEF ListedSoFar
  <2>1. keyTotal \in 0..Len(keyList') /\ \A a \in 1..keyTotal : dumpHistory.there[a] = keyList'[a].name
    BY <1>3, <1>4 DEF DumpInv, ListedSoFar
  <2> QED BY <1>1, <2>1 DEF DumpInv, ListedSoFar
<1>7. Begun' /\ PrintedOK' /\ HistoryOK' /\ Uncounted'
  BY <1>1 DEF DumpInv, Begun, PrintedOK, HistoryOK, Uncounted
<1> QED BY <1>2, <1>3, <1>5, <1>6, <1>7 DEF DumpInv

(***************************************************************************)
(* The program's own steps between the calls.                              *)
(***************************************************************************)
LEMMA OpenDumperStep ==
  ASSUME DumpInv, OpenDumper
  PROVE  DumpInv'
<1>1. dumping = "start" /\ dumping' \in {"info", "closed"} /\ (option' = "list" => wanted' = "#KEY")
      /\ UNCHANGED <<stock, keyList, lateLeft, keyTotal, keyIndex, keyVal, printed, dumpHistory>>
  BY DEF OpenDumper
<1>2. KeysOK' /\ LateOK' /\ PrintedOK'
  BY <1>1 DEF DumpInv, KeysOK, LateOK, PrintedOK
<1> QED BY <1>1, <1>2 DEF DumpInv, Begun, AskedOK, HistoryOK, Uncounted, ListedSoFar

(***************************************************************************)
(* Type and size are those of the key wanted.                              *)
(***************************************************************************)
LEMMA AskKeyInfoStep ==
  ASSUME DumpInv, AskKeyInfo
  PROVE  DumpInv'
<1>1. dumping = "info" /\ UNCHANGED <<stock, keyList, lateLeft, option, wanted>>
  BY DEF AskKeyInfo
<1>2. CASE ReadFails
  BY <1>1, <1>2, ReadFailsStep
<1>3. ASSUME keyVal' = IF IsThere(wanted) THEN [type |-> keyList[PositionOf(wanted)].type,
                                                size |-> Len(keyList[PositionOf(wanted)].bytes)] ELSE NoVal,
             dumping' = "bytes", UNCHANGED <<keyTotal, keyIndex, printed, dumpHistory>>
      PROVE  DumpInv'
  <2>1. KeysOK' /\ LateOK' /\ PrintedOK'
    BY <1>1, <1>3 DEF DumpInv, KeysOK, LateOK, PrintedOK
  <2>2. AskedOK'
    <3>1. IsThere(wanted)' = IsThere(wanted) /\ PositionOf(wanted)' = PositionOf(wanted)
      BY <1>1 DEF IsThere, PositionOf
    <3>2. wanted = "#KEY" => keyVal' = [type |-> CountType, size |-> 4]
      <4>1. 1 \in DOMAIN keyList /\ keyList[1].name = "#KEY" /\ keyList[1].type = CountType
            /\ keyList[1].bytes = <<0, 0, 0, LastByte(Len(keyList))>>
        BY DEF DumpInv, KeysOK
      <4>2. PositionOf("#KEY") = 1 /\ IsThere("#KEY")
        BY <4>1, PositionIs DEF DumpInv
      <4>3. Len(<<0, 0, 0, LastByte(Len(keyList))>>) = 4
        OBVIOUS
      <4> QED BY <1>3, <4>1, <4>2, <4>3
    <3> QED BY <1>1, <1>3, <3>1, <3>2 DEF AskedOK
  <2> QED BY <1>1, <1>3, <2>1, <2>2 DEF DumpInv, Begun, HistoryOK, Uncounted, ListedSoFar
<1> QED BY <1>2, <1>3 DEF AskKeyInfo

(***************************************************************************)
(* The next name is that of a key that was counted, unless it is missed.   *)
(***************************************************************************)
LEMMA AskIndexStep ==
  ASSUME DumpInv, AskIndex
  PROVE  DumpInv'
<1> DEFINE there == dumpHistory.there
           out == dumpHistory.missed
<1>1. /\ dumping = "next" /\ keyIndex < keyTotal
      /\ UNCHANGED <<stock, keyList, lateLeft, option, keyTotal, keyVal, printed>>
      /\ \/ wanted' = KeyAt(keyIndex).name /\ dumping' = "info" /\ UNCHANGED <<keyIndex, dumpHistory>>
         \/ /\ keyIndex' = keyIndex + 1 /\ UNCHANGED <<wanted, dumping>>
            /\ dumpHistory' = [there |-> there, missed |-> out \union {KeyAt(keyIndex).name}, torn |-> dumpHistory.torn]
  BY DEF AskIndex, DumpInv, HistoryOK
<1>2. KeysOK' /\ LateOK' /\ PrintedOK' /\ Begun' /\ AskedOK' /\ HistoryOK'
  BY <1>1 DEF DumpInv, KeysOK, LateOK, PrintedOK, Begun, AskedOK, HistoryOK
<1>3. Uncounted'
  BY <1>1 DEF DumpInv, Uncounted
<1>4. ListedSoFar'
  <2> SUFFICES ASSUME option = "list", keyTotal # -1 PROVE ListedSoFar'
    BY <1>1 DEF ListedSoFar
  <2>1. ListedTo(printed, keyIndex, there, out)
        /\ keyTotal \in 0..Len(keyList) /\ there \in Seq(STRING) /\ keyTotal = LastByte(Len(there)) /\ \A a \in 1..keyTotal : there[a] = keyList[a].name
    BY DEF DumpInv, ListedSoFar
  <2>2. keyIndex \in Nat /\ keyTotal \in Nat /\ KeyAt(keyIndex).name = there[keyIndex + 1]
        /\ \A a \in 1..keyIndex : there[a] # there[keyIndex + 1]
    BY <1>1, ThereAreDistinct DEF DumpInv, KeyAt
  <2>3. CASE wanted' = KeyAt(keyIndex).name /\ dumping' = "info" /\ UNCHANGED <<keyIndex, dumpHistory>>
    BY <1>1, <2>1, <2>2, <2>3 DEF ListedSoFar
  <2>4. CASE /\ keyIndex' = keyIndex + 1 /\ UNCHANGED <<wanted, dumping>>
             /\ dumpHistory' = [there |-> there, missed |-> out \union {KeyAt(keyIndex).name}, torn |-> dumpHistory.torn]
    <3>1. ListedTo(printed, keyIndex + 1, there, out \union {there[keyIndex + 1]})
      BY <2>1, <2>2, MissedIsListed
    <3>2. keyIndex + 1 \in 0..keyTotal
      BY <1>1, <2>2
    <3> QED BY <1>1, <2>1, <2>2, <2>4, <3>1, <3>2 DEF ListedSoFar
  <2> QED BY <1>1, <2>3, <2>4
<1> QED BY <1>2, <1>3, <1>4 DEF DumpInv

(***************************************************************************)
(* The list ends when every index was asked for.                           *)
(***************************************************************************)
LEMMA CloseDumperStep ==
  ASSUME DumpInv, CloseDumper
  PROVE  DumpInv'
<1>1. dumping = "next" /\ keyIndex >= keyTotal /\ dumping' = "closed"
      /\ UNCHANGED <<stock, keyList, lateLeft, option, wanted, keyTotal, keyIndex, keyVal, printed, dumpHistory>>
  BY DEF CloseDumper
<1>2. KeysOK' /\ LateOK' /\ PrintedOK' /\ Begun' /\ AskedOK' /\ HistoryOK'
  BY <1>1 DEF DumpInv, KeysOK, LateOK, PrintedOK, Begun, AskedOK, HistoryOK
<1>3. Uncounted'
  BY <1>1 DEF DumpInv, Uncounted
<1>4. ListedSoFar'
  <2> SUFFICES ASSUME option = "list", keyTotal # -1 PROVE ListedSoFar'
    BY <1>1 DEF ListedSoFar
  <2>1. keyTotal \in 0..Len(keyList) /\ keyIndex \in 0..keyTotal /\ Len(keyList) \in Nat
    BY DEF DumpInv, ListedSoFar, KeysOK
  <2>2. keyIndex = keyTotal
    BY <1>1, <2>1
  <2> QED BY <1>1, <2>2 DEF DumpInv, ListedSoFar
<1> QED BY <1>2, <1>3, <1>4 DEF DumpInv

(***************************************************************************)
(* Whatever keys plug-ins add or set meanwhile and whichever calls fail, a *)
(* finished list has the keys there were when they were counted, in their  *)
(* order, but for those a call failed for, and shows what each held.       *)
(***************************************************************************)
THEOREM DumpStaysWhole == DumperSpec => []DumpIsWhole
<1>1. DumperInit => DumpInv
  <2> SUFFICES ASSUME DumperInit PROVE DumpInv
    OBVIOUS
  <2>1. /\ stock \in Stocks /\ keyList = WithCount(stock.keys) /\ lateLeft = stock.late
        /\ dumping = "start" /\ option = "help" /\ wanted = "#KEY" /\ keyTotal = -1 /\ printed = <<>>
        /\ dumpHistory = [there |-> <<>>, missed |-> {}, torn |-> FALSE]
    BY DEF DumperInit
  <2> DEFINE first == stock.keys
             n == Len(first)
             changed == [first[1] EXCEPT !.bytes = <<0, 0, 0, LastByte(n)>>]
  <2>2. /\ first \in Seq(SmcKeys) /\ stock.late \in Seq(SmcKeys) /\ first # <<>>
        /\ first[1].name = "#KEY" /\ first[1].type = CountType
        /\ \A i, j \in DOMAIN first : first[i].name = first[j].name => i = j
        /\ \A i \in DOMAIN stock.late : stock.late[i].name # "#KEY"
    BY <2>1, StocksAssumption
  <2>3. n \in Nat /\ n > 0 /\ DOMAIN first = 1..n /\ first[1] \in SmcKeys
    BY <2>2
  <2>4. changed \in SmcKeys /\ changed.name = "#KEY" /\ changed.type = CountType /\ changed.bytes = <<0, 0, 0, LastByte(n)>>
    <3>1. <<0, 0, 0, LastByte(n)>> \in Seq(Nat)
      BY <2>3, LastByteIs
    <3> QED BY <2>2, <2>3, <3>1, KeyIsSet
  <2>5. keyList = [first EXCEPT ![1] = changed]
    BY <2>1 DEF WithCount
  <2> HIDE DEF changed, first, n
  <2>6. keyList \in Seq(SmcKeys) /\ Len(keyList) = n /\ DOMAIN keyList = 1..n
    BY <2>2, <2>3, <2>4, <2>5 DEF n
  <2>7. keyList[1] = changed /\ \A i \in 1..n : i # 1 => keyList[i] = first[i]
    BY <2>3, <2>5
  <2>8. \A i \in 1..n : keyList[i].name = first[i].name
    BY <2>2, <2>4, <2>7
  <2>9. KeysOK
    BY <2>2, <2>3, <2>4, <2>6, <2>7, <2>8 DEF KeysOK
  <2>10. LateOK
    BY <2>1, <2>2 DEF LateOK
  <2>11. PrintedOK
    <3>1. <<>> \in Seq({})
      OBVIOUS
    <3> QED BY <2>1, <3>1 DEF PrintedOK
  <2> QED BY <2>1, <2>9, <2>10, <2>11 DEF DumpInv, Begun, AskedOK, HistoryOK, Uncounted, ListedSoFar
<1>2. DumpInv /\ [DumperNext]_dumperVars => DumpInv'
  <2> SUFFICES ASSUME DumpInv, [DumperNext]_dumperVars PROVE DumpInv'
    OBVIOUS
  <2>1. CASE AskBytes
    <3>1. dumping = "bytes" /\ UNCHANGED <<stock, keyList, lateLeft, option, wanted>>
      BY <2>1 DEF AskBytes
    <3>2. CASE ReadFails
      BY <3>1, <3>2, ReadFailsStep
    <3>3. CASE ~ReadFails
      <4>1. PICK stale \in {0, 255} : ReadGives([type |-> keyVal.type, bytes |-> BytesRead(stale)])
        BY <2>1, <3>3 DEF AskBytes
      <4> QED BY <3>1, <4>1, ReadGivesStep
    <3> QED BY <3>2, <3>3
  <2>2. CASE UNCHANGED dumperVars
    <3>1. UNCHANGED <<stock, keyList, lateLeft, dumping, option, wanted, keyTotal, keyIndex, keyVal, printed, dumpHistory>>
      BY <2>2 DEF dumperVars
    <3>2. KeysOK' /\ LateOK' /\ PrintedOK' /\ Begun' /\ HistoryOK'
      BY <3>1 DEF DumpInv, KeysOK, LateOK, PrintedOK, Begun, HistoryOK
    <3>3. AskedOK'
      BY <3>1 DEF DumpInv, AskedOK, IsThere, PositionOf
    <3> QED BY <3>1, <3>2, <3>3 DEF DumpInv, Uncounted, ListedSoFar
  <2> QED BY <2>1, <2>2, PluginCallStep, OpenDumperStep, AskKeyInfoStep, AskIndexStep, CloseDumperStep DEF DumperNext
<1>3. DumpInv => DumpIsWhole
  <2> SUFFICES ASSUME DumpInv, option = "list", dumping = "closed", Len(dumpHistory.there) < 256
               PROVE  LET there == dumpHistory.there
                      IN  /\ {printed[i].name : i \in DOMAIN printed} = {there[a] : a \in DOMAIN there} \ dumpHistory.missed
                          /\ \A i, j \in DOMAIN printed : i < j =>
                               /\ printed[i].name # printed[j].name
                               /\ \E a, b \in DOMAIN there :
                                    a < b /\ there[a] = printed[i].name /\ there[b] = printed[j].name
    BY DEF DumpIsWhole, DumpInv, PrintedOK
  <2>1. CASE keyTotal = -1
    BY <2>1 DEF DumpInv, Uncounted
  <2>2. CASE keyTotal # -1
    <3> DEFINE there == dumpHistory.there
               out == dumpHistory.missed
    <3>0. there \in Seq(STRING) /\ keyIndex = LastByte(Len(there))
      BY <2>2 DEF DumpInv, ListedSoFar
    <3>1. ListedTo(printed, keyIndex, there, out) /\ DOMAIN there = 1..keyIndex
          /\ keyIndex \in 0..Len(keyList) /\ \A a \in 1..keyIndex : there[a] = keyList[a].name
      <4>1. keyIndex = Len(there) /\ DOMAIN there = 1..Len(there)
        BY <3>0, LastByteIs
      <4>2. /\ ListedTo(printed, keyIndex, there, out) /\ keyIndex = keyTotal /\ keyTotal \in 0..Len(keyList)
            /\ \A a \in 1..keyTotal : there[a] = keyList[a].name
        BY <2>2 DEF DumpInv, ListedSoFar
      <4> QED BY <4>1, <4>2
    <3>2. \A a, b \in 1..keyIndex : a < b => there[a] # there[b]
      <4>1. Len(keyList) \in Nat /\ DOMAIN keyList = 1..Len(keyList)
            /\ \A i, j \in DOMAIN keyList : keyList[i].name = keyList[j].name => i = j
        BY DEF DumpInv, KeysOK
      <4>2. 1..keyIndex \subseteq DOMAIN keyList
        BY <3>1, <4>1
      <4> QED BY <3>1, <4>1, <4>2
    <3>3. {printed[i].name : i \in DOMAIN printed} = {there[a] : a \in DOMAIN there} \ out
      <4>1. \A i \in DOMAIN printed : printed[i].name \notin out /\ \E a \in DOMAIN there : there[a] = printed[i].name
        BY <3>1 DEF ListedTo
      <4>2. \A a \in DOMAIN there : there[a] \in out \/ \E i \in DOMAIN printed : printed[i].name = there[a]
        BY <3>1 DEF ListedTo
      <4> QED BY <4>1, <4>2
    <3>4. ASSUME NEW i \in DOMAIN printed, NEW j \in DOMAIN printed, i < j
          PROVE  /\ printed[i].name # printed[j].name
                 /\ \E a, b \in DOMAIN there : a < b /\ there[a] = printed[i].name /\ there[b] = printed[j].name
      <4>1. PICK a, b \in 1..keyIndex : a < b /\ there[a] = printed[i].name /\ there[b] = printed[j].name
        BY <3>1, <3>4 DEF ListedTo
      <4>2. there[a] # there[b]
        BY <3>2, <4>1
      <4> QED BY <3>1, <4>1, <4>2
    <3> QED BY <3>3, <3>4
  <2> QED BY <2>1, <2>2
<1> QED BY <1>1, <1>2, <1>3, PTL DEF DumperSpec
=============================================================================
