--------------------------- MODULE FanRegistration ---------------------------
(***************************************************************************)
(* How plug-ins register fans: addTachometer reads the number of fans from *)
(* the key FNum, serves the speed key of that number, may describe it in   *)
(* an id key, and writes the number plus one back.  Super I/O drivers, the *)
(* SMI, ACPI and GeForce monitors all hold a copy of it, they start on     *)
(* threads of their own, and each of its calls is a step here: nothing     *)
(* holds the calls of one registration together.                           *)
(*                                                                         *)
(* A handler is one plug-in object.  A plug-in that is stopped and started *)
(* again comes back as another object.                                     *)
(***************************************************************************)
EXTENDS SMCKeys

CONSTANTS
  FNum,       (* the name "FNum"                                            *)
  FanKey,     (* speed keys by number: "F%XAc"                              *)
  FanId,      (* id keys by number: "F%XID"                                 *)
  FanSpeed,   (* type and size of a speed key: "fpe2", 2                    *)
  FanDesc,    (* type and value of an id key: "{fds", a FanTypeDescStruct   *)
  Listing,    (* plug-ins that list their sensors: the Super I/O drivers    *)
  MaxTachs    (* bound on the fans one plug-in finds                        *)

SpelledOut == {n \in Name : \A p \in 1..NameLen : n[p] # 0}

ASSUME FanAssumption ==
  /\ FNum \in SpelledOut
  /\ FanKey \in [Byte -> SpelledOut] /\ FanId \in [Byte -> SpelledOut]
  /\ \A k, l \in Byte : /\ FanKey[k] # FNum /\ FanId[k] # FNum /\ FanKey[k] # FanId[l]
                        /\ FanKey[k] = FanKey[l] => k = l
  /\ SharpName \notin {FNum} \cup {FanKey[k] : k \in Byte} \cup {FanId[k] : k \in Byte}
  /\ FanSpeed \in [type : Name, size : 1..ByteMax]
  /\ FanDesc \in [type : Name, value : Value]
  /\ Listing \subseteq Handlers
  /\ MaxTachs \in Nat

VARIABLES
  pc,         (* where plug-in p is in addTachometer, or "stopped"          *)
  length,     (* its local variable: the number it read                     *)
  sensors,    (* names in its list of sensors                               *)
  tachs,      (* fans it has tried to add                                   *)
  added,      (* history: numbers of the fans whose addition it completed   *)
  overlapped  (* history: two calls of addTachometer were once interleaved  *)

fanVars == <<keyVars, pc, length, sensors, tachs, added, overlapped>>

Steps == {"read", "listed", "served", "described"}

Adding(p) == pc[p] \in Steps

FanCount == keys[IndexOf(FNum)].value[1]

-----------------------------------------------------------------------------
FanInit ==
  /\ keys = << [name |-> SharpName, type |-> SharpType,
                value |-> SharpValue(2), handler |-> NoHandler],
               [name |-> FNum, type |-> DefaultType[1],
                value |-> <<0>>, handler |-> NoHandler] >>
  /\ values = << >>
  /\ pc = [p \in Handlers |-> "idle"]
  /\ length = [p \in Handlers |-> 0]
  /\ sensors = [p \in Handlers |-> {}]
  /\ tachs = [p \in Handlers |-> 0]
  /\ added = [p \in Handlers |-> {}]
  /\ overlapped = FALSE

\* GetKeyValue hands out the buffer of FNum, from which one byte is copied.
ReadFNum(p) ==
  /\ pc[p] = "idle" /\ tachs[p] < MaxTachs
  /\ HasKey(FNum)
  /\ length' = [length EXCEPT ![p] = FanCount]
  /\ pc' = [pc EXCEPT ![p] = "read"]
  /\ tachs' = [tachs EXCEPT ![p] = @ + 1]
  /\ overlapped' = (overlapped \/ \E q \in Handlers : Adding(q))
  /\ UNCHANGED <<keyVars, sensors, added>>

\* A sensor already listed ends the call.
Refuses(p) == p \in Listing /\ FanKey[length[p]] \in sensors[p]

GiveUp(p) ==
  /\ pc[p] = "read" /\ Refuses(p)
  /\ pc' = [pc EXCEPT ![p] = "idle"]
  /\ UNCHANGED <<keyVars, length, sensors, tachs, added, overlapped>>

Listed(p) == IF p \in Listing THEN sensors[p] \cup {FanKey[length[p]]} ELSE sensors[p]

ListFan(p) ==
  /\ pc[p] = "read" /\ ~Refuses(p)
  /\ sensors' = [sensors EXCEPT ![p] = Listed(p)]
  /\ pc' = [pc EXCEPT ![p] = "listed"]
  /\ UNCHANGED <<keyVars, length, tachs, added, overlapped>>

NextNumber_Twice(p) == (length[p] + 2) % (ByteMax + 1)

\* What length++ leaves in a UInt8.
NextNumber(p) == (length[p] + 1) % (ByteMax + 1)

Served_Next(p) == FanKey[NextNumber(p)]

Served(p) == FanKey[length[p]]

ServeFan(p) ==
  /\ pc[p] = "listed"
  /\ AddKeyHandler(Served(p), FanSpeed.type, FanSpeed.size, p)
  /\ pc' = [pc EXCEPT ![p] = "served"]
  /\ UNCHANGED <<length, sensors, tachs, added, overlapped>>

\* A fan without an id gets no id key.
DescribeFan(p) ==
  /\ pc[p] = "served"
  /\ \/ AddKeyValue(FanId[length[p]], FanDesc.type, FanDesc.value)
     \/ UNCHANGED keyVars
  /\ pc' = [pc EXCEPT ![p] = "described"]
  /\ UNCHANGED <<length, sensors, tachs, added, overlapped>>

WriteFNum(p) ==
  /\ pc[p] = "described"
  /\ SetKeyValue(FNum, <<NextNumber(p)>>)
  /\ pc' = [pc EXCEPT ![p] = "idle"]
  /\ added' = [added EXCEPT ![p] = @ \cup {length[p]}]
  /\ UNCHANGED <<length, sensors, tachs, overlapped>>

\* stop: the handler is taken off its keys before the object goes.
Stop(p) ==
  /\ pc[p] = "idle"
  /\ RemoveKeyHandler(p)
  /\ pc' = [pc EXCEPT ![p] = "stopped"]
  /\ sensors' = [sensors EXCEPT ![p] = {}]
  /\ UNCHANGED <<length, tachs, added, overlapped>>

FanStep(p) ==
  \/ ReadFNum(p)
  \/ GiveUp(p)
  \/ ListFan(p)
  \/ ServeFan(p)
  \/ DescribeFan(p)
  \/ WriteFNum(p)
  \/ Stop(p)

FanNext == \E p \in Handlers : FanStep(p)

FanSpec == FanInit /\ [][FanNext]_fanVars

-----------------------------------------------------------------------------
\* Every fan FNum counts has a speed key, at every moment of every interleaving
\* of registrations: a client that shows FNum fans finds them all.
FansCountedExist == HasKey(FNum) => \A k \in Byte : k < FanCount => HasKey(FanKey[k])

\* Until two registrations overlap, a fan that was added keeps its number: it
\* is counted and its speed key is served by the plug-in that added it.  (When
\* they overlap, both may take the same number and one fan is lost.)
FansKeptApart ==
  ~overlapped =>
    \A p \in Handlers : \A k \in added[p] :
      k < FanCount /\ keys[IndexOf(FanKey[k])].handler = p

\* After stop no key calls into the plug-in any more.
NoDanglingHandler ==
  \A i \in DOMAIN keys : \A p \in Handlers : pc[p] = "stopped" => keys[i].handler # p
=============================================================================
