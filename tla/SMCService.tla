------------------------------ MODULE SMCService ------------------------------
(***************************************************************************)
(* What an SMC promises to a host, with no ports and no bytes in flight:   *)
(* a request is carried out in one step between being asked and being      *)
(* answered, and its reply does not change afterwards, whatever plug-ins   *)
(* do to the keys in the meantime.                                         *)
(*                                                                         *)
(* A host may abandon a request by asking another.  A failure is latched:  *)
(* it marks every reply as failed until one reply has been taken.          *)
(***************************************************************************)
EXTENDS Integers, Sequences

CONSTANTS
  Requests,     (* what the host may ask: [op, spell, payload]              *)
  Position,     (* the index a spelling stands for                          *)
  SpellOf,      (* the name a new key gets                                  *)
  TypeOf,       (* the type of a new key, by the size of its value          *)
  CountOf       (* the bytes that tell a number of keys                     *)

VARIABLES
  entries,   (* sequence of [name, type, value, served]; the first counts   *)
  phase,     (* "idle", "asked" or "answered"                               *)
  request,   (* the request being served                                    *)
  reply,     (* its reply                                                   *)
  outcome,   (* the reply last taken                                        *)
  failed     (* the latched failure                                         *)

serviceVars == <<entries, phase, request, reply, outcome, failed>>

Nothing == [ok |-> TRUE, data |-> << >>]
Failure == [ok |-> FALSE, data |-> << >>]

Known(n) == \E i \in DOMAIN entries : entries[i].name = n
Entry(n) == CHOOSE i \in DOMAIN entries :
              entries[i].name = n /\ \A j \in 1..(i - 1) : entries[j].name # n

\* Replies that carry d, or the failure when one is latched.
Answer(d) == reply' = IF failed THEN Failure ELSE [ok |-> TRUE, data |-> d]

Fail ==
  /\ reply' = Failure
  /\ failed' = TRUE
  /\ UNCHANGED entries

\* The entries are now es, but that entry i, if a plug-in serves it, may show a
\* fresh value.
Measured(es, i) ==
  /\ DOMAIN entries' = DOMAIN es
  /\ entries' = [es EXCEPT ![i].value = entries'[i].value]
  /\ Len(entries'[i].value) = Len(es[i].value)
  /\ es[i].served \/ entries'[i].value = es[i].value

\* The first bytes of the value, as many as were asked; of bytes asked beyond
\* the value nothing is promised.
Agrees(d, n, v) ==
  /\ Len(d) = n
  /\ \A p \in 1..n : p <= Len(v) => d[p] = v[p]

Read ==
  /\ request.op = "READ"
  /\ IF Known(request.spell)
     THEN LET i == Entry(request.spell)
          IN  /\ Measured(entries, i)
              /\ IF failed THEN reply' = Failure
                 ELSE /\ reply'.ok
                      /\ Agrees(reply'.data, request.payload[1], entries'[i].value)
              /\ UNCHANGED failed
     ELSE Fail

Stored(data) ==
  IF Known(request.spell)
  THEN [entries EXCEPT ![Entry(request.spell)].value = data]
  ELSE [Append(entries, [name |-> SpellOf[request.spell], type |-> TypeOf[Len(data)],
                         value |-> data, served |-> FALSE])
          EXCEPT ![1].value = CountOf[Len(entries) + 1]]

\* All bytes of the data, at once.
Write ==
  /\ request.op = "WRITE"
  /\ LET es == Stored(Tail(request.payload))
     IN  Measured(es, IF Known(request.spell) THEN Entry(request.spell) ELSE Len(es))
  /\ Answer(<< >>)
  /\ UNCHANGED failed

NameAt ==
  /\ request.op = "INDEX"
  /\ LET i == Position[request.spell] + 1
     IN  IF i \in DOMAIN entries
         THEN Answer(entries[i].name) /\ UNCHANGED <<entries, failed>>
         ELSE Fail

Info ==
  /\ request.op = "TYPE"
  /\ IF Known(request.spell)
     THEN LET e == entries[Entry(request.spell)]
          IN  /\ Answer(<<Len(e.value)>> \o e.type \o <<0>>)
              /\ UNCHANGED <<entries, failed>>
     ELSE Fail

-----------------------------------------------------------------------------
ServiceInit ==
  /\ Len(entries) = 1
  /\ phase = "idle"
  /\ request = Nothing
  /\ reply = Nothing
  /\ outcome = Nothing
  /\ failed = FALSE

Ask ==
  /\ request' \in Requests
  /\ phase' = "asked"
  /\ reply' = Nothing
  /\ UNCHANGED <<entries, outcome, failed>>

Act ==
  /\ phase = "asked"
  /\ phase' = "answered"
  /\ Read \/ Write \/ NameAt \/ Info
  /\ UNCHANGED <<request, outcome>>

Take ==
  /\ phase = "answered"
  /\ phase' = "idle"
  /\ outcome' = reply
  /\ reply' = Nothing
  /\ request' = Nothing
  /\ failed' = FALSE
  /\ UNCHANGED entries

\* Plug-ins set values, serve keys and add keys; they rename and remove none.
PluginsChange ==
  /\ \A i \in DOMAIN entries :
       /\ i \in DOMAIN entries'
       /\ entries'[i].name = entries[i].name
       /\ entries'[i].type = entries[i].type
  /\ UNCHANGED <<phase, request, reply, outcome, failed>>

ServiceNext == Ask \/ Act \/ Take \/ PluginsChange

ServiceSpec == ServiceInit /\ [][ServiceNext]_serviceVars
=============================================================================
