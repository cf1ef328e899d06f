------------------------------- MODULE SMCHost -------------------------------
(***************************************************************************)
(* A FakeSMCDevice driven by a host that follows the port protocol: it     *)
(* writes a command, spells a name or an index, sends the payload bytes    *)
(* when the status register accepts them, reads bytes while the status is  *)
(* "data ready", and collects the error register at the end.  It may give  *)
(* a request up between any two port accesses and start another.           *)
(*                                                                         *)
(* The host driver (AppleSMC) is not in the repository: it is modelled     *)
(* from the sequence of accesses the port handlers answer.                 *)
(***************************************************************************)
EXTENDS FakeSMCDevice

CONSTANTS
  Requests,     (* requests the host makes: [op, spell, payload]            *)
  MaxDataLen,   (* APPLESMC_MAX_DATA_LENGTH: bytes it transfers at most     *)
  MaxAborts     (* bound on requests given up, for TLC                      *)

\* A request: the command, the NameLen bytes of a name or of an index, and what
\* follows them: <<length>> to read, <<length>> \o data to write.
Request ==
  [op : {"READ"}, spell : Name, payload : [1..1 -> 1..MaxDataLen]] \cup
  (UNION {[op : {"WRITE"}, spell : {n \in Name : n[1] # 0},
           payload : {p \in [1..(len + 1) -> Byte] : p[1] = len}] : len \in 1..MaxDataLen}) \cup
  [op : {"INDEX", "TYPE"}, spell : Name, payload : {<< >>}]

\* The bytes of a request of the largest size, with its header, do not wrap the
\* position counter.
ASSUME HostAssumption ==
  /\ Requests \subseteq Request
  /\ MaxDataLen \in 1..ByteMax
  /\ MaxDataLen + NameLen + 1 <= PosMod
  /\ MaxAborts \in Nat

VARIABLES
  request,   (* the request in progress, or NoRequest                       *)
  sent,      (* bytes of it written to the data port                        *)
  received,  (* bytes read from the data port                               *)
  outcome,   (* what the host made of its last finished request             *)
  aborts     (* requests given up so far                                    *)

hostVars == <<request, sent, received, outcome, aborts>>
allVars == <<vars, hostVars>>

NoRequest == [ok |-> TRUE, data |-> << >>]

Message(q) == q.spell \o q.payload

AllSent == sent = Len(Message(request))

-----------------------------------------------------------------------------
Ask(q) ==
  /\ CmdWrite(q.op)
  /\ aborts < MaxAborts \/ request = NoRequest
  /\ aborts' = IF request = NoRequest THEN aborts ELSE aborts + 1
  /\ request' = q
  /\ sent' = 0
  /\ received' = << >>
  /\ UNCHANGED outcome

\* The status tells the device takes a byte.
TakesByte ==
  \/ status \in {CmdAccepted, ByteAccepted}
  \/ request.op = "WRITE" /\ status = DataReady

Send ==
  /\ request # NoRequest
  /\ ~AllSent
  /\ TakesByte
  /\ DataWrite(Message(request)[sent + 1])
  /\ sent' = sent + 1
  /\ UNCHANGED <<request, received, outcome, aborts>>

Receive ==
  /\ request # NoRequest
  /\ AllSent
  /\ status = DataReady
  /\ \E b \in Byte : DataRead(b) /\ received' = Append(received, b)
  /\ UNCHANGED <<request, sent, outcome, aborts>>

Finish ==
  /\ request # NoRequest
  /\ AllSent
  /\ status = Done
  /\ ErrorRead(status_1e)
  /\ outcome' = IF status_1e = NoError THEN [ok |-> TRUE, data |-> received]
                                       ELSE [ok |-> FALSE, data |-> << >>]
  /\ request' = NoRequest
  /\ sent' = 0
  /\ received' = << >>
  /\ UNCHANGED aborts

-----------------------------------------------------------------------------
HostInit ==
  /\ DeviceInit
  /\ request = NoRequest
  /\ sent = 0
  /\ received = << >>
  /\ outcome = NoRequest
  /\ aborts = 0

Access == Send \/ Receive \/ Finish

\* What user space reads does to the keys, GetKeyValue does as well: UserStep is
\* left out here.
HostNext ==
  \/ \E q \in Requests : Ask(q)
  \/ Access
  \/ PluginStep /\ UNCHANGED hostVars

HostSpec == HostInit /\ [][HostNext]_allVars

\* The driver goes on with a request it does not give up.
FairHostSpec == HostSpec /\ WF_allVars(Access)

-----------------------------------------------------------------------------
(* The service the host sees *)

\* The index the first p bytes of a spelling stand for.
IndexBy[p \in 0..NameLen] ==
  [s \in Name |-> IF p = 0 THEN 0 ELSE IndexBy[p - 1][s] + s[p] * Shift[p - 1]]

\* Bytes of the reply the device still holds.
Rest ==
  CASE request.op = "READ"  -> SubSeq(value, data_pos + 1, data_len)
    [] request.op = "TYPE"  -> SubSeq(key_info, data_pos + 1, InfoLen)
    [] request.op = "INDEX" -> SubSeq(key, data_pos + 1, NameLen)
    [] request.op = "WRITE" -> << >>

Answered == request # NoRequest /\ AllSent

EntryOf(k) ==
  [name |-> k.name, type |-> k.type, value |-> k.value, served |-> k.handler # NoHandler]

EntriesOf(ks) == [i \in DOMAIN ks |-> EntryOf(ks[i])]

Phase == IF request = NoRequest THEN "idle" ELSE IF AllSent THEN "answered" ELSE "asked"

Reply ==
  IF ~Answered THEN NoRequest
  ELSE IF status_1e # NoError THEN [ok |-> FALSE, data |-> << >>]
  ELSE [ok |-> TRUE, data |-> received \o Rest]

Service == INSTANCE SMCService WITH
  Position <- IndexBy[NameLen],
  SpellOf <- [n \in Name |-> CopySymbol(n)],
  TypeOf <- [n \in 1..ByteMax |-> CopySymbol(DefaultType[n])],
  CountOf <- [n \in 1..(MaxKeys + 1) |-> SharpValue(n)],
  entries <- EntriesOf(keys),
  phase <- Phase,
  reply <- Reply,
  failed <- status_1e # NoError

\* Driven byte by byte, and with plug-ins changing keys between the bytes, the
\* device is an SMC service: a read returns bytes of one value the key had, a
\* write lands whole, an answer marked good is good and a failed look-up is
\* reported.
IsAService == Service!ServiceSpec

-----------------------------------------------------------------------------
\* A request acts on the keys in one access, the one that sends its last byte:
\* what was sent of a request that is given up leaves no trace in any key.
RequestsActOnce ==
  [][(keys' # keys /\ sent' # sent) => sent' = Len(Message(request))]_allVars

\* A host that waits for "data ready" reads within the bytes of the answer.
ReadsWithinBuffers ==
  (request # NoRequest /\ AllSent /\ status = DataReady) =>
    data_pos < (CASE cmd = "INDEX" -> NameLen [] cmd = "TYPE" -> InfoLen [] OTHER -> data_len)

\* Every request ends when the host gives up only finitely often.
RequestsEnd == []<>(request = NoRequest)
=============================================================================
