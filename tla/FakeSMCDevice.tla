---------------------------- MODULE FakeSMCDevice ----------------------------
(***************************************************************************)
(* The SMC ports of a FakeSMCDevice: the AppleSMCStatus automaton driven   *)
(* one byte at a time through the data port 0x300, the command port 0x304  *)
(* and the error port 0x31e, on top of the key store of module SMCKeys.    *)
(*                                                                         *)
(* The host of this module is arbitrary: it may write any byte to any port *)
(* and read any port at any time.  A host that follows the protocol is     *)
(* module SMCHost.                                                         *)
(***************************************************************************)
EXTENDS SMCKeys

CONSTANTS
  PosMod,       (* read_pos is a uint8_t: it counts modulo PosMod, 256      *)
  Shift,        (* weight of byte p of an index: 2^(24 - 8 * p) in the code *)
  HostBytes,    (* bytes the host writes                                    *)
  HostCmds,     (* commands it writes                                       *)
  HasNvram,     (* init found an IODTNVRAM at /options                      *)
  OtherCmd      (* a command byte that is none of the four                  *)

\* Bytes of key_info: the size, the type, one flag byte.
InfoLen == NameLen + 2

ASSUME PortAssumption ==
  /\ PosMod \in Nat /\ PosMod > NameLen + 1
  /\ InfoLen <= ByteMax
  /\ HasNvram \in BOOLEAN
  /\ Shift \in [0..(NameLen - 1) -> Nat]
  /\ HostBytes \subseteq Byte
  /\ OtherCmd \notin {"READ", "WRITE", "INDEX", "TYPE"}
  /\ HostCmds \subseteq {"READ", "WRITE", "INDEX", "TYPE", OtherCmd}

Cmd == {"READ", "WRITE", "INDEX", "TYPE", OtherCmd}

\* Values of the status register: 0x0c, 0x04, 0x05 and 0x00.
CmdAccepted == "0c"
ByteAccepted == "04"
DataReady == "05"
Done == "00"
Status == {CmdAccepted, ByteAccepted, DataReady, Done}

\* Values of the error register status_1e.
NoError == "00"
KeyNotFound == "84"
IndexNotFound == "b8"
Error == {NoError, KeyNotFound, IndexNotFound}

VARIABLES
  cmd,        (* last command written, 0 (none of the four) before the first *)
  status,     (* status register                                             *)
  status_1e,  (* error register                                              *)
  key,        (* the name the host spells                                    *)
  read_pos,   (* bytes written since the command                             *)
  data_len,   (* bytes of value or info the host is to transfer              *)
  data_pos,   (* bytes of it already transferred                             *)
  value,      (* value buffer, 255 bytes                                     *)
  key_index,  (* index the host spells                                       *)
  key_info,   (* size and type of the key asked for                          *)
  nvram       (* NVRAM variables fakesmc-key-<name>-<type>, a partial map    *)

cmdVars == <<cmd, status, read_pos, data_pos, key_index>>
bufVars == <<key, data_len, value, key_info>>
portVars == <<cmdVars, bufVars, status_1e>>
vars == <<keyVars, portVars, nvram>>

Zeros(n) == [p \in 1..n |-> 0]

\* A look-up that fails sets the error register; one that succeeds leaves it.
Report_Silent(found, e) == UNCHANGED status_1e

Report(found, e) == status_1e' = IF found THEN status_1e ELSE e

-----------------------------------------------------------------------------
(* Command port *)

\* A command the switch does not list leaves the status.
CmdStatus_ForgetsIndex(c) == IF c \in {OtherCmd, "INDEX"} THEN status ELSE CmdAccepted

CmdStatus(c) == IF c = OtherCmd THEN status ELSE CmdAccepted

\* applesmc_io_cmd_writeb: the buffers, data_len and the error register of the
\* previous command stay as they are.
CmdWrite(c) ==
  /\ cmd' = c
  /\ status' = CmdStatus(c)
  /\ read_pos' = 0
  /\ data_pos' = 0
  /\ key_index' = 0
  /\ UNCHANGED <<keyVars, bufVars, status_1e, nvram>>

-----------------------------------------------------------------------------
(* Data port, writes *)

\* The byte at data_pos is the last of the transfer.
LastByte_Early == data_pos + 2 >= data_len

LastByte_Late == data_pos = data_len

LastByte == data_pos + 1 = data_len

\* bzero(s->value, 255)
ClearedValue == Zeros(ByteMax)

PosAfter_Wide == read_pos + 1

PosAfter == (read_pos + 1) % PosMod

\* A byte of the name: s->key[s->read_pos] = val.
KeyByte(val) ==
  /\ key' = [key EXCEPT ![read_pos + 1] = val]
  /\ status' = ByteAccepted

\* applesmc_fill_data: the refreshed value of the key replaces the head of the
\* buffer; the tail keeps what it held.
FillData ==
  /\ Report(HasKey(key), KeyNotFound)
  /\ IF HasKey(key)
     THEN \E v \in Readings(keys[IndexOf(key)]) :
            /\ keys' = [keys EXCEPT ![IndexOf(key)].value = v]
            /\ value' = [p \in DOMAIN value |-> IF p <= Len(v) THEN v[p] ELSE value[p]]
     ELSE UNCHANGED <<keys, value>>

ReadDataWrite(val) ==
  /\ cmd = "READ"
  /\ read_pos' = PosAfter
  /\ \/ /\ read_pos < NameLen
        /\ KeyByte(val)
        /\ UNCHANGED <<keys, status_1e, data_len, data_pos, value>>
     \/ /\ read_pos = NameLen
        /\ data_len' = val
        /\ data_pos' = 0
        /\ status' = DataReady
        /\ FillData
        /\ UNCHANGED key
     \/ /\ read_pos > NameLen
        /\ UNCHANGED <<keys, status_1e, status, key, data_len, data_pos, value>>
  /\ UNCHANGED <<values, nvram, cmd, key_index, key_info>>

NvramName_DefaultType(k) == <<k.name, DefaultType[Len(k.value)]>>

NvramName(k) == <<k.name, k.type>>

\* saveKeyToNVRAM: the key is read back through getValue, so its handler may
\* change the value that was just written, before it is saved.
SaveKeyToNVRAM(ks, i) ==
  IF HasNvram
  THEN \E v \in Readings(ks[i]) :
         LET id == NvramName(ks[i])
         IN  /\ keys' = [ks EXCEPT ![i].value = v]
             /\ nvram' = [d \in DOMAIN nvram \cup {id} |-> IF d = id THEN v ELSE nvram[d]]
  ELSE keys' = ks /\ UNCHANGED nvram

\* The last byte of a write: buf goes to the key store and the buffer is cleared.
StoreValue(buf) ==
  LET v == [p \in 1..data_len |-> buf[p]]
  IN  /\ status' = Done
      /\ value' = ClearedValue
      /\ \/ /\ HasKey(key)
            /\ SaveKeyToNVRAM([keys EXCEPT ![IndexOf(key)].value = v], IndexOf(key))
         \/ /\ ~HasKey(key) /\ Named(key)
            /\ Len(keys) < MaxKeys
            /\ SaveKeyToNVRAM(PushKey(NewKey(key, DefaultType[data_len], v, NoHandler)),
                              Len(keys) + 1)
         \/ /\ ~HasKey(key) /\ ~Named(key)
            /\ UNCHANGED <<keys, nvram>>

WriteDataWrite(val) ==
  /\ cmd = "WRITE"
  /\ read_pos' = PosAfter
  /\ \/ /\ read_pos < NameLen
        /\ KeyByte(val)
        /\ UNCHANGED <<keys, nvram, data_len, data_pos, value>>
     \/ /\ read_pos = NameLen
        /\ data_len' = val
        /\ data_pos' = 0
        /\ status' = DataReady
        /\ UNCHANGED <<keys, nvram, key, value>>
     \/ /\ read_pos > NameLen
        /\ data_pos < data_len
        /\ data_pos' = data_pos + 1
        /\ LET buf == [value EXCEPT ![data_pos + 1] = val]
           IN  IF LastByte
               THEN StoreValue(buf)
               ELSE /\ status' = DataReady
                    /\ value' = buf
                    /\ UNCHANGED <<keys, nvram>>
        /\ UNCHANGED <<key, data_len>>
     \/ /\ read_pos > NameLen
        /\ data_pos >= data_len
        /\ UNCHANGED <<keys, nvram, status, key, data_len, data_pos, value>>
  /\ UNCHANGED <<values, status_1e, cmd, key_index, key_info>>

\* applesmc_get_key_by_index, counting from 0.
KeyByIndex(index) ==
  /\ Report(index < Len(keys), IndexNotFound)
  /\ IF index < Len(keys)
     THEN key' = keys[index + 1].name /\ status' = DataReady
     ELSE UNCHANGED key /\ status' = Done

\* The position stops at NameLen; every further byte looks the index up again.
IndexDataWrite(val) ==
  /\ cmd = "INDEX"
  /\ LET more == read_pos < NameLen
         pos == IF more THEN read_pos + 1 ELSE read_pos
         index == IF more THEN key_index + val * Shift[read_pos] ELSE key_index
     IN  /\ read_pos' = pos
         /\ key_index' = index
         /\ IF pos = NameLen
            THEN KeyByIndex(index)
            ELSE /\ status' = IF more THEN ByteAccepted ELSE status
                 /\ UNCHANGED <<key, status_1e>>
  /\ UNCHANGED <<keyVars, nvram, cmd, data_pos, data_len, value, key_info>>

\* applesmc_fill_info for the name n.
FillInfo(n) ==
  /\ Report(HasKey(n), KeyNotFound)
  /\ IF HasKey(n)
     THEN LET k == keys[IndexOf(n)]
          IN  key_info' = <<Len(k.value)>> \o k.type \o <<0>>
     ELSE UNCHANGED key_info

TypeDataWrite(val) ==
  /\ cmd = "TYPE"
  /\ read_pos' = PosAfter
  /\ LET more == read_pos < NameLen
         name == IF more THEN [key EXCEPT ![read_pos + 1] = val] ELSE key
     IN  /\ key' = name
         /\ IF PosAfter = NameLen
            THEN /\ data_len' = InfoLen
                 /\ data_pos' = 0
                 /\ status' = DataReady
                 /\ FillInfo(name)
            ELSE /\ status' = IF more THEN ByteAccepted ELSE status
                 /\ UNCHANGED <<data_len, data_pos, key_info, status_1e>>
  /\ UNCHANGED <<keyVars, nvram, cmd, key_index, value>>

\* There is no case for any other command: the byte is ignored.
DataWrite(val) ==
  \/ ReadDataWrite(val)
  \/ WriteDataWrite(val)
  \/ IndexDataWrite(val)
  \/ TypeDataWrite(val)

-----------------------------------------------------------------------------
(* Data port, reads: applesmc_io_data_readb returns the byte b *)

\* One byte handed out; at the last one the status is Done.
Advance ==
  /\ data_pos' = data_pos + 1
  /\ status' = IF LastByte THEN Done ELSE DataReady

ReadDataRead(b) ==
  /\ cmd = "READ"
  /\ IF data_pos < data_len
     THEN /\ b = value[data_pos + 1]
          /\ Advance
          /\ value' = IF LastByte THEN ClearedValue ELSE value
     ELSE b = 0 /\ UNCHANGED <<data_pos, status, value>>
  /\ UNCHANGED <<keyVars, nvram, status_1e, cmd, read_pos, key_index, key, data_len, key_info>>

WriteDataRead(b) ==
  /\ cmd = "WRITE"
  /\ b = 0
  /\ status' = Done
  /\ UNCHANGED <<keyVars, nvram, status_1e, cmd, read_pos, data_pos, key_index, bufVars>>

IndexDataRead(b) ==
  /\ cmd = "INDEX"
  /\ IF status = Done
     THEN b = 0 /\ UNCHANGED <<data_pos, status>>
     ELSE LET more == data_pos < NameLen
              pos == IF more THEN data_pos + 1 ELSE data_pos
          IN  /\ b = IF more THEN key[data_pos + 1] ELSE 0
              /\ data_pos' = pos
              /\ status' = IF pos = NameLen THEN Done ELSE status
  /\ UNCHANGED <<keyVars, nvram, status_1e, cmd, read_pos, key_index, bufVars>>

\* data_len may still be that of an earlier command: past the 6 bytes of
\* key_info the byte is whatever follows the array.
TypeDataRead(b) ==
  /\ cmd = "TYPE"
  /\ IF data_pos < data_len
     THEN /\ b \in IF data_pos < InfoLen THEN {key_info[data_pos + 1]} ELSE Byte
          /\ Advance
          /\ key_info' = IF LastByte THEN Zeros(InfoLen) ELSE key_info
     ELSE b = 0 /\ UNCHANGED <<data_pos, status, key_info>>
  /\ UNCHANGED <<keyVars, nvram, status_1e, cmd, read_pos, key_index, key, data_len, value>>

DataRead(b) ==
  \/ ReadDataRead(b)
  \/ WriteDataRead(b)
  \/ IndexDataRead(b)
  \/ TypeDataRead(b)

-----------------------------------------------------------------------------
(* Error port: reading it clears it (ioRead8) *)

ErrorRead(e) ==
  /\ e = status_1e
  /\ status_1e' = NoError
  /\ UNCHANGED <<keyVars, nvram, cmdVars, bufVars>>

-----------------------------------------------------------------------------
DeviceInit ==
  /\ Init
  /\ cmd = OtherCmd
  /\ status = Done
  /\ status_1e = NoError
  /\ key = Zeros(NameLen)
  /\ read_pos = 0
  /\ data_len = 0
  /\ data_pos = 0
  /\ value = Zeros(ByteMax)
  /\ key_index = 0
  /\ key_info = Zeros(InfoLen)
  /\ nvram = << >>

HostStep ==
  \/ \E c \in HostCmds : CmdWrite(c)
  \/ \E val \in HostBytes : DataWrite(val)
  \/ \E b \in Byte : DataRead(b)
  \/ \E e \in Error : ErrorRead(e)

\* A call of a plug-in, between two port accesses of the host.
PluginStep ==
  /\ PluginCall
  /\ UNCHANGED <<portVars, nvram>>

UserStep ==
  /\ UserCall
  /\ UNCHANGED <<portVars, nvram>>

DeviceNext == HostStep \/ PluginStep \/ UserStep

DeviceSpec == DeviceInit /\ [][DeviceNext]_vars

-----------------------------------------------------------------------------
\* Types of the state, and the bounds every index into a buffer respects but
\* that of key_info: data_pos stays within data_len or the NameLen bytes of an
\* index answer.
TypeOK ==
  /\ keys \in Seq(Key) /\ Len(keys) > 0
  /\ DOMAIN values \subseteq Name /\ \A n \in DOMAIN values : values[n] \in Value
  /\ cmd \in Cmd
  /\ status \in Status
  /\ status_1e \in Error
  /\ key \in Name
  /\ read_pos \in 0..(PosMod - 1)
  /\ data_len \in Byte
  /\ data_pos \in 0..(IF cmd = "INDEX" THEN NameLen ELSE data_len)
  /\ value \in [1..ByteMax -> Byte]
  /\ key_index \in Nat
  /\ key_info \in [1..InfoLen -> Byte]
  /\ DOMAIN nvram \subseteq Name \X Name /\ \A d \in DOMAIN nvram : nvram[d] \in Value

\* Every NVRAM variable is named after an existing key and its type, however
\* the key came to be.
NvramNamesAKey ==
  \A d \in DOMAIN nvram : \E i \in DOMAIN keys : d = <<keys[i].name, keys[i].type>>
=============================================================================
