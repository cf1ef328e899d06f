-------------------------------- MODULE I2CBus --------------------------------
(***************************************************************************)
(* The software I2C master of the GeForce plug-ins (xf86i2c.cpp): a call   *)
(* that reads or writes a register of a sensor chip, down to the two lines *)
(* the driver raises and lowers one access at a time, and back to the      *)
(* value and the success its caller is told.  GeforceSensors and NVClockX  *)
(* each have a copy, which differ in how they wait and in what they log.   *)
(*                                                                         *)
(* A line is high when neither side pulls it low.  The chip is external: a *)
(* slave as the I2C specification has it, which may refuse to acknowledge  *)
(* and may hold the clock low for as long as it likes, beyond every        *)
(* time-out.  Polling a line until a time-out is one look at it, since     *)
(* nothing orders the slave's release of the clock and the look.           *)
(***************************************************************************)
EXTENDS Integers, Sequences, SequencesExt

CONSTANTS
  Width,      (* bits of a byte: 8 in the code                              *)
  Chip,       (* address of the chip, without the direction bit             *)
  Registers,  (* what the registers of the chip hold at first               *)
  Calls,      (* the calls that are made                                    *)
  MaxLate     (* bound: calls on a bus that a time-out left in the middle   *)

Bit == {0, 1}
I2CByte == [1..Width -> Bit]

ASSUME I2CAssumption ==
  /\ Width \in Nat /\ Width > 1
  /\ Chip \in [1..(Width - 1) -> Bit]
  /\ Registers \in [I2CByte -> I2CByte]
  /\ \A c \in Calls :
       /\ c.op \in {"probe", "read", "write", "writevec"}
       /\ c.addr \in [1..(Width - 1) -> Bit]
       /\ c.n \in Nat /\ c.bytes \in Seq(I2CByte)
  /\ MaxLate \in Nat

VARIABLES
  call,    (* the call under way: operation, address, bytes to write and    *)
           (* number of bytes to read                                       *)
  todo,    (* what it has yet to do on the bus, bit by bit                  *)
  at,      (* position in the accesses of the first of these bits           *)
  bad,     (* a time-out, or no acknowledgement                             *)
  got,     (* the bits ReadBit returned                                     *)
  SCL, SDA,  (* the lines as the master drives them                         *)
  slave,   (* the chip: what it is doing and how it drives the data line    *)
  hold,    (* it keeps the clock low                                        *)
  regs,    (* its registers                                                 *)
  missed   (* history: 0 while every time-out has been long enough; from    *)
           (* one that was not, how many calls found the bus not idle       *)

i2cVars == <<call, todo, at, bad, got, SCL, SDA, slave, hold, regs, missed>>

-----------------------------------------------------------------------------
(* The chip.                                                                *)

Both(a, b) == IF a = 1 /\ b = 1 THEN 1 ELSE 0
ClockIs(scl, held) == IF held THEN 0 ELSE scl

Idle == [mode |-> "idle", n |-> 0, shift |-> <<>>, ptr |-> <<>>, ack |-> 1, sda |-> 1]

\* The register after r: the sub-address counts up.
Successor(r) == [b \in 1..Width |-> IF \A c \in (b + 1)..Width : r[c] = 1 THEN 1 - r[b] ELSE r[b]]

\* A bit is taken over when the clock rises.
Sampled(s, bit) ==
  IF s.mode = "idle" THEN s
  ELSE IF s.n = Width THEN [s EXCEPT !.n = Width + 1, !.ack = bit]
  ELSE [s EXCEPT !.n = @ + 1, !.shift = Append(@, bit)]

\* The chip drives the bits of register r from the first on.
Sending(s, r) == [s EXCEPT !.mode = "send", !.n = 0, !.shift = <<>>, !.ptr = r, !.sda = regs[r][1]]
Listening(s, mode) == [s EXCEPT !.mode = mode, !.n = 0, !.shift = <<>>, !.sda = 1]

\* What it does when the clock falls: the next bit, the acknowledgement of a
\* byte, or the byte after it.  An address is acknowledged when it is the
\* chip's, if at all.
Byte(s) == [b \in 1..Width |-> s.shift[b]]
Called(s) == Front(s.shift) = Chip

Fallen(s) ==
  CASE s.mode = "idle" -> {s}
    [] s.mode = "send" /\ s.n < Width -> {[s EXCEPT !.sda = regs[s.ptr][s.n + 1]]}
    [] s.mode = "send" /\ s.n = Width -> {[s EXCEPT !.sda = 1]}
    [] s.mode = "send" /\ s.n > Width ->
         {IF s.ack = 0 THEN Sending(s, Successor(s.ptr)) ELSE [s EXCEPT !.mode = "idle", !.n = 0, !.shift = <<>>]}
    [] s.mode \in {"address", "pointer", "write"} /\ s.n < Width -> {s}
    [] s.mode = "address" /\ s.n = Width ->
         {[Idle EXCEPT !.ptr = s.ptr]} \union (IF Called(s) THEN {[s EXCEPT !.sda = 0]} ELSE {})
    [] s.mode = "pointer" /\ s.n = Width -> {[s EXCEPT !.sda = 0, !.ptr = Byte(s)]}
    [] s.mode = "write" /\ s.n = Width -> {[s EXCEPT !.sda = 0]}
    [] s.mode = "address" /\ s.n > Width ->
         {IF Last(s.shift) = 1 THEN Sending(s, s.ptr) ELSE Listening(s, "pointer")}
    [] s.mode = "pointer" /\ s.n > Width -> {Listening(s, "write")}
    [] OTHER -> {[Listening(s, "write") EXCEPT !.ptr = Successor(s.ptr)]}

\* A register is written when the last bit of its byte was.
Stored(s) == IF s.mode = "write" /\ s.n = Width THEN [regs EXCEPT ![s.ptr] = Byte(s)] ELSE regs

Started(s) == [Listening(s, "address") EXCEPT !.ack = 1]
Stopped(s) == [Idle EXCEPT !.ptr = s.ptr]

\* The chip sees the lines go from (c, d) to what the master drives now.
Sees(scl, sda) ==
  LET old == ClockIs(SCL, hold)
      data == Both(sda, slave.sda)
  IN  CASE old = 1 /\ scl = 1 /\ Both(SDA, slave.sda) = 1 /\ data = 0 ->
             slave' = Started(slave) /\ UNCHANGED <<hold, regs>>
        [] old = 1 /\ scl = 1 /\ Both(SDA, slave.sda) = 0 /\ data = 1 ->
             slave' = Stopped(slave) /\ UNCHANGED <<hold, regs>>
        [] old = 0 /\ ClockIs(scl, hold) = 1 ->
             slave' = Sampled(slave, data) /\ UNCHANGED <<hold, regs>>
        [] old = 1 /\ scl = 0 ->
             /\ slave' \in Fallen(slave) /\ regs' = Stored(slave)
             /\ hold' \in {FALSE, slave'.mode # "idle"}
        [] OTHER -> UNCHANGED <<slave, hold, regs>>

\* It lets go of the clock.
Release ==
  /\ hold
  /\ hold' = FALSE
  /\ slave' = IF SCL = 1 THEN Sampled(slave, Both(SDA, slave.sda)) ELSE slave
  /\ UNCHANGED <<call, todo, at, bad, got, SCL, SDA, regs, missed>>

-----------------------------------------------------------------------------
(* The master: a call is a sequence of start and stop conditions and bits,  *)
(* each with the number of Stops that are sent when it fails.               *)

Bits(byte, stops) == [b \in 1..Width |-> [kind |-> "write", bit |-> byte[b], stops |-> stops]]

\* I2CStart; I2CPutByte.
Start(stops) == <<[kind |-> "start", bit |-> 1, stops |-> stops]>>
Stop == <<[kind |-> "stop", bit |-> 1, stops |-> 0]>>
PutByte(byte, stops) == Bits(byte, stops) \o <<[kind |-> "acknowledged", bit |-> 1, stops |-> stops]>>

\* I2CGetByte: the line is released, the bits are read, and acknowledged unless
\* they are the last.
GetByte(last) ==
  <<[kind |-> "release", bit |-> 1, stops |-> 1]>>
    \o [b \in 1..Width |-> [kind |-> "read", bit |-> 1, stops |-> 1]]
    \o <<[kind |-> "write", bit |-> IF last THEN 1 ELSE 0, stops |-> 1]>>

\* Sensor chips have addresses of one byte (a second follows 11110xx and the general
\* call).  I2CAddress stops by itself when the byte fails, but not when the start
\* does; before counts the Stop the caller sends anyway.
I2CAddress(addr, direction, before) ==
  Start(before) \o PutByte(Append(addr, direction), before + 1)

Gets(n) == FlattenSeq([i \in 1..n |-> GetByte(i = n)])
Puts(bytes) == FlattenSeq([i \in 1..Len(bytes) |-> PutByte(bytes[i], 1)])

xf86I2CWriteRead(addr, bytes, nRead) ==
  (IF bytes # <<>> THEN I2CAddress(addr, 0, 0) \o Puts(bytes) ELSE <<>>)
  \o (IF nRead > 0 THEN I2CAddress(addr, 1, IF bytes # <<>> THEN 1 ELSE 0) \o Gets(nRead) ELSE <<>>)
  \o Stop

\* A register and its value at a time, each after a start; the last Stop is not
\* sent when the first address already failed.
xf86I2CWriteVec_OneStart(addr, bytes) == I2CAddress(addr, 0, 0) \o Puts(bytes) \o Stop
xf86I2CWriteVec(addr, bytes) ==
  FlattenSeq([i \in 1..(Len(bytes) \div 2) |->
                I2CAddress(addr, 0, IF i > 1 THEN 1 ELSE 0) \o Puts(SubSeq(bytes, 2 * i - 1, 2 * i))])
  \o Stop

\* xf86I2CReadStatus, ReadByte, ReadBytes and ReadWord read n bytes after none or
\* one was written; xf86I2CWriteByte, WriteBytes and WriteWord write them after
\* the sub-address.
Program(c) ==
  CASE c.op = "probe" -> I2CAddress(c.addr, 0, 0) \o Stop
    [] c.op = "writevec" -> xf86I2CWriteVec(c.addr, c.bytes)
    [] OTHER -> xf86I2CWriteRead(c.addr, c.bytes, c.n)

Put(scl, sda) == [put |-> TRUE, scl |-> scl, sda |-> sda]
Wait == [put |-> FALSE, wait |-> TRUE]
Look == [put |-> FALSE, wait |-> FALSE]

\* The accesses of a bit.
Accesses(o) ==
  CASE o.kind = "start" -> <<Put(1, 1), Wait, Put(1, 0), Put(0, 0)>>
    [] o.kind = "stop" -> <<Put(0, 0), Put(1, 0), Put(1, 1)>>
    [] o.kind = "write" -> <<Put(0, o.bit), Put(1, o.bit), Wait, Put(0, o.bit)>>
    [] o.kind = "acknowledged" -> <<Put(0, 1), Put(1, 1), Wait, Look, Put(0, 1)>>
    [] o.kind = "release" -> <<Put(0, 1)>>
    [] o.kind = "read" -> <<Put(1, 1), Wait, Look, Put(0, 1)>>

Busy == todo # <<>>
Access == Accesses(Head(todo))[at]
AtEnd == at = Len(Accesses(Head(todo)))

Rest(failed) ==
  IF failed THEN FlattenSeq([i \in 1..Head(todo).stops |-> Stop]) ELSE Tail(todo)

GoOn == IF AtEnd THEN todo' = Rest(bad /\ Head(todo).kind # "stop") /\ at' = 1
                 ELSE at' = at + 1 /\ UNCHANGED todo

\* I2CPutBits.
PutBits ==
  /\ Busy /\ Access.put
  /\ SCL' = Access.scl /\ SDA' = Access.sda
  /\ Sees(Access.scl, Access.sda)
  /\ GoOn
  /\ UNCHANGED <<call, bad, got, missed>>

\* I2CRaiseSCL's loop, and I2CStart's, which gives up at once.
WaitForClock ==
  /\ Busy /\ Access = Wait
  /\ IF ClockIs(SCL, hold) = 1 THEN at' = at + 1 /\ UNCHANGED <<todo, bad, missed>>
     ELSE /\ bad' = TRUE
          /\ missed' = (IF missed = 0 THEN 1 ELSE missed)
          /\ IF Head(todo).kind = "start"
             THEN todo' = Rest(TRUE) /\ at' = 1
             ELSE at' = Len(Accesses(Head(todo))) /\ UNCHANGED todo
  /\ UNCHANGED <<call, got, SCL, SDA, slave, hold, regs>>

\* I2CGetBits: an acknowledgement, or a bit of the byte that is read.
GetBits_NoAcknowledge ==
  /\ Busy /\ Access = Look
  /\ got' = (IF Head(todo).kind = "read" THEN Append(got, Both(SDA, slave.sda)) ELSE got)
  /\ at' = at + 1
  /\ UNCHANGED <<call, todo, bad, SCL, SDA, slave, hold, regs, missed>>
GetBits ==
  /\ Busy /\ Access = Look
  /\ LET data == Both(SDA, slave.sda)
     IN  IF Head(todo).kind = "read" THEN got' = Append(got, data) /\ UNCHANGED bad
         ELSE bad' = (data = 1) /\ UNCHANGED got
  /\ at' = at + 1
  /\ UNCHANGED <<call, todo, SCL, SDA, slave, hold, regs, missed>>

Return ==
  /\ call.op # "none" /\ ~Busy
  /\ call' = [call EXCEPT !.op = "none"]
  /\ UNCHANGED <<todo, at, bad, got, SCL, SDA, slave, hold, regs, missed>>

Ask(c) ==
  /\ call.op = "none"
  /\ call' = c
  /\ todo' = Program(c) /\ at' = 1
  /\ bad' = FALSE /\ got' = <<>>
  /\ missed' = (IF missed = 0 \/ slave.mode = "idle" THEN 0 ELSE missed + 1)
  /\ missed' <= MaxLate
  /\ UNCHANGED <<SCL, SDA, slave, hold, regs>>

I2CInit ==
  /\ call = [op |-> "none"] /\ todo = <<>> /\ at = 1 /\ bad = FALSE /\ got = <<>>
  /\ SCL = 1 /\ SDA = 1
  /\ slave = [Idle EXCEPT !.ptr = [b \in 1..Width |-> 0]] /\ hold = FALSE /\ regs = Registers
  /\ missed = 0

Master == PutBits \/ WaitForClock \/ GetBits \/ Return

I2CNext == Master \/ Release \/ \E c \in Calls : Ask(c)

I2CSpec == I2CInit /\ [][I2CNext]_i2cVars
-----------------------------------------------------------------------------
Returned == call.op # "none" /\ ~Busy

I2CTypeOK ==
  /\ call.op = "none" \/ call \in Calls
  /\ Busy => at \in 1..Len(Accesses(Head(todo)))
  /\ got \in Seq(Bit)
  /\ {SCL, SDA, slave.sda, slave.ack} \subseteq Bit /\ {bad, hold} \subseteq BOOLEAN /\ missed \in 0..(MaxLate + 1)
  /\ slave.mode \in {"idle", "address", "pointer", "write", "send"}
  /\ slave.n \in 0..(Width + 1) /\ slave.shift \in Seq(Bit) /\ slave.ptr \in I2CByte
  /\ regs \in [I2CByte -> I2CByte]

\* The registers a call names and the values it has for them.
Nth(r, i) == FoldLeft(LAMBDA q, j : Successor(q), r, [j \in 1..i |-> j])

Stores ==
  IF call.op = "writevec"
  THEN {<<call.bytes[2 * i - 1], call.bytes[2 * i]>> : i \in 1..(Len(call.bytes) \div 2)}
  ELSE {<<Nth(call.bytes[1], i - 2), call.bytes[i]>> : i \in 2..Len(call.bytes)}

\* A caller is told success only when the chip it named answered: then what it
\* reads is what the registers hold, and what it wrote is in them.  The chip may
\* have stretched the clock, up to the time-outs, at every bit; once a time-out
\* has cut a call short the chip may stay in the middle of a byte that no Stop
\* ends, and later calls are not vouched for until it is found idle again.
SuccessIsTrue ==
  (Returned /\ missed = 0 /\ ~bad) =>
    /\ call.addr = Chip
    /\ \A p \in Stores : regs[p[1]] = p[2]
    /\ (call.n > 0 /\ call.bytes # <<>>) =>
         got = FlattenSeq([i \in 1..call.n |-> regs[Nth(call.bytes[1], i - 1)]])

\* A call tells the truth when it returns, and whatever becomes of it, it changes no
\* register but those it names, and to nothing but what it has for them.
TransfersAreTrue ==
  [][/\ SuccessIsTrue'
     /\ missed = 0 => (regs' = regs \/ \E p \in Stores : regs' = [regs EXCEPT ![p[1]] = p[2]])]_i2cVars
=============================================================================
