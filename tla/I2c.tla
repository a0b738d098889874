-------------------------------- MODULE I2c ---------------------------------
(***************************************************************************)
(* The I2C driver, rflpc17xx/drivers/i2c.c: rflpc_i2c_write() and          *)
(* rflpc_i2c_read() follow the status register of the I2C block in a loop, *)
(* as the master that talks to a slave or as a slave another master talks  *)
(* to.  The block and the bus step between any two steps of the loop.      *)
(*                                                                         *)
(* A byte is named by its place: the k-th byte of a buffer, or the k-th    *)
(* byte the other device sends, is k.  A program does what the samples and *)
(* i2c.h:81-123 say: one port (PORT2), a master writes and reads, a slave  *)
(* reads, with a transmit buffer set, and a read asks for a byte or more.  *)
(* General call and arbitration lost to a master that addresses this one   *)
(* (the "not yet implemented" statuses) do not come up under that use.     *)
(***************************************************************************)
EXTENDS Integers, Sequences

CONSTANTS
  Byte,       \* 2^8, what a uint8_t counts modulo
  MaxBytes,   \* bound: bytes of a buffer
  MaxWire,    \* bound: bytes another master exchanges with the slave
  MaxCalls,   \* bound: calls of read, write and init
  MaxTakes,   \* bound: times another master takes the bus
  MaxErrors   \* bound: bus errors

ASSUME BoundAssumption ==
  /\ Byte \in Nat /\ MaxBytes \in 1 .. (Byte - 1) /\ MaxWire \in Nat
  /\ MaxCalls \in Nat /\ MaxTakes \in Nat /\ MaxErrors \in Nat

VARIABLES
  stat,     \* I2STAT; SI is set exactly when it is not F8
  con,      \* I2CONSET: which of STA, STO and AA are set
  dat,      \* I2DAT: an address with its R/W bit, or a byte
  last,     \* the block: the status it goes on from once SI is cleared
  bus,      \* who holds the bus: "free", "us", "other"
  takes, errors,
  mode,     \* _mode
  size,     \* _slave_transmitter_config.size
  pc,       \* "idle", or the driver is to "look" at I2STAT, "act", or "wait"
  op,       \* the running (or last) function: "read", "write", or the
            \* "slave_write" a read makes when the slave is read from
  state,    \* its local variables
  n,        \*   nbytes, what is left
  realn,    \*   realnbytes
  ptr,      \*   data
  asked,    \* history: nbytes at the call
  stop,     \*   its parameter
  ret,      \* what the last call returned and, history, what was on the wire then
  wire,     \* history: the bytes that followed the address on the bus
  stored,   \* history: the places of the buffer stored to, and the bytes
  lost,     \* history: arbitration was lost on a byte of this call
  calls

block  == <<stat, con, dat, last>>
others == <<bus, takes, errors>>
locals == <<n, realn, ptr>>
param  == <<mode, size, asked, stop, calls>>
past   == <<wire, stored, lost>>
vars == <<block, others, locals, param, past, pc, op, state, ret>>

MasterStatuses == {"08", "10", "18", "20", "28", "30", "38", "40", "48", "50", "58"}
SlaveStatuses  == {"60", "80", "88", "A0", "A8", "B8", "C0", "C8"}
Statuses == MasterStatuses \union SlaveStatuses \union {"00", "F8"}

\* The block leaves the transfer after these, once SI is cleared.
Over == {"38", "88", "A0", "C0", "C8"}

\* addr and addr | 1, in the place of a byte
SlaveW == -2
SlaveR == -1

Returns == {"NONE", "SUCCESSFUL_TRANSMISSION", "SIZE_EQUAL_TO_ZERO", "SLAVE_IS_BUSY",
            "SLAVE_DID_NOT_ACKNOWLEDGED_DATA", "STOP_CONDITION_RECEIVED",
            "SLAVE_TRANSMITTED_DATA", "UNKNOWN_ERROR", "-1"}

\* Arithmetic of uint8_t.
Less1(k) == (k - 1) % Byte
Plus1(k) == (k + 1) % Byte

NoCall == [status |-> "NONE", count |-> 0, wire |-> <<>>]

-----------------------------------------------------------------------------
\* The flags after init: a slave answers its address.
Enabled(m) == IF m = "slave" THEN {"AA"} ELSE {}

Init ==
  /\ mode \in {"master", "slave"}
  /\ stat = "F8" /\ con = Enabled(mode) /\ dat = 0 /\ last = "none"
  /\ bus = "free" /\ takes = 0 /\ errors = 0
  /\ size = 0
  /\ pc = "idle" /\ op = "read" /\ state = "F8"
  /\ n = 0 /\ realn = 0 /\ ptr = 1 /\ asked = 0 /\ stop = TRUE
  /\ ret = NoCall
  /\ wire = <<>> /\ stored = <<>> /\ lost = FALSE
  /\ calls = 0

\* Mutant: init does not clear the flags.
ReinitDirty(m) ==
  /\ pc = "idle" /\ calls < MaxCalls
  /\ calls' = calls + 1
  /\ mode' = m
  /\ con' = con \union Enabled(m)
  /\ stat' = "F8" /\ last' = "none"
  /\ bus' = IF bus = "us" THEN "free" ELSE bus
  /\ ret' = NoCall
  /\ UNCHANGED <<dat, takes, errors, locals, size, asked, stop, past, pc, op, state>>

\* rflpc_i2c_init() again: clearing I2EN takes the block off the bus.
Reinit(m) ==
  /\ pc = "idle" /\ calls < MaxCalls
  /\ calls' = calls + 1
  /\ mode' = m
  /\ con' = Enabled(m)
  /\ stat' = "F8" /\ last' = "none"
  /\ bus' = IF bus = "us" THEN "free" ELSE bus
  /\ ret' = NoCall
  /\ UNCHANGED <<dat, takes, errors, locals, size, asked, stop, past, pc, op, state>>

\* rflpc_i2c_set_slave_transmitter_config(): an empty buffer is refused.
SetSlaveBuffer(s) ==
  /\ pc = "idle" /\ mode = "slave"
  /\ s # 0
  /\ size' = s
  /\ UNCHANGED <<block, others, locals, mode, asked, stop, calls, past, pc, op, state, ret>>

\* A program calls rflpc_i2c_write() or rflpc_i2c_read().
Call(o, nbytes, s) ==
  /\ pc = "idle" /\ calls < MaxCalls
  /\ mode = "slave" => (o = "read" /\ size > 0)
  /\ o = "read" => nbytes > 0
  /\ calls' = calls + 1
  /\ op' = o /\ pc' = "look"
  /\ n' = nbytes /\ realn' = 0 /\ ptr' = 1
  /\ asked' = nbytes /\ stop' = s
  /\ stored' = <<>> /\ lost' = FALSE
  /\ UNCHANGED <<block, others, mode, size, wire, state, ret>>

-----------------------------------------------------------------------------
\* The loop: read the status, act on it, wait for SI.
Look ==
  /\ pc = "look"
  /\ state' = stat
  /\ pc' = "act"
  /\ UNCHANGED <<block, others, locals, param, past, op, ret>>

Wait ==
  /\ pc = "wait"
  /\ stat # "F8"
  /\ pc' = "look"
  /\ UNCHANGED <<block, others, locals, param, past, op, state, ret>>

At(o, s) == pc = "act" /\ op = o /\ state = s

\* CONSET, then CONCLR with the SI flag: the block goes on.
Go(set, clear) ==
  /\ con' = (con \union set) \ clear
  /\ stat' = "F8"
  /\ last' = IF stat \in Over THEN "none" ELSE stat

Again == pc' = "wait" /\ UNCHANGED <<op, state, ret>>

Return(status, count) ==
  /\ pc' = "idle"
  /\ ret' = [status |-> IF op = "slave_write" /\ status = "SUCCESSFUL_TRANSMISSION"
                                               /\ count = size
                            THEN "SLAVE_TRANSMITTED_DATA" ELSE status,
             count |-> count, wire |-> wire]
  /\ UNCHANGED <<op, state>>

\* *data goes to I2DAT.
Put(advance) ==
  /\ dat' = ptr
  /\ ptr' = ptr + advance
  /\ n' = Less1(n) /\ realn' = Plus1(realn)

\* I2DAT goes to *data.
Take(advance) ==
  /\ stored' = Append(stored, <<ptr, dat>>)
  /\ ptr' = ptr + advance
  /\ realn' = Plus1(realn)

\* 0xF8: a START is asked for; a slave that reads just waits.
AskBus ==
  /\ pc = "act" /\ state = "F8"
  /\ con' = IF op = "read" /\ mode = "slave" THEN con ELSE con \union {"STA"}
  /\ Again
  /\ UNCHANGED <<stat, dat, last, others, locals, param, past>>

\* 0x08, 0x10
SendAddress ==
  /\ pc = "act" /\ op \in {"read", "write"} /\ state \in {"08", "10"}
  /\ dat' = IF op = "write" THEN SlaveW ELSE SlaveR
  /\ Go({}, {}) /\ Again
  /\ UNCHANGED <<others, locals, param, past>>

\* 0x20 in write(), 0x48 in read()
AddressRefused ==
  /\ At("write", "20") \/ At("read", "48")
  /\ Go({"STO"}, {}) /\ Return("SLAVE_IS_BUSY", 0)
  /\ UNCHANGED <<dat, others, locals, param, past>>

\* 0x00, the end of the loop.
BusFault ==
  /\ pc = "act" /\ state = "00"
  /\ IF op = "read" THEN Return("-1", Byte - 1) ELSE Return("UNKNOWN_ERROR", realn)
  /\ UNCHANGED <<block, others, locals, param, past>>

\* 0x38 in read() has no case: SI stays set.
NoCase ==
  /\ At("read", "38")
  /\ Again
  /\ UNCHANGED <<block, others, locals, param, past>>

-----------------------------------------------------------------------------
(* Master transmitter *)

\* 0x18 with nothing to send
NothingToSend ==
  /\ At("write", "18") /\ n = 0
  /\ Go({"STO"}, {}) /\ Return("SIZE_EQUAL_TO_ZERO", 0)
  /\ UNCHANGED <<dat, others, locals, param, past>>

\* Mutant: the data pointer is not advanced.
SendFirstTwice ==
  /\ At("write", "18") /\ n # 0
  /\ Put(0)
  /\ Go({}, {"STA"}) /\ Again
  /\ UNCHANGED <<others, param, past>>

\* 0x18
SendFirst ==
  /\ At("write", "18") /\ n # 0
  /\ Put(1)
  /\ Go({}, {"STA"}) /\ Again
  /\ UNCHANGED <<others, param, past>>

\* 0x28
SendNext ==
  /\ At("write", "28") /\ n # 0
  /\ Put(1)
  /\ Go({}, {}) /\ Again
  /\ UNCHANGED <<others, param, past>>

\* Mutant: the bus is kept whatever stop says.
AllSentKeepBus ==
  /\ At("write", "28") /\ n = 0
  /\ Go({"STA"}, {})
  /\ Return("SUCCESSFUL_TRANSMISSION", realn)
  /\ UNCHANGED <<dat, others, locals, param, past>>

\* 0x28 after the last byte
AllSent ==
  /\ At("write", "28") /\ n = 0
  /\ Go({IF stop THEN "STO" ELSE "STA"}, {})
  /\ Return("SUCCESSFUL_TRANSMISSION", realn)
  /\ UNCHANGED <<dat, others, locals, param, past>>

\* 0x30
DataRefused ==
  /\ At("write", "30")
  /\ Go({"STO"}, {}) /\ Return("SLAVE_DID_NOT_ACKNOWLEDGED_DATA", realn)
  /\ UNCHANGED <<dat, others, locals, param, past>>

\* Mutant: no new START is asked for.
LostWriteGivesUp ==
  /\ At("write", "38")
  /\ Go({}, {}) /\ Again
  /\ UNCHANGED <<dat, others, locals, param, past>>

\* 0x38: the call starts again, from where data and nbytes are.
LostWrite ==
  /\ At("write", "38")
  /\ Go({"STA"}, {}) /\ Again
  /\ UNCHANGED <<dat, others, locals, param, past>>

-----------------------------------------------------------------------------
(* Master receiver *)

\* 0x40
ReadStarts ==
  /\ At("read", "40")
  /\ Go(IF n > 1 THEN {"AA"} ELSE {}, {"STA"}) /\ Again
  /\ UNCHANGED <<dat, others, locals, param, past>>

\* 0x50: the last byte expected will not be acknowledged.
Received ==
  /\ At("read", "50")
  /\ Take(1)
  /\ n' = Less1(n)
  /\ (IF n' > 1 THEN Go({"AA"}, {}) ELSE Go({}, {"AA"})) /\ Again
  /\ UNCHANGED <<dat, others, param, wire, lost>>

\* 0x58
ReceivedLast ==
  /\ At("read", "58")
  /\ Take(0)
  /\ Go({IF stop THEN "STO" ELSE "STA"}, {})
  /\ Return("SUCCESSFUL_TRANSMISSION", realn')
  /\ UNCHANGED <<dat, others, n, param, wire, lost>>

-----------------------------------------------------------------------------
(* Slave receiver *)

\* 0x60
WrittenTo ==
  /\ At("read", "60")
  /\ Go({"AA"}, {}) /\ Again
  /\ UNCHANGED <<dat, others, locals, param, past>>

\* 0x80: after the last byte expected the next is not acknowledged.
SlaveReceived ==
  /\ At("read", "80")
  /\ n' = Less1(n)
  /\ Take(IF n' = 0 THEN 0 ELSE 1)
  /\ (IF n' = 0 THEN Go({}, {"AA"}) ELSE Go({"AA"}, {})) /\ Again
  /\ UNCHANGED <<dat, others, param, wire, lost>>

\* 0x88, 0xA0
SlaveDone ==
  /\ \/ At("read", "88") /\ Return("SUCCESSFUL_TRANSMISSION", realn)
     \/ At("read", "A0") /\ Return("STOP_CONDITION_RECEIVED", realn)
  /\ Go({"AA"}, {})
  /\ UNCHANGED <<dat, others, locals, param, past>>

-----------------------------------------------------------------------------
(* Slave transmitter *)

\* 0xA8 in read(): a call of write() with the transmit buffer.
ReadFrom ==
  /\ At("read", "A8")
  /\ op' = "slave_write" /\ pc' = "look"
  /\ n' = size /\ realn' = 0 /\ ptr' = 1
  /\ UNCHANGED <<block, others, param, past, state, ret>>

\* 0xA8 in write()
SlaveSendFirst ==
  /\ At("slave_write", "A8")
  /\ Put(IF n = 1 THEN 0 ELSE 1)
  /\ (IF n' = 0 THEN Go({}, {"AA"}) ELSE Go({"AA"}, {})) /\ Again
  /\ UNCHANGED <<others, param, past>>

\* 0xB8: neither data nor the AA flag follow the count.
SlaveSendNext ==
  /\ At("slave_write", "B8")
  /\ Put(0)
  /\ Go({"AA"}, {}) /\ Again
  /\ UNCHANGED <<others, param, past>>

\* 0xC0, 0xC8
SlaveSent ==
  /\ At("slave_write", "C0") \/ At("slave_write", "C8")
  /\ Go({"AA"}, {}) /\ Return("SUCCESSFUL_TRANSMISSION", realn)
  /\ UNCHANGED <<dat, others, locals, param, past>>

Driver == Look \/ Wait \/ AskBus \/ SendAddress \/ AddressRefused \/ BusFault \/ NoCase
            \/ NothingToSend \/ SendFirst \/ SendNext \/ AllSent \/ DataRefused \/ LostWrite
            \/ ReadStarts \/ Received \/ ReceivedLast
            \/ WrittenTo \/ SlaveReceived \/ SlaveDone
            \/ ReadFrom \/ SlaveSendFirst \/ SlaveSendNext \/ SlaveSent

-----------------------------------------------------------------------------
(***************************************************************************)
(* The I2C block and the other devices on the bus, external, as the        *)
(* comments of the cases say.  The block steps while SI is clear and then  *)
(* sets SI with a new status.                                              *)
(***************************************************************************)
running == <<locals, param, pc, op, state, ret>>

Report(s) == stat = "F8" /\ stat' = s /\ UNCHANGED running

\* A START when the bus is free, a repeated one while it is held.
StartSent ==
  /\ "STA" \in con /\ last = "none" /\ bus = "free"
  /\ Report("08")
  /\ bus' = "us"
  /\ UNCHANGED <<con, dat, last, takes, errors, past>>

RepeatedStartSent ==
  /\ "STA" \in con /\ "STO" \notin con /\ last \in {"28", "58"}
  /\ Report("10")
  /\ UNCHANGED <<con, dat, last, others, past>>

StopSent ==
  /\ stat = "F8" /\ "STO" \in con
  /\ con' = con \ {"STO"}
  /\ last' = "none" /\ bus' = "free"
  /\ UNCHANGED <<stat, dat, takes, errors, past, running>>

AddressSent ==
  /\ last \in {"08", "10"}
  /\ \E ack \in BOOLEAN :
       Report(IF dat = SlaveW THEN IF ack THEN "18" ELSE "20"
                              ELSE IF ack THEN "40" ELSE "48")
  /\ wire' = <<>>
  /\ UNCHANGED <<con, dat, last, others, stored, lost>>

ByteSent ==
  /\ last \in {"18", "28"} /\ con \intersect {"STA", "STO"} = {}
  /\ \E s \in {"28", "30"} : Report(s)
  /\ wire' = Append(wire, dat)
  /\ UNCHANGED <<con, dat, last, others, stored, lost>>

ByteReceived ==
  /\ last \in {"40", "50"}
  /\ Report(IF "AA" \in con THEN "50" ELSE "58")
  /\ dat' = Len(wire) + 1
  /\ wire' = Append(wire, dat')
  /\ UNCHANGED <<con, last, others, stored, lost>>

\* Another master wins the bus: on the address, on a byte, on the bit of a NOT ACK.
ArbitrationLost ==
  /\ takes < MaxTakes
  /\ \/ last \in {"08", "10"}
     \/ last \in {"18", "28"} /\ con \intersect {"STA", "STO"} = {}
     \/ last \in {"40", "50"} /\ "AA" \notin con
  /\ Report("38")
  /\ takes' = takes + 1
  /\ bus' = "other" /\ last' = "none"
  /\ lost' = (lost \/ last \in {"18", "28"})
  /\ UNCHANGED <<con, dat, errors, wire, stored>>

OtherTakesBus ==
  /\ bus = "free" /\ takes < MaxTakes
  /\ takes' = takes + 1
  /\ bus' = "other"
  /\ UNCHANGED <<block, errors, past, running>>

OtherReleasesBus ==
  /\ bus = "other" /\ last = "none" /\ stat \notin SlaveStatuses
  /\ bus' = "free"
  /\ UNCHANGED <<block, takes, errors, past, running>>

\* Another master addresses this slave, to write or to read.
Addressed ==
  /\ mode = "slave" /\ "AA" \in con /\ bus = "other" /\ last = "none"
  /\ \E s \in {"60", "A8"} : Report(s)
  /\ wire' = <<>>
  /\ UNCHANGED <<con, dat, last, others, stored, lost>>

SlaveByteReceived ==
  /\ last \in {"60", "80"} /\ Len(wire) < MaxWire
  /\ Report(IF "AA" \in con THEN "80" ELSE "88")
  /\ dat' = Len(wire) + 1
  /\ wire' = Append(wire, dat')
  /\ UNCHANGED <<con, last, others, stored, lost>>

StopReceived ==
  /\ last \in {"60", "80"}
  /\ Report("A0")
  /\ UNCHANGED <<con, dat, last, others, past>>

\* The other master asks for one more byte (ACK) or not.
SlaveByteSent ==
  /\ last \in {"A8", "B8"}
  /\ \/ Report("C0")
     \/ Len(wire) + 1 < MaxWire /\ Report(IF "AA" \in con THEN "B8" ELSE "C8")
  /\ wire' = Append(wire, dat)
  /\ UNCHANGED <<con, dat, last, others, stored, lost>>

BusError ==
  /\ errors < MaxErrors /\ last # "none" /\ "STO" \notin con
  /\ Report("00")
  /\ errors' = errors + 1
  /\ last' = "none" /\ bus' = "free"
  /\ UNCHANGED <<con, dat, takes, past>>

Bus == StartSent \/ RepeatedStartSent \/ StopSent \/ AddressSent \/ ByteSent \/ ByteReceived
         \/ ArbitrationLost \/ OtherReleasesBus
         \/ SlaveByteReceived \/ StopReceived \/ SlaveByteSent

Next ==
  \/ \E m \in {"master", "slave"} : Reinit(m)
  \/ \E s \in 0 .. MaxBytes : SetSlaveBuffer(s)
  \/ \E o \in {"read", "write"}, k \in 0 .. MaxBytes, s \in BOOLEAN : Call(o, k, s)
  \/ Driver
  \/ Bus
  \/ OtherTakesBus \/ Addressed \/ BusError

Spec == Init /\ [][Next]_vars

\* A call runs on, and a transfer that was begun goes on: the bus has a clock, and
\* another master ends its own transfers.  Nobody need address the slave.
FairSpec == Spec /\ WF_vars(Driver) /\ WF_vars(Bus)

-----------------------------------------------------------------------------
(***************************************************************************)
(* Properties                                                              *)
(***************************************************************************)

\* Every variable has its type; the counts are those of a uint8_t.
TypeOK ==
  /\ stat \in Statuses /\ state \in Statuses /\ last \in Statuses \union {"none"}
  /\ con \subseteq {"STA", "STO", "AA"}
  /\ dat \in Int
  /\ bus \in {"free", "us", "other"} /\ takes \in Nat /\ errors \in Nat
  /\ mode \in {"master", "slave"} /\ size \in 0 .. MaxBytes
  /\ pc \in {"idle", "look", "act", "wait"} /\ op \in {"read", "write", "slave_write"}
  /\ n \in 0 .. (Byte - 1) /\ realn \in 0 .. (Byte - 1) /\ ptr \in Nat \ {0}
  /\ asked \in 0 .. MaxBytes /\ stop \in BOOLEAN /\ calls \in Nat
  /\ ret \in [status : Returns, count : 0 .. (Byte - 1), wire : Seq(Nat)]
  /\ wire \in Seq(Nat) /\ stored \in Seq((Nat \ {0}) \X Nat) /\ lost \in BOOLEAN

Buffer(k) == [i \in 1 .. k |-> i]

\* i2c.h:85 "the effective number of bytes transmitted": when write() says it sent
\* its bytes or that one was refused, the slave got that many, from the first on,
\* each once, and a success is the whole buffer.
WriteSendsBuffer ==
  (pc = "idle" /\ op = "write" /\ ret.status \in {"SUCCESSFUL_TRANSMISSION",
                                                   "SLAVE_DID_NOT_ACKNOWLEDGED_DATA"}) =>
    /\ ret.wire = Buffer(ret.count)
    /\ ret.status = "SUCCESSFUL_TRANSMISSION" => ret.count = asked

\* The same for a call that lost no byte to another master.
UndisturbedWriteSendsBuffer == lost \/ WriteSendsBuffer

\* A read that succeeded stored the bytes the other device sent, in order and at
\* their places, as many as were asked for; a slave that saw a STOP stored all
\* there was, and after its last byte refused the next (i2c.c:456, 549).
ReadStoresBytes ==
  (pc = "idle" /\ op = "read" /\ ret.status \in {"SUCCESSFUL_TRANSMISSION",
                                                  "STOP_CONDITION_RECEIVED"}) =>
    /\ stored = [i \in 1 .. ret.count |-> <<i, i>>]
    /\ IF ret.status = "SUCCESSFUL_TRANSMISSION"
         THEN ret.count = asked /\ Len(ret.wire) = asked + (IF mode = "slave" THEN 1 ELSE 0)
         ELSE Len(ret.wire) = ret.count

\* No byte is stored past the buffer of a read, whatever mode and calls came
\* before; it is the AA flag at the right time that stops the other device.
NoOverrun == \A i \in 1 .. Len(stored) : stored[i][1] <= asked

\* A slave never asks for the bus or holds it: read() just waits (i2c.c:388), and
\* nothing a master asked for outlives init (i2c.c:153).
SlaveStaysSlave == mode = "slave" => "STA" \notin con /\ bus # "us"

\* i2c.h:107: SLAVE_TRANSMITTED_DATA means that the other master took as many bytes
\* as were set, but for whole rounds of the byte that counts them: nothing stops a
\* master that reads on (i2c.c:333).  All of them are bytes of the buffer (from the
\* third on it is the second byte again, i2c.c:336).
TransmittedMeansTaken ==
  (pc = "idle" /\ ret.status = "SLAVE_TRANSMITTED_DATA") =>
    /\ Len(ret.wire) % Byte = ret.count
    /\ \A i \in 1 .. Len(ret.wire) : ret.wire[i] \in 1 .. ret.count

\* Between two calls the master gives the bus back, or is to keep it because the
\* caller said so (stop = 0), because the call failed on the address, where STO is
\* set but the STA of 0xF8 remains (i2c.c:236, 435, 218), or on a bus error.
BusKept ==
  (pc = "idle" /\ mode = "master" /\ ("STA" \in con \/ (bus = "us" /\ "STO" \notin con))) =>
    \/ ret.status \in {"SLAVE_IS_BUSY", "SIZE_EQUAL_TO_ZERO", "UNKNOWN_ERROR", "-1"}
    \/ ret.status = "SUCCESSFUL_TRANSMISSION" /\ ~stop

\* What a call that sends answers is what the other device got, as master and as
\* slave, byte by byte, refusals and bus errors at any point included (i2c.h:85-107).
WritesAreRight == TypeOK /\ UndisturbedWriteSendsBuffer /\ TransmittedMeansTaken

\* What a read leaves in the caller's buffer is what the other device sent, and not a
\* byte past its end, whatever mode and calls came before (i2c.c:439-485, 539-604).
ReadsAreRight == ReadStoresBytes /\ NoOverrun

\* The bus is held by nobody who should not: the master gives it back, a slave never
\* asks for it (i2c.c:153, 388).
BusIsShared == BusKept /\ SlaveStaysSlave

\* Every call of a master returns, and so does that of a slave that was addressed,
\* unless a read loses arbitration, a status read() has no case for.
CallReturns ==
  [](~(op = "read" /\ stat = "38")) =>
    ((pc # "idle" /\ (mode = "master" \/ stat \in SlaveStatuses)) ~> pc = "idle")
=============================================================================
