------------------------------ MODULE I2cProofs ------------------------------
(***************************************************************************)
(* Proofs about the I2C driver, for buffers of any size a byte can count,  *)
(* any number of calls and of bytes on the bus, and any number of errors   *)
(* and masters that interfere.                                             *)
(*                                                                         *)
(* What a call returns is decided many steps of the bus after it began, so *)
(* the invariant says of every status the block may be in, or go on from,  *)
(* what the variables of the call and the history of the wire are then:    *)
(* WritingInv for a master that sends, ReadingInv for one that reads,      *)
(* SlaveInv for a slave.  IdleBus and Flags say what one call leaves for   *)
(* the next: no half of a transfer, and no acknowledge bit.                *)
(***************************************************************************)
EXTENDS I2c, TLAPS

\* The places of a buffer that is filled up to the k-th byte.
Filled(k) == [i \in 1 .. k |-> <<i, i>>]

\* The block is to go on from status s, with no START or STOP to send before.
OnFrom(s) == stat = "F8" /\ last \in s /\ con \intersect {"STA", "STO"} = {}

\* The block has nothing to go on from, or a START or a STOP to send.
Resting ==
  /\ stat = "F8"
  /\ \/ last = "none"
     \/ last \in {"18", "20", "28", "30", "48", "58"} /\ con \intersect {"STA", "STO"} # {}

\* A call has not looked at the bus since it was made, or saw nothing there.
JustCalled == (pc = "look" /\ stat = "F8") \/ (pc = "act" /\ state = "F8")

\* The status acted on is the one in the register, unless it came after a look that
\* saw none.
LookedRight ==
  pc = "act" => \/ state = stat
                \/ state = "F8" /\ stat \in {"00", "08", "10", "60", "A8"}

\* Between two calls, and until the first look of a call, no transfer is half done.
IdleBus ==
  (pc = "idle" \/ JustCalled) =>
    stat \in {"00", "08", "10", "60", "A8"} \/ Resting

\* Which statuses each mode sees.
Roles ==
  /\ mode = "master" =>
       /\ stat \in MasterStatuses \union {"00", "F8"}
       /\ last \in (MasterStatuses \ {"38"}) \union {"none"}
       /\ op = "slave_write" => pc = "idle"
       /\ ret.status \notin {"STOP_CONDITION_RECEIVED", "SLAVE_TRANSMITTED_DATA"}
  /\ mode = "slave" =>
       /\ stat \in SlaveStatuses \union {"00", "F8"}
       /\ last \in {"none", "60", "80", "A8", "B8"}
       /\ op = "write" => pc = "idle"

\* A STOP is asked for only at the end of a transfer, and comes before all else; in a
\* transfer no START is; a master acknowledges only while it expects one more byte, or
\* after a bus error.
Flags ==
  /\ mode = "slave" => con \subseteq {"AA"} /\ bus # "us"
  /\ "STO" \in con => stat = "F8" /\ last \in {"18", "20", "28", "30", "48", "58"}
  /\ stat \in {"28", "30", "50", "58"} => "STA" \notin con
  /\ (stat = "F8" /\ last \in {"40", "50"}) => con \intersect {"STA", "STO"} = {}
  /\ (mode = "master" /\ "AA" \in con) =>
       \/ stat = "00"
       \/ op = "read" /\ pc # "idle" /\ (stat = "50" \/ OnFrom({"40", "50"}))

\* What is about to be sent is a byte.
ByteToSend == OnFrom({"18", "28", "A8", "B8"}) => dat \in Nat

\* A master sends.  Bytes left and bytes sent are the whole buffer, and the wire has
\* all of those sent but the one under way.
WritingInv ==
  (op = "write" /\ pc # "idle") =>
    /\ mode = "master"
    /\ stat \notin {"40", "48", "50", "58"}
    /\ OnFrom({"08", "10"}) \/ (stat = "F8" /\ last \in {"08", "10"}) => dat = SlaveW
    /\ (stat = "F8" /\ last \notin {"08", "10"}) => Resting \/ OnFrom({"18", "28"})
    /\ ~lost =>
         /\ n + realn = asked /\ ptr = realn + 1
         /\ stat \in {"08", "10", "18", "20", "38"} => realn = 0
         /\ (stat = "F8" /\ ~OnFrom({"18", "28"})) => realn = 0
         /\ stat = "18" => wire = <<>>
         /\ OnFrom({"18", "28"}) => realn > 0 /\ dat = realn /\ wire = Buffer(realn - 1)
         /\ stat \in {"28", "30"} => wire = Buffer(realn)

\* A master reads.  It stores what it received, and acknowledges all but the last byte.
ReadingInv ==
  (op = "read" /\ pc # "idle" /\ mode = "master") =>
    /\ asked > 0 /\ n > 0 /\ n + realn = asked /\ ptr = realn + 1
    /\ stored = Filled(realn)
    /\ stat \notin {"18", "20", "28", "30"}
    /\ (stat = "F8" /\ last \in {"08", "10"}) => dat = SlaveR
    /\ (stat = "F8" /\ last \notin {"08", "10"}) => Resting \/ OnFrom({"40", "50"})
    /\ (stat \in {"08", "10", "40", "48"} \/ (stat = "F8" /\ last \notin {"40", "50"})) => realn = 0
    /\ stat = "40" => wire = <<>>
    /\ OnFrom({"40", "50"}) => Len(wire) = realn /\ ("AA" \in con <=> n > 1)
    /\ stat \in {"50", "58"} => Len(wire) = realn + 1 /\ dat = realn + 1
    /\ stat = "50" => n > 1
    /\ stat = "58" => n = 1

\* A slave is written to.
WrittenInv ==
  (op = "read" /\ pc # "idle" /\ mode = "slave") =>
    /\ asked > 0 /\ size > 0 /\ n + realn = asked
    /\ stored = Filled(realn)
    /\ n > 0 => ptr = realn + 1
    /\ stat \notin {"B8", "C0", "C8"}
    /\ (stat = "F8" /\ last \notin {"60", "80"}) => Resting
    /\ (stat \in {"60", "A8"} \/ Resting) => realn = 0
    /\ (stat = "F8" /\ last \in {"60", "80"}) => Len(wire) = realn /\ ("AA" \in con <=> n > 0)
    /\ stat = "80" => n > 0 /\ Len(wire) = realn + 1 /\ dat = realn + 1
    /\ stat = "88" => n = 0 /\ Len(wire) = realn + 1
    /\ stat = "A0" => Len(wire) = realn

\* k bytes are counted as r, but for whole rounds of the byte that counts them.
Counted(k, r) == \E q \in Nat : k = q * Byte + r

\* A slave is read from.  The count is that of the wire, modulo a byte.
ReadFromInv ==
  (op = "slave_write" /\ pc # "idle") =>
    /\ mode = "slave" /\ size > 0
    /\ stat \in {"00", "A8", "B8", "C0", "C8"} \/ OnFrom({"A8", "B8"})
    /\ pc \in {"look", "act"} => stat # "F8"
    /\ pc = "act" => state # "F8"
    /\ ptr \in 1 .. size
    /\ \A i \in 1 .. Len(wire) : wire[i] \in 1 .. size
    /\ stat = "A8" => n = size /\ realn = 0 /\ ptr = 1
    /\ OnFrom({"A8", "B8"}) => dat \in 1 .. size /\ Counted(Len(wire) + 1, realn)
    /\ stat \in {"B8", "C0", "C8"} => Counted(Len(wire), realn)

\* Who was addressed starts with an empty wire.
AddressedInv == stat \in {"60", "A8"} => wire = <<>>

Control == LookedRight /\ IdleBus /\ Roles /\ Flags /\ ByteToSend /\ AddressedInv

Calling == WritingInv /\ ReadingInv /\ WrittenInv /\ ReadFromInv

Answered == UndisturbedWriteSendsBuffer /\ ReadStoresBytes /\ TransmittedMeansTaken
              /\ NoOverrun /\ BusKept

IndInv == TypeOK /\ Control /\ Calling /\ Answered

-----------------------------------------------------------------------------
(***************************************************************************)
(* Buffers and counts                                                      *)
(***************************************************************************)

\* An empty buffer is the empty sequence; one more byte is appended.
LEMMA BufferEmpty == Buffer(0) = <<>>
BY DEF Buffer

LEMMA BufferNext ==
  ASSUME NEW k \in Nat \ {0}
  PROVE  Append(Buffer(k - 1), k) = Buffer(k)
BY DEF Buffer

LEMMA FilledEmpty == Filled(0) = <<>>
BY DEF Filled

LEMMA FilledNext ==
  ASSUME NEW k \in Nat
  PROVE  /\ Append(Filled(k), <<k + 1, k + 1>>) = Filled(k + 1)
         /\ Len(Filled(k)) = k
BY DEF Filled

\* A byte counts modulo Byte.
LEMMA Modulo ==
  /\ \A k \in Int : k % Byte \in 0 .. (Byte - 1)
  /\ \A k \in 0 .. (Byte - 1) : k % Byte = k
BY BoundAssumption

LEMMA Bytewise ==
  /\ \A k \in 0 .. (Byte - 1) : Less1(k) \in 0 .. (Byte - 1) /\ Plus1(k) \in 0 .. (Byte - 1)
  /\ \A k \in 1 .. (Byte - 1) : Less1(k) = k - 1
  /\ \A k \in 0 .. (Byte - 2) : Plus1(k) = k + 1
BY Modulo, BoundAssumption DEF Less1, Plus1

LEMMA CountedFew ==
  ASSUME NEW k \in Nat
  PROVE  Counted(k, k)
<1>1. k = 0 * Byte + k
  BY BoundAssumption
<1>2. QED
  BY <1>1 DEF Counted

LEMMA CountedNext ==
  ASSUME NEW k \in Nat, NEW r \in 0 .. (Byte - 1), Counted(k, r)
  PROVE  Counted(k + 1, Plus1(r))
<1>1. PICK q \in Nat : k = q * Byte + r
  BY DEF Counted
<1>2. CASE r + 1 \in 0 .. (Byte - 1)
  <2>1. Plus1(r) = r + 1
    BY <1>2, Modulo DEF Plus1
  <2>2. QED
    BY <1>1, <2>1, BoundAssumption DEF Counted
<1>3. CASE r + 1 = Byte
  <2>1. Plus1(r) = 0
    BY <1>3, BoundAssumption DEF Plus1
  <2>2. k + 1 = (q + 1) * Byte + 0
    BY <1>1, <1>3, BoundAssumption
  <2>3. QED
    BY <2>1, <2>2 DEF Counted
<1>4. QED
  BY <1>2, <1>3, BoundAssumption

LEMMA CountedIsModulo ==
  ASSUME NEW k \in Nat, NEW r \in 0 .. (Byte - 1), Counted(k, r)
  PROVE  k % Byte = r
BY BoundAssumption DEF Counted

-----------------------------------------------------------------------------
(***************************************************************************)
(* The steps of the driver and of the bus preserve the invariant           *)
(***************************************************************************)
USE BoundAssumption
USE DEF block, others, locals, param, past, running
USE DEF MasterStatuses, SlaveStatuses, Statuses, Over, Returns, SlaveW, SlaveR, NoCall
USE DEF At, Go, Again, Return, Report, Enabled
USE DEF Control, Calling
USE DEF LookedRight, IdleBus, Roles, Flags, ByteToSend, AddressedInv
USE DEF WritingInv, ReadingInv, WrittenInv, ReadFromInv, Resting, OnFrom, JustCalled
USE DEF UndisturbedWriteSendsBuffer, WriteSendsBuffer, ReadStoresBytes, TransmittedMeansTaken,
        NoOverrun, BusKept

\* A new init clears the flags, the status and what the block went on from.
LEMMA ReinitInd ==
  ASSUME IndInv, NEW m \in {"master", "slave"}, Reinit(m)
  PROVE  IndInv'
<1>1. TypeOK'
  BY DEF IndInv, TypeOK, Reinit
<1>2. Control'
  BY DEF IndInv, TypeOK, Reinit
<1>3. Calling'
  BY DEF IndInv, TypeOK, Reinit
<1>4. Answered'
  BY DEF IndInv, TypeOK, Reinit, Answered
<1>5. QED
  BY <1>1, <1>2, <1>3, <1>4 DEF IndInv

\* The transmit buffer is only set between two calls.
LEMMA SetSlaveBufferInd ==
  ASSUME IndInv, NEW s \in 0 .. MaxBytes, SetSlaveBuffer(s)
  PROVE  IndInv'
<1>1. TypeOK'
  BY DEF IndInv, TypeOK, SetSlaveBuffer
<1>2. Control'
  BY DEF IndInv, TypeOK, SetSlaveBuffer
<1>3. Calling'
  BY DEF IndInv, TypeOK, SetSlaveBuffer
<1>4. Answered'
  BY DEF IndInv, TypeOK, SetSlaveBuffer, Answered
<1>5. QED
  BY <1>1, <1>2, <1>3, <1>4 DEF IndInv

\* A call begins on a bus where no transfer is half done.
LEMMA CallInd ==
  ASSUME IndInv, NEW o \in {"read", "write"}, NEW k \in 0 .. MaxBytes, NEW s \in BOOLEAN,
         Call(o, k, s)
  PROVE  IndInv'
<1>1. TypeOK'
  <2>1. stop' \in BOOLEAN /\ lost' \in BOOLEAN
    BY DEF IndInv, TypeOK, Call
  <2>2. QED
    BY <2>1 DEF IndInv, TypeOK, Call
<1>2. Control'
  BY DEF IndInv, TypeOK, Call
<1>3. Calling'
  <2>1. stored' = Filled(0)
    BY FilledEmpty DEF IndInv, TypeOK, Call
  <2>2. WritingInv'
    BY DEF IndInv, TypeOK, Call
  <2>3. ReadingInv'
    BY <2>1 DEF IndInv, TypeOK, Call
  <2>4. WrittenInv'
    BY <2>1 DEF IndInv, TypeOK, Call
  <2>5. ReadFromInv'
    BY DEF IndInv, TypeOK, Call
  <2>6. QED
    BY <2>2, <2>3, <2>4, <2>5
<1>4. Answered'
  BY DEF IndInv, TypeOK, Call, Answered
<1>5. QED
  BY <1>1, <1>2, <1>3, <1>4 DEF IndInv

\* What is acted on is the status just read.
LEMMA LookInd ==
  ASSUME IndInv, Look
  PROVE  IndInv'
<1>1. TypeOK'
  BY DEF IndInv, TypeOK, Look
<1>2. Control'
  BY DEF IndInv, TypeOK, Look
<1>3. Calling'
  BY DEF IndInv, TypeOK, Look
<1>4. Answered'
  BY DEF IndInv, TypeOK, Look, Answered
<1>5. QED
  BY <1>1, <1>2, <1>3, <1>4 DEF IndInv

\* A status that is set stays until the driver clears SI.
LEMMA WaitInd ==
  ASSUME IndInv, Wait
  PROVE  IndInv'
<1>1. TypeOK'
  BY DEF IndInv, TypeOK, Wait
<1>2. Control'
  BY DEF IndInv, TypeOK, Wait
<1>3. Calling'
  BY DEF IndInv, TypeOK, Wait
<1>4. Answered'
  BY DEF IndInv, TypeOK, Wait, Answered
<1>5. QED
  BY <1>1, <1>2, <1>3, <1>4 DEF IndInv

\* A master that saw nothing asks for a START, a slave for nothing.
LEMMA AskBusInd ==
  ASSUME IndInv, AskBus
  PROVE  IndInv'
<1>1. TypeOK'
  BY DEF IndInv, TypeOK, AskBus
<1>2. Control'
  BY DEF IndInv, TypeOK, AskBus
<1>3. Calling'
  BY DEF IndInv, TypeOK, AskBus
<1>4. Answered'
  BY DEF IndInv, TypeOK, AskBus, Answered
<1>5. QED
  BY <1>1, <1>2, <1>3, <1>4 DEF IndInv

\* The address goes out with the R/W bit of the call.
LEMMA SendAddressInd ==
  ASSUME IndInv, SendAddress
  PROVE  IndInv'
<1>1. TypeOK'
  BY DEF IndInv, TypeOK, SendAddress
<1>2. Control'
  BY DEF IndInv, TypeOK, SendAddress
<1>3. Calling'
  BY DEF IndInv, TypeOK, SendAddress
<1>4. Answered'
  BY DEF IndInv, TypeOK, SendAddress, Answered
<1>5. QED
  BY <1>1, <1>2, <1>3, <1>4 DEF IndInv

\* A refused address ends the call before a byte was sent or stored.
LEMMA AddressRefusedInd ==
  ASSUME IndInv, AddressRefused
  PROVE  IndInv'
<1>1. TypeOK'
  BY DEF IndInv, TypeOK, AddressRefused
<1>2. Control'
  BY DEF IndInv, TypeOK, AddressRefused
<1>3. Calling'
  BY DEF IndInv, TypeOK, AddressRefused
<1>4. Answered'
  BY DEF IndInv, TypeOK, AddressRefused, Answered
<1>5. QED
  BY <1>1, <1>2, <1>3, <1>4 DEF IndInv

\* A bus error ends the call with no success.
LEMMA BusFaultInd ==
  ASSUME IndInv, BusFault
  PROVE  IndInv'
<1>1. TypeOK'
  BY DEF IndInv, TypeOK, BusFault
<1>2. Control'
  BY DEF IndInv, TypeOK, BusFault
<1>3. Calling'
  BY DEF IndInv, TypeOK, BusFault
<1>4. UndisturbedWriteSendsBuffer' /\ ReadStoresBytes'
  BY DEF IndInv, TypeOK, BusFault, Answered
<1>5. TransmittedMeansTaken'
  BY DEF IndInv, TypeOK, BusFault, Answered
<1>6. NoOverrun' /\ BusKept'
  BY DEF IndInv, TypeOK, BusFault, Answered
<1>7. QED
  BY <1>1, <1>2, <1>3, <1>4, <1>5, <1>6 DEF IndInv, Answered

\* The status without a case is kept.
LEMMA NoCaseInd ==
  ASSUME IndInv, NoCase
  PROVE  IndInv'
<1>1. TypeOK'
  BY DEF IndInv, TypeOK, NoCase
<1>2. Control'
  BY DEF IndInv, TypeOK, NoCase
<1>3. Calling'
  BY DEF IndInv, TypeOK, NoCase
<1>4. Answered'
  BY DEF IndInv, TypeOK, NoCase, Answered
<1>5. QED
  BY <1>1, <1>2, <1>3, <1>4 DEF IndInv

\* An empty buffer is refused, with a STOP.
LEMMA NothingToSendInd ==
  ASSUME IndInv, NothingToSend
  PROVE  IndInv'
<1>1. TypeOK'
  BY DEF IndInv, TypeOK, NothingToSend
<1>2. Control'
  BY DEF IndInv, TypeOK, NothingToSend
<1>3. Calling'
  BY DEF IndInv, TypeOK, NothingToSend
<1>4. Answered'
  BY DEF IndInv, TypeOK, NothingToSend, Answered
<1>5. QED
  BY <1>1, <1>2, <1>3, <1>4 DEF IndInv

\* The first byte sent is that of the buffer.
LEMMA SendFirstInd ==
  ASSUME IndInv, SendFirst
  PROVE  IndInv'
<1>1. TypeOK
  BY DEF IndInv
<1>2. TypeOK'
  <2>1. n' \in 0 .. (Byte - 1) /\ realn' \in 0 .. (Byte - 1)
    BY <1>1, Bytewise DEF TypeOK, SendFirst, Put
  <2>2. dat' \in Int /\ ptr' \in Nat \ {0}
    BY <1>1 DEF TypeOK, SendFirst, Put
  <2>3. QED
    BY <1>1, <2>1, <2>2 DEF TypeOK, SendFirst, Put
<1>3. Control'
  BY DEF IndInv, TypeOK, SendFirst, Put
<1>4. Calling'
  <2>1. WritingInv'
    <3>1. ~lost => /\ wire = Buffer(realn) /\ n + realn = asked /\ ptr = realn + 1
                   /\ n > 0 /\ realn \in 0 .. (Byte - 2) /\ n \in 1 .. (Byte - 1)
      BY BufferEmpty DEF IndInv, TypeOK, SendFirst
    <3>2. ~lost => n' = n - 1 /\ realn' = realn + 1
      BY <3>1, Bytewise DEF SendFirst, Put
    <3>3. ~lost => realn' > 0 /\ dat' = realn' /\ wire' = Buffer(realn' - 1)
      <4>1. ~lost => realn' - 1 = realn
        BY <3>1, <3>2
      <4>2. ~lost => wire' = Buffer(realn' - 1)
        BY <3>1, <4>1 DEF SendFirst
      <4>3. QED
        BY <3>1, <3>2, <4>2 DEF SendFirst, Put
    <3>4. /\ ~lost' => n' + realn' = asked' /\ ptr' = realn' + 1
          /\ op' = "write" /\ mode' = "master" /\ stat' = "F8" /\ last' \in {"18", "28"}
          /\ con' \intersect {"STA", "STO"} = {} /\ lost' = lost
      BY <3>1, <3>2 DEF IndInv, SendFirst, Put
    <3>5. QED
      BY <3>3, <3>4
  <2>2. ReadingInv' /\ WrittenInv' /\ ReadFromInv'
    BY DEF IndInv, TypeOK, SendFirst, Put
  <2>3. QED
    BY <2>1, <2>2
<1>5. Answered'
  BY DEF IndInv, TypeOK, SendFirst, Put, Answered
<1>6. QED
  BY <1>2, <1>3, <1>4, <1>5 DEF IndInv

\* The next byte is sent after the slave took the one before.
LEMMA SendNextInd ==
  ASSUME IndInv, SendNext
  PROVE  IndInv'
<1>1. TypeOK
  BY DEF IndInv
<1>2. TypeOK'
  <2>1. n' \in 0 .. (Byte - 1) /\ realn' \in 0 .. (Byte - 1)
    BY <1>1, Bytewise DEF TypeOK, SendNext, Put
  <2>2. dat' \in Int /\ ptr' \in Nat \ {0}
    BY <1>1 DEF TypeOK, SendNext, Put
  <2>3. QED
    BY <1>1, <2>1, <2>2 DEF TypeOK, SendNext, Put
<1>3. Control'
  BY DEF IndInv, TypeOK, SendNext, Put
<1>4. Calling'
  <2>1. WritingInv'
    <3>1. ~lost => /\ wire = Buffer(realn) /\ n + realn = asked /\ ptr = realn + 1
                   /\ n > 0 /\ realn \in 0 .. (Byte - 2) /\ n \in 1 .. (Byte - 1)
      BY BufferEmpty DEF IndInv, TypeOK, SendNext
    <3>2. ~lost => n' = n - 1 /\ realn' = realn + 1
      BY <3>1, Bytewise DEF SendNext, Put
    <3>3. ~lost => realn' > 0 /\ dat' = realn' /\ wire' = Buffer(realn' - 1)
      <4>1. ~lost => realn' - 1 = realn
        BY <3>1, <3>2
      <4>2. ~lost => wire' = Buffer(realn' - 1)
        BY <3>1, <4>1 DEF SendNext
      <4>3. QED
        BY <3>1, <3>2, <4>2 DEF SendNext, Put
    <3>4. /\ ~lost' => n' + realn' = asked' /\ ptr' = realn' + 1
          /\ op' = "write" /\ mode' = "master" /\ stat' = "F8" /\ last' \in {"18", "28"}
          /\ con' \intersect {"STA", "STO"} = {} /\ lost' = lost
      BY <3>1, <3>2 DEF IndInv, SendNext, Put
    <3>5. QED
      BY <3>3, <3>4
  <2>2. ReadingInv' /\ WrittenInv' /\ ReadFromInv'
    BY DEF IndInv, TypeOK, SendNext, Put
  <2>3. QED
    BY <2>1, <2>2
<1>5. Answered'
  BY DEF IndInv, TypeOK, SendNext, Put, Answered
<1>6. QED
  BY <1>2, <1>3, <1>4, <1>5 DEF IndInv

\* When no byte is left the wire has the whole buffer.
LEMMA AllSentInd ==
  ASSUME IndInv, AllSent
  PROVE  IndInv'
<1>1. TypeOK'
  BY DEF IndInv, TypeOK, AllSent
<1>2. Control'
  BY DEF IndInv, TypeOK, AllSent
<1>3. Calling'
  BY DEF IndInv, TypeOK, AllSent
<1>4. Answered'
  BY DEF IndInv, TypeOK, AllSent, Answered
<1>5. QED
  BY <1>1, <1>2, <1>3, <1>4 DEF IndInv

\* A refused byte is on the wire, and the last one there.
LEMMA DataRefusedInd ==
  ASSUME IndInv, DataRefused
  PROVE  IndInv'
<1>1. TypeOK'
  BY DEF IndInv, TypeOK, DataRefused
<1>2. Control'
  BY DEF IndInv, TypeOK, DataRefused
<1>3. Calling'
  BY DEF IndInv, TypeOK, DataRefused
<1>4. Answered'
  BY DEF IndInv, TypeOK, DataRefused, Answered
<1>5. QED
  BY <1>1, <1>2, <1>3, <1>4 DEF IndInv

\* A call that lost the bus asks for it again.
LEMMA LostWriteInd ==
  ASSUME IndInv, LostWrite
  PROVE  IndInv'
<1>1. TypeOK'
  BY DEF IndInv, TypeOK, LostWrite
<1>2. Control'
  BY DEF IndInv, TypeOK, LostWrite
<1>3. Calling'
  BY DEF IndInv, TypeOK, LostWrite
<1>4. Answered'
  BY DEF IndInv, TypeOK, LostWrite, Answered
<1>5. QED
  BY <1>1, <1>2, <1>3, <1>4 DEF IndInv

\* The first byte is acknowledged only when more are expected.
LEMMA ReadStartsInd ==
  ASSUME IndInv, ReadStarts
  PROVE  IndInv'
<1>1. TypeOK'
  BY DEF IndInv, TypeOK, ReadStarts
<1>2. Control'
  BY DEF IndInv, TypeOK, ReadStarts
<1>3. Calling'
  BY DEF IndInv, TypeOK, ReadStarts
<1>4. Answered'
  BY DEF IndInv, TypeOK, ReadStarts, Answered
<1>5. QED
  BY <1>1, <1>2, <1>3, <1>4 DEF IndInv

\* A byte received is stored at its place.
LEMMA ReceivedInd ==
  ASSUME IndInv, Received
  PROVE  IndInv'
<1>1. TypeOK
  BY DEF IndInv
<1>2. /\ mode = "master" /\ n > 1 /\ n + realn = asked
      /\ realn \in Nat /\ ptr = realn + 1 /\ dat = realn + 1 /\ stored = Filled(realn)
  BY DEF IndInv, TypeOK, Received, Take
<1>3. n' = n - 1 /\ realn' = realn + 1
  BY <1>1, <1>2, Bytewise DEF TypeOK, Received, Take
<1>4. TypeOK'
  <2>1. stored' \in Seq((Nat \ {0}) \X Nat)
    BY <1>2, <1>1 DEF TypeOK, Received, Take
  <2>2. con' \subseteq {"STA", "STO", "AA"} /\ stat' = "F8" /\ last' \in Statuses \union {"none"}
    BY <1>1 DEF TypeOK, Received
  <2>3. n' \in 0 .. (Byte - 1) /\ realn' \in 0 .. (Byte - 1) /\ ptr' \in Nat \ {0}
    BY <1>1, Bytewise DEF TypeOK, Received, Take
  <2>4. QED
    BY <1>1, <2>1, <2>2, <2>3 DEF TypeOK, Received
<1>5. Control'
  <2>1. LookedRight' /\ IdleBus' /\ AddressedInv'
    BY <1>2 DEF IndInv, TypeOK, Received, Take
  <2>2. Roles' /\ ByteToSend'
    BY <1>2 DEF IndInv, TypeOK, Received, Take
  <2>3. Flags'
    BY <1>2, <1>3 DEF IndInv, TypeOK, Received, Take
  <2>4. QED
    BY <2>1, <2>2, <2>3
<1>6. Calling'
  <2>1. stored' = Filled(realn')
    <3>1. stored' = Append(Filled(realn), <<realn + 1, realn + 1>>)
      BY <1>2, <1>1 DEF TypeOK, Received, Take
    <3>2. QED
      BY <1>2, <1>3, <3>1, FilledNext
  <2>2. ReadingInv'
    <3>1. /\ stat' = "F8" /\ last' = "50" /\ con' \intersect {"STA", "STO"} = {}
          /\ "AA" \in con' <=> n' > 1
      BY <1>2, <1>3 DEF IndInv, Received
    <3>2. /\ asked' > 0 /\ n' > 0 /\ n' + realn' = asked' /\ ptr' = realn' + 1
          /\ Len(wire') = realn'
      BY <1>1, <1>2, <1>3 DEF IndInv, TypeOK, Received, Take
    <3>3. QED
      BY <2>1, <3>1, <3>2
  <2>3. WritingInv' /\ WrittenInv' /\ ReadFromInv'
    BY <1>2, <1>1 DEF TypeOK, Received, Take
  <2>4. QED
    BY <2>2, <2>3
<1>7. Answered'
  BY <1>2, <1>3 DEF IndInv, TypeOK, Received, Take, Answered
<1>8. QED
  BY <1>4, <1>5, <1>6, <1>7 DEF IndInv

\* The last byte completes the buffer.
LEMMA ReceivedLastInd ==
  ASSUME IndInv, ReceivedLast
  PROVE  IndInv'
<1>1. TypeOK
  BY DEF IndInv
<1>2. /\ mode = "master" /\ n = 1 /\ realn + 1 = asked
      /\ realn \in Nat /\ ptr = realn + 1 /\ dat = realn + 1 /\ stored = Filled(realn)
      /\ Len(wire) = realn + 1
  BY DEF IndInv, TypeOK, ReceivedLast, Take
<1>3. realn' = asked
  BY <1>1, <1>2, Bytewise DEF TypeOK, ReceivedLast, Take
<1>4. TypeOK' /\ Control' /\ Calling'
  <2>1. stored' \in Seq((Nat \ {0}) \X Nat)
    BY <1>2, <1>1 DEF TypeOK, ReceivedLast, Take
  <2>2. TypeOK'
    BY <1>2, <1>3, <2>1 DEF IndInv, TypeOK, ReceivedLast, Take
  <2>3. Control' /\ Calling'
    BY <1>2, <1>3 DEF IndInv, TypeOK, ReceivedLast, Take
  <2>4. QED
    BY <2>2, <2>3
<1>5. stored' = Filled(asked) /\ asked' = asked /\ asked \in Nat
  <2>1. stored' = Append(Filled(realn), <<realn + 1, realn + 1>>)
    BY <1>2, <1>1 DEF TypeOK, ReceivedLast, Take
  <2>2. QED
    BY <1>1, <1>2, <2>1, FilledNext DEF TypeOK, ReceivedLast
<1>6. ReadStoresBytes' /\ NoOverrun'
  <2>1. NoOverrun'
    BY <1>5 DEF Filled
  <2>2. ReadStoresBytes'
    BY <1>2, <1>3, <1>5 DEF TypeOK, ReceivedLast, Filled
  <2>3. QED
    BY <2>1, <2>2
<1>7. UndisturbedWriteSendsBuffer' /\ TransmittedMeansTaken' /\ BusKept'
  BY <1>2 DEF IndInv, TypeOK, ReceivedLast, Answered
<1>8. QED
  BY <1>4, <1>6, <1>7 DEF IndInv, Answered

\* A slave acknowledges that it is written to.
LEMMA WrittenToInd ==
  ASSUME IndInv, WrittenTo
  PROVE  IndInv'
<1>1. TypeOK'
  BY DEF IndInv, TypeOK, WrittenTo
<1>2. Control'
  BY DEF IndInv, TypeOK, WrittenTo
<1>3. Calling'
  BY DEF IndInv, TypeOK, WrittenTo
<1>4. Answered'
  BY DEF IndInv, TypeOK, WrittenTo, Answered
<1>5. QED
  BY <1>1, <1>2, <1>3, <1>4 DEF IndInv

\* A slave stores a byte and acknowledges the next while there is room.
LEMMA SlaveReceivedInd ==
  ASSUME IndInv, SlaveReceived
  PROVE  IndInv'
<1>1. TypeOK
  BY DEF IndInv
<1>2. /\ mode = "slave" /\ n > 0 /\ n + realn = asked
      /\ realn \in Nat /\ ptr = realn + 1 /\ dat = realn + 1 /\ stored = Filled(realn)
      /\ stat = "80" /\ asked > 0 /\ size > 0 /\ Len(wire) = realn + 1
  BY DEF IndInv, TypeOK, SlaveReceived, Take
<1>3. n' = n - 1 /\ realn' = realn + 1
  BY <1>1, <1>2, Bytewise DEF TypeOK, SlaveReceived, Take
<1>4. TypeOK'
  <2>1. stored' \in Seq((Nat \ {0}) \X Nat)
    BY <1>2, <1>1 DEF TypeOK, SlaveReceived, Take
  <2>2. con' \subseteq {"STA", "STO", "AA"} /\ stat' = "F8" /\ last' \in Statuses \union {"none"}
    BY <1>1 DEF TypeOK, SlaveReceived
  <2>3. n' \in 0 .. (Byte - 1) /\ realn' \in 0 .. (Byte - 1) /\ ptr' \in Nat \ {0}
    BY <1>1, Bytewise DEF TypeOK, SlaveReceived, Take
  <2>4. QED
    BY <1>1, <2>1, <2>2, <2>3 DEF TypeOK, SlaveReceived
<1>5. Control'
  <2>1. Flags'
    <3>1. con' \subseteq {"AA"} /\ bus' # "us" /\ mode' = "slave" /\ stat' = "F8"
      BY <1>2 DEF IndInv, SlaveReceived
    <3>2. QED
      BY <3>1
  <2>2. (LookedRight /\ IdleBus /\ Roles /\ ByteToSend /\ AddressedInv)'
    BY <1>2, <1>3 DEF IndInv, TypeOK, SlaveReceived, Take
  <2>3. QED
    BY <2>1, <2>2
<1>6. Calling'
  <2>1. stored' = Filled(realn')
    <3>1. stored' = Append(Filled(realn), <<realn + 1, realn + 1>>)
      BY <1>2, <1>1 DEF TypeOK, SlaveReceived, Take
    <3>2. QED
      BY <1>2, <1>3, <3>1, FilledNext
  <2>2. WrittenInv'
    <3>1. /\ stat' = "F8" /\ last' = "80" /\ mode' = "slave" /\ size' > 0
          /\ "AA" \in con' <=> n' > 0
      BY <1>1, <1>2, <1>3 DEF TypeOK, SlaveReceived
    <3>2. asked' > 0 /\ Len(wire') = realn'
      BY <1>2, <1>3 DEF SlaveReceived
    <3>3. n' + realn' = asked'
      BY <1>1, <1>2, <1>3 DEF TypeOK, SlaveReceived
    <3>4. n' > 0 => ptr' = realn' + 1
      BY <1>1, <1>2, <1>3 DEF TypeOK, SlaveReceived, Take
    <3>5. QED
      BY <2>1, <3>1, <3>2, <3>3, <3>4
  <2>3. WritingInv' /\ ReadingInv' /\ ReadFromInv'
    <3>1. op' # "write" /\ op' # "slave_write" /\ mode' # "master"
      BY <1>2 DEF SlaveReceived
    <3>2. WritingInv'
      BY <3>1
    <3>3. ReadingInv'
      BY <3>1
    <3>4. ReadFromInv'
      BY <3>1
    <3>5. QED
      BY <3>2, <3>3, <3>4
  <2>4. QED
    BY <2>2, <2>3
<1>7. Answered'
  <2>1. NoOverrun'
    BY <1>1, <1>2 DEF IndInv, TypeOK, SlaveReceived, Take, Answered
  <2>2. BusKept'
    BY DEF IndInv, SlaveReceived, Answered
  <2>3. (UndisturbedWriteSendsBuffer /\ ReadStoresBytes /\ TransmittedMeansTaken)'
    BY DEF SlaveReceived
  <2>4. QED
    BY <2>1, <2>2, <2>3 DEF Answered
<1>8. QED
  BY <1>4, <1>5, <1>6, <1>7 DEF IndInv

\* A slave returns after the byte it refused, or after a STOP.
LEMMA SlaveDoneInd ==
  ASSUME IndInv, SlaveDone
  PROVE  IndInv'
<1>1. TypeOK'
  BY DEF IndInv, TypeOK, SlaveDone
<1>2. Control' /\ Calling'
  BY DEF IndInv, TypeOK, SlaveDone
<1>3. ReadStoresBytes'
  BY DEF IndInv, TypeOK, SlaveDone, Filled
<1>4. UndisturbedWriteSendsBuffer' /\ NoOverrun'
  BY DEF IndInv, TypeOK, SlaveDone, Answered
<1>5. TransmittedMeansTaken'
  BY DEF IndInv, TypeOK, SlaveDone
<1>6. BusKept'
  BY DEF IndInv, TypeOK, SlaveDone
<1>7. QED
  BY <1>1, <1>2, <1>3, <1>4, <1>5, <1>6 DEF IndInv, Answered

\* A slave that is read from starts to send its transmit buffer.
LEMMA ReadFromInd ==
  ASSUME IndInv, ReadFrom
  PROVE  IndInv'
<1>1. TypeOK'
  BY DEF IndInv, TypeOK, ReadFrom
<1>2. Control'
  BY DEF IndInv, TypeOK, ReadFrom
<1>3. Calling'
  BY DEF IndInv, TypeOK, ReadFrom
<1>4. Answered'
  BY DEF IndInv, TypeOK, ReadFrom, Answered
<1>5. QED
  BY <1>1, <1>2, <1>3, <1>4 DEF IndInv

\* The first byte a slave sends is that of its buffer.
LEMMA SlaveSendFirstInd ==
  ASSUME IndInv, SlaveSendFirst
  PROVE  IndInv'
<1>1. TypeOK
  BY DEF IndInv
<1>2. mode = "slave" /\ size > 0 /\ n = size /\ realn = 0 /\ ptr = 1 /\ wire = <<>>
  BY DEF IndInv, TypeOK, SlaveSendFirst
<1>3. n' = n - 1 /\ realn' = 1 /\ n' \in 0 .. (Byte - 1)
  BY <1>2, Bytewise DEF IndInv, TypeOK, SlaveSendFirst, Put
<1>4. TypeOK'
  <2>1. n' \in 0 .. (Byte - 1) /\ realn' \in 0 .. (Byte - 1)
    BY <1>1, Bytewise DEF TypeOK, SlaveSendFirst, Put
  <2>2. dat' \in Int /\ ptr' \in Nat \ {0}
    BY <1>1 DEF TypeOK, SlaveSendFirst, Put
  <2>3. con' \subseteq {"STA", "STO", "AA"} /\ stat' = "F8" /\ last' \in Statuses \union {"none"}
    BY <1>1 DEF TypeOK, SlaveSendFirst
  <2>4. QED
    BY <1>1, <2>1, <2>2, <2>3 DEF TypeOK, SlaveSendFirst
<1>5. Control'
  <2>1. LookedRight' /\ AddressedInv'
    BY <1>2 DEF IndInv, TypeOK, SlaveSendFirst, Put
  <2>2. IdleBus'
    BY <1>2 DEF IndInv, TypeOK, SlaveSendFirst, Put
  <2>3. Roles'
    BY <1>2 DEF IndInv, TypeOK, SlaveSendFirst, Put
  <2>4. Flags'
    <3>1. con' \subseteq {"AA"} /\ bus' # "us" /\ mode' = "slave" /\ stat' = "F8" /\ last' = "A8"
      BY <1>2 DEF IndInv, SlaveSendFirst
    <3>2. QED
      BY <3>1
  <2>5. ByteToSend'
    BY <1>2 DEF IndInv, TypeOK, SlaveSendFirst, Put
  <2>6. QED
    BY <2>1, <2>2, <2>3, <2>4, <2>5
<1>6. Calling'
  <2>1. ReadFromInv'
    <3>1. Counted(Len(wire) + 1, realn')
      BY <1>2, <1>3, CountedFew
    <3>2. QED
      BY <1>2, <1>3, <3>1 DEF IndInv, TypeOK, SlaveSendFirst, Put
  <2>2. WritingInv' /\ ReadingInv' /\ WrittenInv'
    BY <1>2 DEF IndInv, TypeOK, SlaveSendFirst, Put
  <2>3. QED
    BY <2>1, <2>2
<1>7. Answered'
  BY <1>2, <1>3 DEF IndInv, TypeOK, SlaveSendFirst, Put, Answered
<1>8. QED
  BY <1>4, <1>5, <1>6, <1>7 DEF IndInv

\* The count goes on modulo a byte when the other master reads on.
LEMMA SlaveSendNextInd ==
  ASSUME IndInv, SlaveSendNext
  PROVE  IndInv'
<1>1. TypeOK
  BY DEF IndInv
<1>2. TypeOK'
  <2>1. n' \in 0 .. (Byte - 1) /\ realn' \in 0 .. (Byte - 1)
    BY <1>1, Bytewise DEF TypeOK, SlaveSendNext, Put
  <2>2. dat' \in Int /\ ptr' \in Nat \ {0}
    BY <1>1 DEF TypeOK, SlaveSendNext, Put
  <2>3. QED
    BY <1>1, <2>1, <2>2 DEF TypeOK, SlaveSendNext, Put
<1>3. Control'
  BY DEF IndInv, TypeOK, SlaveSendNext, Put
<1>4. Calling'
  <2>1. Counted(Len(wire) + 1, Plus1(realn))
    BY CountedNext DEF IndInv, TypeOK, SlaveSendNext, Put
  <2>2. ReadFromInv'
    BY <2>1 DEF IndInv, TypeOK, SlaveSendNext, Put
  <2>3. WritingInv' /\ ReadingInv' /\ WrittenInv'
    BY DEF IndInv, TypeOK, SlaveSendNext, Put
  <2>4. QED
    BY <2>2, <2>3
<1>5. Answered'
  BY DEF IndInv, TypeOK, SlaveSendNext, Put, Answered
<1>6. QED
  BY <1>2, <1>3, <1>4, <1>5 DEF IndInv

\* The other master ended the transfer, and what it took is what was counted.
LEMMA SlaveSentInd ==
  ASSUME IndInv, SlaveSent
  PROVE  IndInv'
<1>1. TypeOK' /\ Control' /\ Calling'
  BY DEF IndInv, TypeOK, SlaveSent
<1>2. TransmittedMeansTaken'
  <2>1. Len(wire) % Byte = realn
    BY CountedIsModulo DEF IndInv, TypeOK, SlaveSent
  <2>2. QED
    BY <2>1 DEF IndInv, TypeOK, SlaveSent
<1>3. UndisturbedWriteSendsBuffer' /\ ReadStoresBytes' /\ NoOverrun' /\ BusKept'
  BY DEF IndInv, TypeOK, SlaveSent, Answered
<1>4. QED
  BY <1>1, <1>2, <1>3 DEF IndInv, Answered

\* The block sends a START while nobody holds the bus.
LEMMA StartSentInd ==
  ASSUME IndInv, StartSent
  PROVE  IndInv'
<1>1. TypeOK'
  BY DEF IndInv, TypeOK, StartSent
<1>2. Control'
  BY DEF IndInv, TypeOK, StartSent
<1>3. Calling'
  BY DEF IndInv, TypeOK, StartSent
<1>4. Answered'
  BY DEF IndInv, TypeOK, StartSent, Answered
<1>5. QED
  BY <1>1, <1>2, <1>3, <1>4 DEF IndInv

\* A START is repeated only between two calls or after the last byte.
LEMMA RepeatedStartSentInd ==
  ASSUME IndInv, RepeatedStartSent
  PROVE  IndInv'
<1>1. TypeOK'
  BY DEF IndInv, TypeOK, RepeatedStartSent
<1>2. Control'
  BY DEF IndInv, TypeOK, RepeatedStartSent
<1>3. Calling'
  BY DEF IndInv, TypeOK, RepeatedStartSent
<1>4. Answered'
  BY DEF IndInv, TypeOK, RepeatedStartSent, Answered
<1>5. QED
  BY <1>1, <1>2, <1>3, <1>4 DEF IndInv

\* A STOP leaves the block with nothing to go on from.
LEMMA StopSentInd ==
  ASSUME IndInv, StopSent
  PROVE  IndInv'
<1>1. TypeOK'
  BY DEF IndInv, TypeOK, StopSent
<1>2. Control'
  BY DEF IndInv, TypeOK, StopSent
<1>3. Calling'
  BY DEF IndInv, TypeOK, StopSent
<1>4. Answered'
  BY DEF IndInv, TypeOK, StopSent, Answered
<1>5. QED
  BY <1>1, <1>2, <1>3, <1>4 DEF IndInv

\* The slave acknowledges its address or not.
LEMMA AddressSentInd ==
  ASSUME IndInv, AddressSent
  PROVE  IndInv'
<1>1. TypeOK'
  BY DEF IndInv, TypeOK, AddressSent
<1>2. Control'
  BY DEF IndInv, TypeOK, AddressSent
<1>3. Calling'
  BY DEF IndInv, TypeOK, AddressSent
<1>4. Answered'
  BY DEF IndInv, TypeOK, AddressSent, Answered
<1>5. QED
  BY <1>1, <1>2, <1>3, <1>4 DEF IndInv

\* The byte under way is the next of the buffer.
LEMMA ByteSentInd ==
  ASSUME IndInv, ByteSent
  PROVE  IndInv'
<1>1. TypeOK'
  BY DEF IndInv, TypeOK, ByteSent
<1>2. Control'
  BY DEF IndInv, TypeOK, ByteSent
<1>3. Calling'
  <2>1. WritingInv'
    <3>1. ASSUME op = "write", pc # "idle", ~lost
          PROVE  wire' = Buffer(realn)
      <4>1. realn \in Nat \ {0} /\ dat = realn /\ wire = Buffer(realn - 1)
        BY <3>1 DEF IndInv, TypeOK, ByteSent
      <4>2. QED
        BY <4>1, BufferNext DEF ByteSent
    <3>2. QED
      BY <3>1 DEF IndInv, TypeOK, ByteSent
  <2>2. ReadingInv' /\ WrittenInv' /\ ReadFromInv'
    BY DEF IndInv, TypeOK, ByteSent
  <2>3. QED
    BY <2>1, <2>2
<1>4. Answered'
  BY DEF IndInv, TypeOK, ByteSent, Answered
<1>5. QED
  BY <1>1, <1>2, <1>3, <1>4 DEF IndInv

\* The slave sends its next byte.
LEMMA ByteReceivedInd ==
  ASSUME IndInv, ByteReceived
  PROVE  IndInv'
<1>1. TypeOK'
  BY DEF IndInv, TypeOK, ByteReceived
<1>2. Control'
  BY DEF IndInv, TypeOK, ByteReceived
<1>3. Calling'
  <2>1. WritingInv' /\ WrittenInv' /\ ReadFromInv'
    BY DEF IndInv, TypeOK, ByteReceived
  <2>2. ReadingInv'
    BY DEF IndInv, TypeOK, ByteReceived
  <2>3. QED
    BY <2>1, <2>2
<1>4. Answered'
  BY DEF IndInv, TypeOK, ByteReceived, Answered
<1>5. QED
  BY <1>1, <1>2, <1>3, <1>4 DEF IndInv

\* Another master wins the bus.
LEMMA ArbitrationLostInd ==
  ASSUME IndInv, ArbitrationLost
  PROVE  IndInv'
<1>1. TypeOK'
  BY DEF IndInv, TypeOK, ArbitrationLost
<1>2. Control'
  BY DEF IndInv, TypeOK, ArbitrationLost
<1>3. Calling'
  BY DEF IndInv, TypeOK, ArbitrationLost
<1>4. Answered'
  BY DEF IndInv, TypeOK, ArbitrationLost, Answered
<1>5. QED
  BY <1>1, <1>2, <1>3, <1>4 DEF IndInv

\* Another master takes a free bus.
LEMMA OtherTakesBusInd ==
  ASSUME IndInv, OtherTakesBus
  PROVE  IndInv'
<1>1. TypeOK'
  BY DEF IndInv, TypeOK, OtherTakesBus
<1>2. Control'
  BY DEF IndInv, TypeOK, OtherTakesBus
<1>3. Calling'
  BY DEF IndInv, TypeOK, OtherTakesBus
<1>4. Answered'
  BY DEF IndInv, TypeOK, OtherTakesBus, Answered
<1>5. QED
  BY <1>1, <1>2, <1>3, <1>4 DEF IndInv

\* Another master leaves the bus.
LEMMA OtherReleasesBusInd ==
  ASSUME IndInv, OtherReleasesBus
  PROVE  IndInv'
<1>1. TypeOK'
  BY DEF IndInv, TypeOK, OtherReleasesBus
<1>2. Control'
  BY DEF IndInv, TypeOK, OtherReleasesBus
<1>3. Calling'
  BY DEF IndInv, TypeOK, OtherReleasesBus
<1>4. Answered'
  BY DEF IndInv, TypeOK, OtherReleasesBus, Answered
<1>5. QED
  BY <1>1, <1>2, <1>3, <1>4 DEF IndInv

\* Another master addresses this slave.
LEMMA AddressedInd ==
  ASSUME IndInv, Addressed
  PROVE  IndInv'
<1>1. TypeOK'
  BY DEF IndInv, TypeOK, Addressed
<1>2. Control'
  BY DEF IndInv, TypeOK, Addressed
<1>3. Calling'
  BY DEF IndInv, TypeOK, Addressed
<1>4. Answered'
  BY DEF IndInv, TypeOK, Addressed, Answered
<1>5. QED
  BY <1>1, <1>2, <1>3, <1>4 DEF IndInv

\* Another master writes a byte to this slave.
LEMMA SlaveByteReceivedInd ==
  ASSUME IndInv, SlaveByteReceived
  PROVE  IndInv'
<1>1. TypeOK'
  BY DEF IndInv, TypeOK, SlaveByteReceived
<1>2. Control'
  BY DEF IndInv, TypeOK, SlaveByteReceived
<1>3. Calling'
  <2>1. WritingInv'
    BY DEF IndInv, TypeOK, SlaveByteReceived
  <2>2. ReadingInv'
    BY DEF IndInv, TypeOK, SlaveByteReceived
  <2>3. WrittenInv'
    BY DEF IndInv, TypeOK, SlaveByteReceived
  <2>4. ReadFromInv'
    BY DEF IndInv, TypeOK, SlaveByteReceived
  <2>5. QED
    BY <2>1, <2>2, <2>3, <2>4
<1>4. Answered'
  BY DEF IndInv, TypeOK, SlaveByteReceived, Answered
<1>5. QED
  BY <1>1, <1>2, <1>3, <1>4 DEF IndInv

\* Another master ends its transfer.
LEMMA StopReceivedInd ==
  ASSUME IndInv, StopReceived
  PROVE  IndInv'
<1>1. TypeOK'
  BY DEF IndInv, TypeOK, StopReceived
<1>2. Control'
  BY DEF IndInv, TypeOK, StopReceived
<1>3. Calling'
  BY DEF IndInv, TypeOK, StopReceived
<1>4. Answered'
  BY DEF IndInv, TypeOK, StopReceived, Answered
<1>5. QED
  BY <1>1, <1>2, <1>3, <1>4 DEF IndInv

\* The byte the slave sent is one of its buffer, and is counted.
LEMMA SlaveByteSentInd ==
  ASSUME IndInv, SlaveByteSent
  PROVE  IndInv'
<1>1. TypeOK
  BY DEF IndInv
<1>2. TypeOK'
  <2>1. dat \in Nat
    BY DEF IndInv, TypeOK, SlaveByteSent
  <2>2. wire' \in Seq(Nat) /\ stat' \in Statuses
    BY <1>1, <2>1 DEF TypeOK, SlaveByteSent
  <2>3. UNCHANGED <<con, dat, last, others, stored, lost, running>>
    BY DEF SlaveByteSent
  <2>4. QED
    BY <1>1, <2>2, <2>3 DEF TypeOK
<1>3. Control'
  BY DEF IndInv, TypeOK, SlaveByteSent
<1>4. Calling'
  <2>1. ReadFromInv'
    <3>1. op = "slave_write" /\ pc # "idle" => Counted(Len(wire'), realn)
      BY DEF IndInv, TypeOK, SlaveByteSent
    <3>2. op = "slave_write" /\ pc # "idle" => \A i \in 1 .. Len(wire') : wire'[i] \in 1 .. size
      BY DEF IndInv, TypeOK, SlaveByteSent
    <3>3. QED
      BY <3>1, <3>2 DEF IndInv, TypeOK, SlaveByteSent
  <2>2. WritingInv' /\ ReadingInv' /\ WrittenInv'
    BY DEF IndInv, TypeOK, SlaveByteSent
  <2>3. QED
    BY <2>1, <2>2
<1>5. Answered'
  BY DEF IndInv, TypeOK, SlaveByteSent, Answered
<1>6. QED
  BY <1>2, <1>3, <1>4, <1>5 DEF IndInv

\* A bus error ends the transfer.
LEMMA BusErrorInd ==
  ASSUME IndInv, BusError
  PROVE  IndInv'
<1>1. TypeOK'
  BY DEF IndInv, TypeOK, BusError
<1>2. Control'
  BY DEF IndInv, TypeOK, BusError
<1>3. Calling'
  BY DEF IndInv, TypeOK, BusError
<1>4. Answered'
  BY DEF IndInv, TypeOK, BusError, Answered
<1>5. QED
  BY <1>1, <1>2, <1>3, <1>4 DEF IndInv

HIDE DEF At, Go, Again, Return, Report, Enabled, MasterStatuses, SlaveStatuses, Statuses, Over, Returns,
         SlaveW, SlaveR, NoCall
HIDE DEF Control, Calling, LookedRight, IdleBus, Roles, Flags, ByteToSend, AddressedInv
HIDE DEF UndisturbedWriteSendsBuffer, WriteSendsBuffer, ReadStoresBytes, TransmittedMeansTaken, NoOverrun,
         BusKept
HIDE DEF WritingInv, ReadingInv, WrittenInv, ReadFromInv, Resting, OnFrom, JustCalled

-----------------------------------------------------------------------------
(***************************************************************************)
(* The theorems                                                            *)
(***************************************************************************)

LEMMA InitInd == Init => IndInv
<1> SUFFICES ASSUME Init PROVE IndInv
  OBVIOUS
<1>1. TypeOK
  <2>1. stop \in BOOLEAN /\ lost \in BOOLEAN
    BY DEF Init
  <2>2. ret \in [status : Returns, count : 0 .. (Byte - 1), wire : Seq(Nat)]
    BY DEF Init, NoCall, Returns
  <2>3. con \subseteq {"STA", "STO", "AA"}
    BY DEF Init, Enabled
  <2>4. QED
    BY <2>1, <2>2, <2>3 DEF Init, TypeOK, Statuses, MasterStatuses, SlaveStatuses
<1>2. Control
  BY DEF Init, Enabled, NoCall, MasterStatuses, SlaveStatuses, Control, LookedRight, IdleBus, Roles, Flags,
         ByteToSend, AddressedInv, Resting, OnFrom, JustCalled
<1>3. Calling
  BY DEF Init, Calling, WritingInv, ReadingInv, WrittenInv, ReadFromInv
<1>4. Answered
  BY DEF Init, NoCall, Enabled, Answered, UndisturbedWriteSendsBuffer, WriteSendsBuffer, ReadStoresBytes,
         TransmittedMeansTaken, NoOverrun, BusKept
<1>5. QED
  BY <1>1, <1>2, <1>3, <1>4 DEF IndInv

LEMMA StutterInd == IndInv /\ UNCHANGED vars => IndInv'
<1> SUFFICES ASSUME IndInv, UNCHANGED vars PROVE IndInv'
  OBVIOUS
<1>1. TypeOK'
  BY DEF vars, IndInv, TypeOK
<1>2. Control'
  BY DEF vars, IndInv, Control, LookedRight, IdleBus, Roles, Flags, ByteToSend, AddressedInv, Resting,
         OnFrom, JustCalled
<1>3. Calling'
  BY DEF vars, IndInv, Calling, WritingInv, ReadingInv, WrittenInv, ReadFromInv, Resting, OnFrom, JustCalled
<1>4. Answered'
  BY DEF vars, IndInv, Answered, UndisturbedWriteSendsBuffer, WriteSendsBuffer, ReadStoresBytes,
         TransmittedMeansTaken, NoOverrun, BusKept, Resting, OnFrom
<1>5. QED
  BY <1>1, <1>2, <1>3, <1>4 DEF IndInv

\* Every step of the driver, of the block and of the other devices keeps the invariant.
LEMMA NextInd == IndInv /\ [Next]_vars => IndInv'
<1> SUFFICES ASSUME IndInv, [Next]_vars PROVE IndInv'
  OBVIOUS
<1>1. CASE \E m \in {"master", "slave"} : Reinit(m)
  BY <1>1, ReinitInd
<1>2. CASE \E s \in 0 .. MaxBytes : SetSlaveBuffer(s)
  BY <1>2, SetSlaveBufferInd
<1>3. CASE \E o \in {"read", "write"}, k \in 0 .. MaxBytes, s \in BOOLEAN : Call(o, k, s)
  BY <1>3, CallInd
<1>4. CASE Driver
  BY <1>4, LookInd, WaitInd, AskBusInd, SendAddressInd, AddressRefusedInd, BusFaultInd, NoCaseInd,
     NothingToSendInd, SendFirstInd, SendNextInd, AllSentInd, DataRefusedInd, LostWriteInd,
     ReadStartsInd, ReceivedInd, ReceivedLastInd, WrittenToInd, SlaveReceivedInd, SlaveDoneInd,
     ReadFromInd, SlaveSendFirstInd, SlaveSendNextInd, SlaveSentInd
  DEF Driver
<1>5. CASE Bus
  BY <1>5, StartSentInd, RepeatedStartSentInd, StopSentInd, AddressSentInd, ByteSentInd,
     ByteReceivedInd, ArbitrationLostInd, OtherReleasesBusInd, SlaveByteReceivedInd,
     StopReceivedInd, SlaveByteSentInd
  DEF Bus
<1>6. CASE OtherTakesBus \/ Addressed \/ BusError
  BY <1>6, OtherTakesBusInd, AddressedInd, BusErrorInd
<1>7. CASE UNCHANGED vars
  BY <1>7, StutterInd
<1>8. QED
  BY <1>1, <1>2, <1>3, <1>4, <1>5, <1>6, <1>7 DEF Next

LEMMA Invariance == Spec => []IndInv
<1>1. QED
  BY InitInd, NextInd, PTL DEF Spec

\* What a call that sends answers is what the other device got, for every buffer, every
\* count of calls, errors and interfering masters (i2c.c:215-345): when write() says that
\* it sent its bytes the wire had exactly those, and a slave that says it was read from
\* counted the bytes taken, modulo a byte.
THEOREM SendingIsRight == Spec => []WritesAreRight
<1>1. IndInv => WritesAreRight
  BY DEF IndInv, Answered, WritesAreRight
<1>2. QED
  BY <1>1, Invariance, PTL

\* What a read leaves in the caller's buffer is what the other device sent, in order and
\* nothing past the end (i2c.c:439-485, 539-604).
THEOREM ReadingIsRight == Spec => []ReadsAreRight
<1>1. IndInv => ReadsAreRight
  BY DEF IndInv, Answered, ReadsAreRight
<1>2. QED
  BY <1>1, Invariance, PTL

\* Between two calls nobody holds the bus who should not, and a slave never asks for it
\* (i2c.c:153, 388).
THEOREM BusIsGivenBack == Spec => []BusIsShared
<1>1. IndInv => BusIsShared
  BY DEF IndInv, Answered, Control, Flags, BusIsShared, SlaveStaysSlave
<1>2. QED
  BY <1>1, Invariance, PTL
=============================================================================
