------------------------------ MODULE IapProofs ------------------------------
(***************************************************************************)
(* Proofs about the driver of the flash and the programs that use it, for  *)
(* any number and size of the sectors, any writes, and any number of       *)
(* calls, resets and errors of the ROM.                                    *)
(*                                                                         *)
(* A write is followed byte by byte: Intended(a, k) is what address a is   *)
(* to hold when k bytes of the caller's buffer are behind us, and WriteInv *)
(* says which bytes hold it while a sector is read, patched and burned.    *)
(* A last piece shorter than a word changes bytes behind the target too:   *)
(* Edges says where pieces begin, and so which piece that can be; Spills,  *)
(* what it has overwritten behind iap_sector_buffer.                       *)
(* TransferInv is the same for the copy to a large sector, and SampleInv   *)
(* what the tests of the sample can rely on from call to call.             *)
(***************************************************************************)
EXTENDS FlashSample, TLAPS

Addresses == 0 .. (FlashEnd - 1)
Byte      == Content \union {Blank}

Transfers == call.api = "transfert_4ks_to_32k"

\* Address a once k bytes of the caller's buffer are written, with what goes behind the
\* last one, and none else changed.
Intended(a, k) ==
  IF a \in call.dest .. (call.dest + k - 1) \/ (k = call.len /\ a \in Behind(call, buf))
    THEN <<n, a - call.dest>> ELSE before[a]

\* Every variable has its type, and what was programmed twice is nowhere.
Typed ==
  /\ flash \in [Addresses -> Byte] /\ before \in [Addresses -> Byte]
  /\ ram \in [0 .. (Small - 1) -> Byte]
  /\ prepared \in SUBSET Sectors
  /\ call \in [api : Apis, dest : Nat, len : Nat, src : Nat]
  /\ call.dest < FlashEnd /\ call.dest + call.len <= FlashEnd
  /\ off \in 0 .. (call.len + Small) /\ buf \in 0 .. (Word - 1)
  /\ job.sector \in Sectors
  /\ ret \in -6 .. 1 /\ n \in 0 .. MaxCalls /\ faults \in Nat

\* Where each function of the driver can be, and with what arguments.
Control ==
  /\ pc \in {"idle", "start", "next", "piece", "sector", "prepare1", "erase", "prepare2",
             "copy", "t_prepare", "t_erase", "t_chunk", "t_copy"}
  /\ pc # "idle" => (Transfers <=> pc \in {"t_prepare", "t_erase", "t_chunk", "t_copy"})
  /\ pc \in {"start", "next"} => call.api = "write_buffer"
  /\ pc = "piece" => call.api = "write_to_sector" /\ off = 0
  /\ pc = "sector" =>
       /\ call.api = "write_buffer_to_sector" /\ off = 0
       /\ call.dest = AddressOf(SectorOf(call.dest)) /\ call.len = SizeOf(SectorOf(call.dest))

\* The image of the sector to burn: the piece that is written is part of the target and
\* of the sector, and all other bytes of the sector are what they were.
Ready ==
  /\ part \in 0 .. (call.len - off) /\ (part > 0 \/ call.len = 0)
  /\ (call.dest + off) .. (call.dest + off + part - 1) \subseteq Bytes(job.sector)
  /\ DOMAIN job.image = 0 .. (SizeOf(job.sector) - 1)
  /\ \A i \in 0 .. (SizeOf(job.sector) - 1) :
       job.image[i] = Intended(AddressOf(job.sector) + i, off + part)
  /\ call.api # "write_buffer" => off + part = call.len
  /\ call.api = "write_to_sector" => job.sector < NSmall

\* A write: all bytes outside the sector under way hold what they should, and those
\* of the sector do or are erased.
WriteInv ==
  ~Transfers =>
    /\ off <= call.len
    /\ pc \in {"start", "next", "piece", "sector", "prepare1", "erase"} =>
         \A a \in Addresses : flash[a] = Intended(a, off)
    /\ \A a \in Addresses \ Bytes(job.sector) : flash[a] = Intended(a, off)
    /\ \/ \A a \in Bytes(job.sector) : flash[a] = Intended(a, off)
       \/ \A a \in Bytes(job.sector) : flash[a] = Blank
    /\ (off = call.len /\ call.len > 0) => \A a \in Addresses : flash[a] = Intended(a, off)
    /\ pc \in {"prepare1", "erase", "prepare2", "copy"} => Ready
    /\ pc \in {"prepare2", "copy"} => \A a \in Bytes(job.sector) : flash[a] = Blank
    /\ pc = "copy" => prepared = {job.sector}
    /\ (pc = "idle" /\ ret = 0) => off = call.len /\ \A a \in Addresses : flash[a] = Intended(a, off)
    /\ (pc = "idle" /\ call.api = "write_to_sector" /\ ret = -1 /\ faults = 0) =>
         \A a \in Addresses : flash[a] = before[a]

\* A transfer: only the sector of the destination changes, once it is erased the
\* chunks behind us are what was in the small sectors, and the rest of it is blank.
TransferInv ==
  Transfers =>
    LET s == SectorOf(call.dest) IN
    /\ call.len > 0 /\ call.src + call.len <= NSmall * Small /\ NSmall * Small <= call.dest
    /\ \A a \in Addresses \ Bytes(s) : flash[a] = before[a]
    /\ pc \in {"t_prepare", "t_erase"} => off = 0 /\ \A a \in Addresses : flash[a] = before[a]
    /\ pc \in {"t_chunk", "t_copy"} =>
         /\ off < call.len
         /\ call.dest .. (call.dest + off - 1) \subseteq Bytes(s)
         /\ \A a \in Bytes(s) :
              flash[a] = IF a \in call.dest .. (call.dest + off - 1)
                           THEN before[call.src + (a - call.dest)] ELSE Blank
    /\ pc = "t_copy" =>
         /\ prepared = {s}
         /\ \A i \in 0 .. (Small - 1) : i < call.len - off => ram[i] = before[call.src + off + i]
    /\ pc = "idle" =>
         /\ \A a \in Target : flash[a] \in {before[a], Wanted(a), Blank}
         /\ ret = 0 => \A a \in Target : flash[a] = Wanted(a)

IndInv == Typed /\ Control /\ WriteInv /\ TransferInv

Burning == pc \in {"prepare1", "erase", "prepare2", "copy"}

\* The first byte of a sector, or its last.
Edge(a) == a = AddressOf(SectorOf(a)) \/ a + 1 = AddressOf(SectorOf(a) + 1)

\* All pieces of a buffer but the first begin at an edge.
Edges ==
  /\ pc = "start" => off = 0
  /\ (pc = "next" /\ off < call.len) => Edge(call.dest + off)
  /\ (Burning /\ call.api = "write_buffer" /\ off + part < call.len) =>
       Edge(call.dest + (off + part))

\* The memory behind iap_sector_buffer: only a last piece that is short overwrites it.
Spills ==
  /\ spilled \in {0, Spill(call, buf)}
  /\ pc \in {"start", "piece"} => spilled = 0
  /\ (Burning /\ off + part = call.len) => spilled = Spill(call, buf)
  /\ (pc = "next" /\ off = call.len) => spilled = Spill(call, buf)
  /\ (pc = "idle" /\ ret = 0) => spilled = Spill(call, buf)
  /\ (pc = "idle" /\ call.api = "write_to_sector" /\ ret = -1 /\ faults = 0) => spilled = 0

\* What the k first calls of the test have written is in the flash f.
Held(f, k) ==
  \A i \in 1 .. k : LET c == CallsOf[test][i] IN
    \A b \in 0 .. (c.len - 1) :
      f[c.dest + b] =
        <<IF c.api = "transfert_4ks_to_32k" THEN (n - done) + 1 ELSE (n - done) + i, b>>

\* A test is at the call it has counted, and before that call the flash held what the
\* earlier ones wrote.
SampleInv ==
  /\ test \in DOMAIN CallsOf \union {"any"}
  /\ done \in Nat /\ done <= n
  /\ (test # "any" /\ done > 0) =>
       /\ done \in 1 .. Len(CallsOf[test])
       /\ call = CallsOf[test][done]
       /\ Held(before, done - 1)

-----------------------------------------------------------------------------
(***************************************************************************)
(* The sectors                                                             *)
(***************************************************************************)

LEMMA Division ==
  ASSUME NEW d \in Nat \ {0}, NEW a \in Nat
  PROVE  /\ a \div d \in Nat
         /\ d * (a \div d) <= a /\ a < d * (a \div d) + d
<1>1. a \div d \in Int
  BY SMT
<1>2. a \div d >= 0
  BY SMT
<1>3. d * (a \div d) <= a
  BY SMT
<1>4. a < d * (a \div d) + d
  BY SMT
<1>5. QED
  BY <1>1, <1>2, <1>3, <1>4

LEMMA Quotient ==
  ASSUME NEW d \in Nat \ {0}, NEW a \in Int, NEW q \in Int, d * q <= a, a < d * q + d
  PROVE  a \div d = q
BY SMT

LEMMA Times ==
  ASSUME NEW d \in Nat, NEW p \in Int, NEW q \in Int
  PROVE  /\ d * p \in Int /\ (p <= q => d * p <= d * q)
         /\ d * (p + 1) = d * p + d
         /\ d * (p - q) = d * p - d * q /\ d * p = p * d
<1>1. d * p \in Int /\ d * (p + 1) = d * p + d /\ d * p = p * d
  BY SMT
<1>2. d * (p - q) = d * p - d * q
  BY SMT
<1>3. p <= q => d * p <= d * q
  BY SMT
<1>4. QED
  BY <1>1, <1>2, <1>3

\* Of k blocks of d bytes, byte a is in the q-th.
LEMMA BlockOfByte ==
  ASSUME NEW d \in Nat \ {0}, NEW k \in Nat, NEW q \in Int, NEW a \in Int, d * q <= a, a < k * d
  PROVE  q < k
<1>1. k <= q => d * k <= d * q
  BY Times
<1>2. d * k = k * d /\ d * k \in Int /\ d * q \in Int
  BY Times
<1>3. QED
  BY <1>1, <1>2

LEMMA BlockIsInside ==
  ASSUME NEW d \in Nat \ {0}, NEW k \in Nat, NEW q \in 0 .. (k - 1)
  PROVE  d * q \in Nat /\ d * q + d <= k * d
<1>1. d * (q + 1) <= d * k
  BY Times
<1>2. d * (q + 1) = d * q + d /\ d * k = k * d /\ d * k \in Int /\ d * q \in Int
  BY Times
<1>3. d * q >= d * 0
  BY Times
<1>4. QED
  BY <1>1, <1>2, <1>3

LEMMA Sizes ==
  /\ Small \in Nat \ {0} /\ Large \in Nat \ {0} /\ NSmall \in Nat \ {0} /\ NLarge \in Nat
  /\ NSmall * Small \in Nat /\ NLarge * Large \in Nat /\ FlashEnd \in Nat
  /\ FlashEnd = NSmall * Small + NLarge * Large
<1>1. Small \in Nat \ {0} /\ Large \in Nat \ {0} /\ NSmall \in Nat \ {0} /\ NLarge \in Nat
  BY SizeAssumption
<1>2. NSmall * Small \in Nat /\ NLarge * Large \in Nat
  BY <1>1
<1>3. QED
  BY <1>1, <1>2 DEF FlashEnd

LEMMA Ends == Small \in Nat \ {0} /\ FlashEnd \in Nat
BY Sizes

\* Every address is a byte of its sector.
LEMMA InItsSector ==
  ASSUME NEW a \in Addresses
  PROVE  SectorOf(a) \in Sectors /\ a \in Bytes(SectorOf(a))
<1>1. CASE a < NSmall * Small
  <2> DEFINE q == a \div Small
  <2>1. q \in Nat /\ Small * q <= a /\ a < Small * q + Small
    BY Division, Sizes DEF Addresses
  <2>2. SectorOf(a) = q
    BY <1>1 DEF SectorOf
  <2>3. q < NSmall
    BY <1>1, <2>1, Sizes, BlockOfByte DEF Addresses
  <2>4. AddressOf(q) = Small * q /\ SizeOf(q) = Small /\ Small * q \in Int
    BY <2>1, <2>3, Sizes, Times DEF AddressOf, SizeOf
  <2>5. a \in Bytes(q)
    BY <2>1, <2>4, Sizes DEF Bytes, Addresses
  <2>6. QED
    BY <2>1, <2>2, <2>3, <2>5, Sizes DEF Sectors
<1>2. CASE ~(a < NSmall * Small)
  <2> DEFINE b == a - NSmall * Small
             q == b \div Large
  <2>1. b \in Nat /\ b < NLarge * Large /\ a = NSmall * Small + b
    BY <1>2, Sizes DEF Addresses
  <2>2. q \in Nat /\ Large * q <= b /\ b < Large * q + Large
    BY <2>1, Division, Sizes
  <2>3. SectorOf(a) = NSmall + q
    BY <1>2 DEF SectorOf
  <2>4. q < NLarge
    BY <2>1, <2>2, Sizes, BlockOfByte
  <2>5. AddressOf(NSmall + q) = NSmall * Small + Large * q /\ SizeOf(NSmall + q) = Large
        /\ Large * q \in Int
    <3>1. (NSmall + q) - NSmall = q /\ ~(NSmall + q < NSmall)
      BY <2>2, Sizes
    <3>2. q * Large = Large * q /\ Large * q \in Int
      BY <2>2, Sizes, Times
    <3>3. QED
      BY <3>1, <3>2 DEF AddressOf, SizeOf
  <2>6. a \in Bytes(NSmall + q)
    BY <2>1, <2>2, <2>5, Sizes DEF Bytes, Addresses
  <2>7. QED
    BY <2>2, <2>3, <2>4, <2>6, Sizes DEF Sectors
<1>3. QED
  BY <1>1, <1>2

\* A byte is in one sector only, and in the flash.
LEMMA OneSector ==
  ASSUME NEW s \in Sectors, NEW a \in Bytes(s)
  PROVE  SectorOf(a) = s /\ a \in Addresses
<1>1. CASE s < NSmall
  <2>1. s \in 0 .. (NSmall - 1)
    BY <1>1, Sizes DEF Sectors
  <2>2. AddressOf(s) = Small * s /\ SizeOf(s) = Small /\ Small * s \in Nat
        /\ Small * s + Small <= NSmall * Small
    BY <1>1, <2>1, Sizes, Times, BlockIsInside DEF AddressOf, SizeOf
  <2>3. a \in Int /\ Small * s <= a /\ a < Small * s + Small
    BY <2>2, Sizes DEF Bytes
  <2>4. 0 <= a /\ a < NSmall * Small
    BY <2>2, <2>3, Sizes
  <2>5. a \div Small = s
    BY <2>1, <2>3, Quotient, Sizes
  <2>6. QED
    BY <2>3, <2>4, <2>5, Sizes DEF SectorOf, Addresses
<1>2. CASE ~(s < NSmall)
  <2> DEFINE q == s - NSmall
             b == a - NSmall * Small
  <2>1. q \in 0 .. (NLarge - 1) /\ s = NSmall + q
    BY <1>2, Sizes DEF Sectors
  <2>2. AddressOf(s) = NSmall * Small + Large * q /\ SizeOf(s) = Large /\ Large * q \in Nat
        /\ Large * q + Large <= NLarge * Large
    <3> HIDE DEF q
    <3>1. q * Large = Large * q /\ Large * q \in Nat /\ Large * q + Large <= NLarge * Large
      BY <2>1, Sizes, Times, BlockIsInside
    <3>2. QED
      BY <1>2, <3>1 DEF AddressOf, SizeOf, q
  <2> HIDE DEF q, b
  <2>3. a \in Int /\ b \in Int /\ a = NSmall * Small + b /\ Large * q <= b /\ b < Large * q + Large
    BY <2>2, Sizes DEF Bytes, b
  <2>4. 0 <= b /\ b < NLarge * Large
    BY <2>2, <2>3, Sizes
  <2>5. b \div Large = q
    BY <2>1, <2>3, Quotient, Sizes
  <2>6. SectorOf(a) = NSmall + q
    <3>1. ~(a < NSmall * Small)
      BY <2>3, <2>4, Sizes
    <3>2. QED
      BY <2>5, <3>1 DEF SectorOf, b
  <2>7. QED
    BY <2>1, <2>3, <2>4, <2>6, Sizes DEF Addresses
<1>3. QED
  BY <1>1, <1>2

\* The bytes of a sector are those from its first, which is in the sector too.
LEMMA SectorBytes ==
  ASSUME NEW s \in Sectors
  PROVE  /\ AddressOf(s) \in Nat /\ SizeOf(s) \in {Small, Large}
         /\ SizeOf(s) = Small <=> s < NSmall
         /\ Bytes(s) \subseteq Addresses
         /\ AddressOf(s) + SizeOf(s) <= FlashEnd
         /\ SectorOf(AddressOf(s)) = s /\ SectorOf(AddressOf(s) + SizeOf(s) - 1) = s
<1>1. SizeOf(s) \in {Small, Large} /\ (SizeOf(s) = Small <=> s < NSmall) /\ SizeOf(s) \in Nat \ {0}
  BY SizeAssumption DEF SizeOf
<1>2. AddressOf(s) \in Int
  <2>1. s \in Int /\ s - NSmall \in Int
    BY Sizes DEF Sectors
  <2>2. s * Small \in Int /\ (s - NSmall) * Large \in Int
    BY <2>1, Sizes
  <2>3. QED
    BY <2>2, Sizes DEF AddressOf
<1>3. AddressOf(s) \in Bytes(s) /\ AddressOf(s) + SizeOf(s) - 1 \in Bytes(s)
  BY <1>1, <1>2 DEF Bytes
<1>4. \A a \in Bytes(s) : SectorOf(a) = s /\ a \in Addresses
  BY OneSector
<1>5. AddressOf(s) >= 0 /\ AddressOf(s) + SizeOf(s) - 1 <= FlashEnd - 1
  BY <1>3, <1>4, Sizes DEF Addresses
<1>6. QED
  BY <1>1, <1>2, <1>3, <1>4, <1>5, Sizes

\* Whatever lies between two bytes of a sector is in it.
LEMMA Between ==
  ASSUME NEW s \in Sectors, NEW a \in Bytes(s), NEW b \in Bytes(s)
  PROVE  a .. b \subseteq Bytes(s)
BY SectorBytes, Sizes DEF Bytes

\* An address that is said to be in a small sector is.
LEMMA InSmallSector ==
  ASSUME NEW a \in Int, a >= 0, SectorOf(a) < NSmall
  PROVE  a \in Addresses
<1>1. CASE a < NSmall * Small
  BY <1>1, Sizes DEF Addresses
<1>2. CASE ~(a < NSmall * Small)
  <2> DEFINE b == a - NSmall * Small
  <2>1. b \in Nat
    BY <1>2, Sizes
  <2>2. b \div Large \in Nat
    BY <2>1, Sizes, Division
  <2>3. SectorOf(a) = NSmall + (b \div Large)
    BY <1>2 DEF SectorOf
  <2>4. QED
    BY <2>2, <2>3, Sizes
<1>3. QED
  BY <1>1, <1>2

\* The small sectors come first.
LEMMA SmallAddress ==
  ASSUME NEW a \in Addresses
  PROVE  SectorOf(a) < NSmall <=> a < NSmall * Small
<1>1. CASE a < NSmall * Small
  <2>1. a \div Small \in Nat /\ Small * (a \div Small) <= a
    BY Division, Sizes DEF Addresses
  <2>2. a \div Small < NSmall
    BY <1>1, <2>1, Sizes, BlockOfByte DEF Addresses
  <2>3. QED
    BY <1>1, <2>2 DEF SectorOf
<1>2. CASE ~(a < NSmall * Small)
  <2> DEFINE b == a - NSmall * Small
  <2>1. b \in Nat
    BY <1>2, Sizes DEF Addresses
  <2>2. b \div Large \in Nat
    BY <2>1, Sizes, Division
  <2>3. SectorOf(a) = NSmall + (b \div Large)
    BY <1>2 DEF SectorOf
  <2>4. QED
    BY <1>2, <2>2, <2>3, Sizes
<1>3. QED
  BY <1>1, <1>2

-----------------------------------------------------------------------------
(***************************************************************************)
(* A write and a transfer, step by step                                    *)
(***************************************************************************)

\* The content of a caller's buffer.
LEMMA BufferBytes ==
  ASSUME Typed, NEW i \in Nat
  PROVE  <<n, i>> \in Byte
BY DEF Typed, Byte, Content

\* Nothing goes behind a write of nothing, or a whole sector, or a transfer.
LEMMA BehindNothing ==
  ASSUME NEW c, NEW b, c.len = 0 \/ c.api \notin {"write_buffer", "write_to_sector"}
  PROVE  Behind(c, b) = {} /\ Spill(c, b) = 0
<1>1. ~EndsShort(c, b)
  BY DEF EndsShort
<1>2. QED
  BY <1>1 DEF Behind, Spill

\* What goes behind the target is in the flash, in one sector, and not in the target.
LEMMA BehindInside ==
  ASSUME Typed
  PROVE  /\ \A a \in Behind(call, buf) : /\ a \in Addresses /\ a >= call.dest + call.len
                                         /\ SectorOf(a) = SectorOf(End(call) - 1)
         /\ Spill(call, buf) \in 0 .. Overrun
<1>1. call.dest \in Nat /\ call.len \in Nat /\ call.dest + call.len <= FlashEnd /\ Overrun \in Nat
      /\ End(call) = call.dest + call.len
  BY SizeAssumption DEF Typed, End
<1>2. CASE ~EndsShort(call, buf)
  BY <1>1, <1>2 DEF Behind, Spill
<1>3. CASE EndsShort(call, buf)
  <2> DEFINE s == SectorOf(End(call) - 1)
  <2>1. End(call) - 1 \in Addresses
    BY <1>1, <1>3, Ends DEF EndsShort, Addresses
  <2>2. s \in Sectors /\ End(call) - 1 \in Bytes(s)
    BY <2>1, InItsSector
  <2>3. \A a \in Bytes(s) : a \in Addresses /\ SectorOf(a) = s
    BY <2>2, OneSector
  <2>4. AddressOf(s) \in Nat /\ SizeOf(s) \in Nat /\ End(call) <= AddressOf(s) + SizeOf(s)
    BY <1>1, <2>2, SectorBytes, Sizes DEF Bytes
  <2>5. Spill(call, buf) \in 0 .. Overrun
    BY <1>1, <1>3, <2>4 DEF Spill, PastEnd
  <2>6. QED
    BY <1>1, <2>3, <2>5 DEF Behind
<1>4. QED
  BY <1>2, <1>3

LEMMA InitInd == Init => IndInv
<1> SUFFICES ASSUME Init PROVE IndInv
  OBVIOUS
<1>1. call.api = "write_buffer" /\ call.dest = 0 /\ call.len = 0 /\ ~Transfers
  BY DEF Init, Transfers
<1>2. Typed
  <2>1. 0 \in Sectors /\ FlashEnd > 0
    <3>1. 0 \in Sectors
      BY Sizes DEF Sectors
    <3>2. AddressOf(0) \in Nat /\ SizeOf(0) \in {Small, Large} /\ AddressOf(0) + SizeOf(0) <= FlashEnd
      BY <3>1, SectorBytes
    <3>3. QED
      BY <3>1, <3>2, Sizes
  <2>2. flash \in [Addresses -> Byte]
    BY BoundAssumption, Sizes DEF Init, Byte, Content, Addresses
  <2>3. ram \in [0 .. (Small - 1) -> Byte]
    BY BoundAssumption, Sizes DEF Init, Byte, Content, Zero
  <2>4. call \in [api : Apis, dest : Nat, len : Nat, src : Nat]
    BY DEF Init, Apis
  <2>5. ret \in -6 .. 1 /\ n \in 0 .. MaxCalls /\ faults \in Nat /\ off \in 0 .. (call.len + Small)
    BY <1>1, Sizes, BoundAssumption DEF Init
  <2>6. before = flash /\ prepared = {} /\ job.sector = 0 /\ buf \in 0 .. (Word - 1)
    BY SizeAssumption DEF Init
  <2>7. QED
    BY <1>1, <2>1, <2>2, <2>3, <2>4, <2>5, <2>6, Ends DEF Typed
<1>3. Control /\ TransferInv
  BY <1>1 DEF Init, Control, TransferInv, Transfers
<1>4. WriteInv
  <2>1. /\ Behind(call, buf) = {} /\ flash = before /\ off = 0 /\ call.dest = 0 /\ call.len = 0
        /\ pc = "idle" /\ ret = 0 /\ job.sector \in Sectors
    BY <1>1, <1>2, BehindNothing DEF Init, Typed
  <2>2. \A a \in Addresses : Intended(a, off) = before[a]
    BY <2>1, Ends DEF Intended, Addresses
  <2>3. QED
    BY <1>1, <2>1, <2>2, SectorBytes DEF WriteInv
<1>5. QED
  BY <1>2, <1>3, <1>4 DEF IndInv

\* A call begins with the flash as it is.
LEMMA CallInd ==
  ASSUME IndInv, NEW api \in Apis, NEW dest \in Nat, NEW len \in Nat, NEW src \in Nat,
         NEW b \in 0 .. (Word - 1), NEW first,
         Call(api, dest, len, src, b, first),
         dest < FlashEnd, dest + len <= FlashEnd,
         \/ api = "write_buffer" /\ first = "start"
         \/ api = "write_to_sector" /\ first = "piece"
         \/ /\ api = "write_buffer_to_sector" /\ first = "sector"
            /\ dest = AddressOf(SectorOf(dest)) /\ len = SizeOf(SectorOf(dest))
         \/ /\ api = "transfert_4ks_to_32k" /\ first = "t_prepare"
            /\ len > 0 /\ src + len <= NSmall * Small /\ NSmall * Small <= dest
  PROVE  IndInv'
<1>1. Typed'
  BY Sizes, BoundAssumption DEF IndInv, Typed, Call
<1>2. Control'
  BY DEF Control, Transfers, Call
<1>3. \A a \in Addresses : flash'[a] = before'[a] /\ (~Transfers' => flash'[a] = Intended(a, off)')
  <2>1. /\ flash' = before' /\ off' = 0 /\ call'.dest \in Nat /\ call'.len \in Nat
        /\ (off' = call'.len => Behind(call', buf') = {})
    BY BehindNothing DEF Call
  <2>2. QED
    BY <2>1, Ends DEF Intended, Addresses
<1>4. Bytes(job.sector) \subseteq Addresses
  BY SectorBytes DEF IndInv, Typed
<1>5. WriteInv'
  BY <1>3, <1>4 DEF WriteInv, Call, Transfers
<1>6. TransferInv'
  BY <1>3 DEF TransferInv, Transfers, Call
<1>7. QED
  BY <1>1, <1>2, <1>5, <1>6 DEF IndInv

LEMMA NextSector ==
  ASSUME NEW s \in Sectors
  PROVE  AddressOf(s + 1) = AddressOf(s) + SizeOf(s)
<1>1. s \in Nat /\ NSmall \in Nat /\ Small \in Nat /\ Large \in Nat
  BY Sizes DEF Sectors
<1>2. CASE s + 1 < NSmall
  <2>1. (s + 1) * Small = s * Small + Small
    BY <1>1
  <2>2. QED
    BY <1>1, <1>2, <2>1 DEF AddressOf, SizeOf
<1>3. CASE s + 1 = NSmall
  <2>1. NSmall * Small = s * Small + Small
    <3>1. (s + 1) * Small = s * Small + Small
      BY <1>1
    <3>2. QED
      BY <1>3, <3>1
  <2>2. AddressOf(NSmall) = NSmall * Small
    <3>1. NSmall - NSmall = 0 /\ 0 * Large = 0 /\ NSmall * Small \in Nat
      BY <1>1
    <3>2. QED
      BY <1>1, <3>1 DEF AddressOf
  <2>3. QED
    BY <1>1, <1>3, <2>1, <2>2 DEF AddressOf, SizeOf
<1>4. CASE s + 1 > NSmall
  <2> DEFINE q == s - NSmall
  <2>1. q \in Nat /\ (s + 1) - NSmall = q + 1
    BY <1>1, <1>4
  <2>2. (q + 1) * Large = q * Large + Large
    BY <1>1, <2>1
  <2>3. AddressOf(s + 1) = NSmall * Small + (q + 1) * Large
    BY <1>1, <1>4, <2>1 DEF AddressOf
  <2>4. AddressOf(s) = NSmall * Small + q * Large /\ SizeOf(s) = Large
    BY <1>1, <1>4 DEF AddressOf, SizeOf
  <2>5. NSmall * Small \in Nat /\ q * Large \in Nat
    BY <1>1, <2>1
  <2> HIDE DEF q
  <2>6. QED
    BY <1>1, <2>2, <2>3, <2>4, <2>5
<1>5. QED
  BY <1>1, <1>2, <1>3, <1>4

\* What follows a sector that is not the last is one.
LEMMA SectorAfter ==
  ASSUME NEW s \in Sectors, AddressOf(s + 1) < FlashEnd
  PROVE  s + 1 \in Sectors
<1>1. SUFFICES ASSUME s + 1 = NSmall + NLarge
               PROVE  FALSE
  BY Sizes DEF Sectors
<1>2. ~(s + 1 < NSmall) /\ (s + 1) - NSmall = NLarge
  BY <1>1, Sizes
<1>3. AddressOf(s + 1) = FlashEnd
  BY <1>2 DEF AddressOf, FlashEnd
<1>4. QED
  BY <1>3, Sizes

\* What is intended of a byte is a byte.
LEMMA IntendedByte ==
  ASSUME Typed, NEW a \in Addresses, NEW k \in Nat
  PROVE  Intended(a, k) \in Byte
<1>1. call.dest \in Nat /\ call.len \in Nat /\ before[a] \in Byte
  BY DEF Typed
<1>2. CASE a \in call.dest .. (call.dest + k - 1) \/ (k = call.len /\ a \in Behind(call, buf))
  <2>1. a \in Behind(call, buf) => a >= call.dest + call.len
    BY DEF Behind, End
  <2>2. a - call.dest \in Nat
    BY <1>1, <1>2, <2>1, Ends DEF Addresses
  <2>3. QED
    BY <1>2, <2>2, BufferBytes DEF Intended
<1>3. CASE ~(a \in call.dest .. (call.dest + k - 1) \/ (k = call.len /\ a \in Behind(call, buf)))
  BY <1>1, <1>3 DEF Intended
<1>4. QED
  BY <1>2, <1>3

\* A piece more behind us changes what is intended of its sector only.
LEMMA IntendedElsewhere ==
  ASSUME Typed, part \in Nat, off + part <= call.len, NEW a \in Addresses, NEW s \in Sectors,
         a \notin Bytes(s), (call.dest + off) .. (call.dest + off + part - 1) \subseteq Bytes(s),
         part > 0 \/ call.len = 0
  PROVE  Intended(a, off + part) = Intended(a, off)
<1>1. /\ call.dest \in Nat /\ call.len \in Nat /\ off \in Nat /\ a \in Nat
      /\ End(call) = call.dest + call.len
  BY Ends DEF Typed, Addresses, End
<1>2. CASE part = 0
  <2>1. off + part = off
    BY <1>1, <1>2
  <2>2. QED
    BY <2>1
<1>3. CASE part > 0
  <2>1. off # call.len
    BY <1>1, <1>3
  <2>2. off + part = call.len => a \notin Behind(call, buf)
    <3>1. SUFFICES ASSUME off + part = call.len
                   PROVE  a \notin Behind(call, buf)
      OBVIOUS
    <3>2. End(call) - 1 \in (call.dest + off) .. (call.dest + off + part - 1)
      BY <1>1, <1>3, <3>1
    <3>3. SectorOf(End(call) - 1) = s
      BY <3>2, OneSector
    <3>4. QED
      BY <3>3 DEF Behind
  <2>3. a \in call.dest .. (call.dest + (off + part) - 1) => a \in call.dest .. (call.dest + off - 1)
    <3>1. a \notin (call.dest + off) .. (call.dest + off + part - 1)
      OBVIOUS
    <3>2. QED
      BY <1>1, <3>1
  <2>4. a \in call.dest .. (call.dest + off - 1) => a \in call.dest .. (call.dest + (off + part) - 1)
    BY <1>1
  <2>5. QED
    BY <2>1, <2>2, <2>3, <2>4 DEF Intended
<1>4. QED
  BY <1>2, <1>3

-----------------------------------------------------------------------------
(***************************************************************************)
(* The pieces of a buffer, and which of them may be short                  *)
(***************************************************************************)

LEMMA Multiple ==
  ASSUME NEW w \in Nat \ {0}, NEW a \in Nat
  PROVE  a % w = 0 <=> \E q \in Nat : a = w * q
<1>1. a % w = 0 => a = w * (a \div w) /\ a \div w \in Nat
  <2>1. a \div w \in Nat
    BY Division
  <2>2. a = w * (a \div w) + (a % w)
    BY SMT
  <2>3. w * (a \div w) \in Int
    BY <2>1, Times
  <2>4. QED
    BY <2>1, <2>2, <2>3
<1>2. ASSUME NEW q \in Nat, a = w * q
      PROVE  a % w = 0
  <2>1. a \div w = q
    <3>1. w * q <= a /\ a < w * q + w
      BY <1>2
    <3>2. QED
      BY <3>1, Quotient
  <2>2. a = w * (a \div w) + (a % w) /\ a % w \in Int
    BY SMT
  <2>3. w * q \in Int
    BY Times
  <2>4. QED
    BY <1>2, <2>1, <2>2, <2>3
<1>3. QED
  BY <1>1, <1>2

\* Between two words' boundaries there is no word, or a whole one.
LEMMA WholeWords ==
  ASSUME NEW w \in Nat \ {0}, NEW a \in Nat, NEW b \in Nat, a % w = 0, b % w = 0, a < b
  PROVE  b - a >= w
<1>1. PICK p \in Nat : a = w * p
  BY Multiple
<1>2. PICK q \in Nat : b = w * q
  BY Multiple
<1>3. ~(q <= p)
  BY <1>1, <1>2, Times
<1>4. w * q >= w * (p + 1) /\ w * (p + 1) = w * p + w
  BY <1>3, Times
<1>5. w * p \in Int /\ w * q \in Int
  BY Times
<1>6. QED
  BY <1>1, <1>2, <1>4, <1>5

\* Small sectors begin at a word's boundary, and so does what follows the last of them.
LEMMA SectorsAligned ==
  ASSUME NEW s \in 0 .. NSmall
  PROVE  (s * Small) % Word = 0
<1>1. Word \in Nat \ {0} /\ Small \in Nat /\ Small % Word = 0
  BY SizeAssumption
<1>2. PICK q \in Nat : Small = Word * q
  BY <1>1, Multiple
<1>3. s * Small = Word * (s * q) /\ s * q \in Nat /\ s * Small \in Nat
  <2>1. s \in Nat
    BY Sizes
  <2>2. s * (Word * q) = Word * (s * q) /\ s * q \in Nat
    BY <1>1, <2>1
  <2>3. QED
    BY <1>1, <1>2, <2>1, <2>2
<1>4. QED
  BY <1>1, <1>3, Multiple

\* The lengths write_buffer() and write_to_sector() write: all that is left, the rest of
\* a sector, a sector less one byte.
PieceOf(len) ==
  \/ len = Left /\ (pc = "piece" \/ (~Spans /\ len > 0))
  \/ pc = "start" /\ Spans /\ len = AddressOf(SectorOf(Dest) + 1) - Dest
  \/ pc = "next" /\ Spans /\ len = SizeOf(SectorOf(Dest)) - 1

\* Where a call that writes a buffer is.
LEMMA WriteState ==
  ASSUME IndInv, pc \in {"start", "next", "piece"}
  PROVE  /\ Typed /\ ~Transfers /\ call.dest \in Nat /\ call.len \in Nat /\ off \in Nat /\ off <= call.len
         /\ \A a \in Addresses : flash[a] = Intended(a, off)
         /\ call.api \in {"write_buffer", "write_to_sector"}
         /\ (pc = "piece" <=> call.api = "write_to_sector") /\ (pc = "piece" => off = 0)
         /\ Dest \in Nat /\ Left \in Nat /\ Dest = call.dest + off /\ Left = call.len - off
         /\ call.dest \in Addresses /\ call.dest + call.len <= FlashEnd
BY Ends, SMTT(30) DEF IndInv, Typed, Control, Transfers, WriteInv, Dest, Left, Addresses

\* A piece that is not refused is inside its sector, and no more than what is left.
LEMMA AcceptedInside ==
  ASSUME IndInv, pc \in {"start", "next", "piece"}, NEW len \in Nat, PieceOf(len),
         SectorOf(Dest) = SectorOf(Dest + len - 1), ~(SectorOf(Dest) >= NSmall)
  PROVE  /\ SectorOf(Dest) \in Sectors /\ SectorOf(Dest) < NSmall /\ Dest \in Bytes(SectorOf(Dest))
         /\ Dest .. (Dest + len - 1) \subseteq Bytes(SectorOf(Dest))
         /\ len <= Left /\ (len > 0 \/ call.len = 0)
<1> DEFINE s == SectorOf(Dest)
<1>1. Dest \in Nat /\ Left \in Nat /\ Dest = call.dest + off /\ Left = call.len - off
      /\ call.len \in Nat /\ (pc = "piece" => off = 0)
  BY WriteState
<1>2. s \in Sectors /\ s < NSmall /\ Dest \in Bytes(s)
  <2>1. SectorOf(Dest) < NSmall
    <3>1. Dest \div Small \in Int /\ (Dest - NSmall * Small) \div Large \in Int
      BY <1>1, Sizes
    <3>2. SectorOf(Dest) \in Int
      BY <3>1, Sizes DEF SectorOf
    <3>3. QED
      BY <3>2, Sizes
  <2>2. QED
    BY <1>1, <2>1, InSmallSector, InItsSector
<1>3. len > 0 => Dest + len - 1 \in Bytes(s)
  BY <1>1, <1>2, InSmallSector, InItsSector
<1>4. Dest .. (Dest + len - 1) \subseteq Bytes(s)
  <2>1. CASE len = 0
    BY <1>1, <2>1
  <2>2. CASE len > 0
    BY <1>2, <1>3, <2>2, Between
  <2>3. QED
    BY <2>1, <2>2
<1>5. len <= Left
  <2>1. SUFFICES ASSUME Spans, len > Left
                 PROVE  FALSE
    BY <1>1 DEF PieceOf
  <2>2. Dest + Left \in Dest .. (Dest + len - 1)
    BY <1>1, <2>1
  <2>3. SectorOf(Dest + Left) = s
    BY <1>2, <1>4, <2>2, OneSector
  <2>4. QED
    BY <2>1, <2>3 DEF Spans
<1>6. len > 0 \/ call.len = 0
  <2>1. CASE len = Left /\ (pc = "piece" \/ (~Spans /\ len > 0))
    BY <1>1, <2>1
  <2>2. CASE len = AddressOf(s + 1) - Dest
    <3>1. AddressOf(s + 1) = AddressOf(s) + SizeOf(s)
      BY <1>2, NextSector
    <3>2. QED
      BY <1>1, <1>2, <2>2, <3>1, SectorBytes, Sizes DEF Bytes
  <2>3. CASE len = SizeOf(s) - 1
    BY <1>2, <2>3, SectorBytes, SizeAssumption
  <2>4. QED
    BY <2>1, <2>2, <2>3 DEF PieceOf
<1>7. QED
  BY <1>2, <1>4, <1>5, <1>6

\* The last piece begins at the destination, or at the start of its sector; none but the
\* last is short; and each of the others ends at an edge.
LEMMA Accepted ==
  ASSUME IndInv, Edges, pc \in {"start", "next", "piece"}, NEW len \in Nat, PieceOf(len),
         SectorOf(Dest) = SectorOf(Dest + len - 1), ~(SectorOf(Dest) >= NSmall)
  PROVE  /\ (off + len = call.len /\ len > 0) =>
              LastPiece(call) = Dest /\ End(call) = Dest + len /\ SectorOf(End(call) - 1) = SectorOf(Dest)
         /\ Short(Dest, buf + off, len) <=> (off + len = call.len /\ EndsShort(call, buf))
         /\ off + len < call.len => Edge(Dest + len)
<1> DEFINE s == SectorOf(Dest)
<1>1. /\ Typed /\ Dest \in Nat /\ Left \in Nat /\ Dest = call.dest + off /\ Left = call.len - off
      /\ call.len \in Nat /\ off \in Nat /\ call.dest \in Nat /\ call.dest \in Addresses
      /\ call.dest + call.len <= FlashEnd /\ (pc = "piece" => off = 0)
      /\ call.api \in {"write_buffer", "write_to_sector"}
  BY WriteState
<1>2. /\ s \in Sectors /\ s < NSmall /\ Dest \in Bytes(s)
      /\ Dest .. (Dest + len - 1) \subseteq Bytes(s)
      /\ len <= Left /\ (len > 0 \/ call.len = 0)
  BY AcceptedInside
<1>3. /\ AddressOf(s) \in Nat /\ SizeOf(s) = Small /\ AddressOf(s + 1) = AddressOf(s) + Small
      /\ Bytes(s) = AddressOf(s) .. (AddressOf(s) + Small - 1)
      /\ Small \in Nat /\ Small > 2 /\ Word \in Nat \ {0} /\ Word < Small
  BY <1>2, SectorBytes, NextSector, SizeAssumption DEF Bytes
<1>4. CASE len = 0
  <2>1. call.len = 0 /\ ~(off + len < call.len) /\ ~Short(Dest, buf + off, len)
    BY <1>1, <1>2, <1>4 DEF Short
  <2>2. ~EndsShort(call, buf)
    BY <2>1 DEF EndsShort
  <2>3. QED
    BY <1>4, <2>1, <2>2
<1>5. CASE len > 0
  <2>1. Dest + len - 1 \in Bytes(s) /\ Dest + len - 1 \in Nat
    BY <1>1, <1>2, <1>5
  <2>2. pc = "next" => Dest = AddressOf(s)
    <3>1. SUFFICES ASSUME pc = "next", Dest + 1 = AddressOf(s + 1)
                   PROVE  FALSE
      BY <1>1, <1>2, <1>5 DEF Edges, Edge
    <3>2. len = 1
      BY <1>1, <1>3, <1>5, <2>1, <3>1
    <3>3. len = Left /\ ~Spans
      BY <1>2, <1>3, <3>1, <3>2 DEF PieceOf
    <3>4. SectorOf(Dest + 1) = s
      BY <3>2, <3>3 DEF Spans
    <3>5. Dest + 1 \in Bytes(s)
      BY <1>1, <1>2, <3>4, InSmallSector, InItsSector
    <3>6. QED
      BY <1>3, <3>1, <3>5
  <2>3. off = 0 \/ Dest = AddressOf(s)
    <3>1. pc = "start" => off = 0
      BY DEF Edges
    <3>2. QED
      BY <1>1, <2>2, <3>1
  <2>4. off + len = call.len =>
          LastPiece(call) = Dest /\ End(call) = Dest + len /\ SectorOf(End(call) - 1) = s
    <3>1. SUFFICES ASSUME off + len = call.len
                   PROVE  LastPiece(call) = Dest /\ End(call) = Dest + len /\ SectorOf(End(call) - 1) = s
      OBVIOUS
    <3>2. End(call) = Dest + len
      BY <1>1, <3>1 DEF End
    <3>3. SectorOf(End(call) - 1) = s
      <4>1. End(call) - 1 = Dest + len - 1
        BY <1>1, <3>2
      <4>2. QED
        BY <1>2, <2>1, <4>1, OneSector
    <3>4. CASE off = 0
      <4>1. Dest = call.dest
        BY <1>1, <3>4
      <4>2. QED
        BY <3>2, <3>3, <4>1 DEF LastPiece
    <3>5. CASE off # 0 /\ Dest = AddressOf(s)
      <4>1. call.dest < AddressOf(s)
        BY <1>1, <3>5
      <4>2. SectorOf(call.dest) # s
        BY <1>1, <1>3, <4>1, InItsSector, SMTT(30)
      <4>3. QED
        BY <3>2, <3>3, <3>5, <4>2, SMTT(30) DEF LastPiece
    <3>6. QED
      BY <2>3, <3>4, <3>5
  <2>5. off + len = call.len => (Short(Dest, buf + off, len) <=> EndsShort(call, buf))
    <3>1. SUFFICES ASSUME off + len = call.len
                   PROVE  Short(Dest, buf + off, len) <=> EndsShort(call, buf)
      OBVIOUS
    <3>2. LastPiece(call) = Dest /\ End(call) = Dest + len
      BY <2>4, <3>1
    <3>3. LastPiece(call) - call.dest = off /\ End(call) - LastPiece(call) = len /\ call.len > 0
      BY <1>1, <1>5, <3>1, <3>2
    <3>4. QED
      BY <1>1, <3>2, <3>3 DEF EndsShort
  <2>6. CASE len = Left
    <3>1. off + len = call.len
      BY <1>1, <2>6
    <3>2. QED
      BY <1>1, <2>4, <2>5, <3>1
  <2>7. CASE pc = "start" /\ len = AddressOf(s + 1) - Dest
    <3>1. ~Short(Dest, buf + off, len)
      <4>1. SUFFICES ASSUME Dest % Word = 0, len < Word
                     PROVE  FALSE
        BY <1>3 DEF Short
      <4>2. AddressOf(s + 1) = (s + 1) * Small /\ AddressOf(s + 1) \in Nat
        <5>1. AddressOf(s) = s * Small /\ (s + 1) * Small = s * Small + Small
          BY <1>2, <1>3 DEF AddressOf, Sectors
        <5>2. QED
          BY <1>3, <5>1
      <4>3. AddressOf(s + 1) % Word = 0
        <5>1. s + 1 \in 0 .. NSmall
          BY <1>2, Sizes DEF Sectors
        <5>2. QED
          BY <4>2, <5>1, SectorsAligned
      <4>4. Dest < AddressOf(s + 1)
        BY <1>1, <1>5, <2>7, <4>2
      <4>5. AddressOf(s + 1) - Dest >= Word
        BY <1>1, <1>3, <4>1, <4>2, <4>3, <4>4, WholeWords
      <4>6. QED
        BY <1>3, <2>7, <4>1, <4>5
    <3>2. Dest + len = AddressOf(s + 1)
      BY <1>1, <1>3, <2>7
    <3>3. off + len < call.len => Edge(Dest + len)
      <4>1. SUFFICES ASSUME off + len < call.len
                     PROVE  Edge(Dest + len)
        OBVIOUS
      <4>2. s + 1 \in Sectors
        <5>1. Dest + len < FlashEnd
          BY <1>1, <4>1, Ends
        <5>2. QED
          BY <1>2, <3>2, <5>1, SectorAfter
      <4>3. SectorOf(AddressOf(s + 1)) = s + 1
        BY <4>2, SectorBytes
      <4>4. QED
        BY <3>2, <4>3 DEF Edge
    <3>4. QED
      BY <1>1, <1>2, <2>4, <2>5, <3>1, <3>3
  <2>8. CASE pc = "next" /\ len = SizeOf(s) - 1
    <3>1. ~Short(Dest, buf + off, len)
      BY <1>3, <2>8 DEF Short
    <3>2. Dest = AddressOf(s) /\ Dest + len + 1 = AddressOf(s + 1) /\ Dest + len \in Bytes(s)
      BY <1>1, <1>3, <2>2, <2>8, SMTT(30)
    <3>3. Edge(Dest + len)
      BY <1>2, <3>2, OneSector DEF Edge
    <3>4. QED
      BY <1>1, <1>2, <2>4, <2>5, <3>1, <3>3
  <2>9. QED
    BY <2>6, <2>7, <2>8 DEF PieceOf
<1>6. QED
  BY <1>4, <1>5

\* The bytes that are replaced in the image of a sector: the piece's, and those behind it.
LEMMA ImageIntended ==
  ASSUME IndInv, Edges, pc \in {"start", "next", "piece"}, NEW len \in Nat, PieceOf(len),
         SectorOf(Dest) = SectorOf(Dest + len - 1), ~(SectorOf(Dest) >= NSmall),
         NEW a \in Bytes(SectorOf(Dest))
  PROVE  IF a \in Dest .. (Dest + Moves(Dest, buf + off, len) - 1)
           THEN Intended(a, off + len) = <<n, off + (a - Dest)>>
           ELSE Intended(a, off + len) = flash[a]
<1> DEFINE s == SectorOf(Dest)
<1>1. /\ Typed /\ Dest \in Nat /\ Left \in Nat /\ Dest = call.dest + off /\ Left = call.len - off
      /\ call.len \in Nat /\ off \in Nat /\ call.dest \in Nat /\ off <= call.len
      /\ \A x \in Addresses : flash[x] = Intended(x, off)
  BY WriteState
<1>2. s \in Sectors /\ len <= Left /\ (len > 0 \/ call.len = 0)
  BY AcceptedInside
<1>3. a \in Addresses /\ a \in Nat
  BY <1>2, OneSector, Ends DEF Addresses
<1>4. Overrun \in Nat
  BY SizeAssumption
<1>5. Intended(a, off + len) = IF a \in call.dest .. (call.dest + (off + len) - 1)
                                    \/ (off + len = call.len /\ a \in Behind(call, buf))
                                 THEN <<n, a - call.dest>> ELSE before[a]
  BY DEF Intended
<1>6. off + (a - Dest) = a - call.dest
  BY <1>1, <1>3
<1>7. flash[a] = IF a \in call.dest .. (call.dest + off - 1) \/ (off = call.len /\ a \in Behind(call, buf))
                   THEN <<n, a - call.dest>> ELSE before[a]
  BY <1>1, <1>3 DEF Intended
<1>8. off = call.len => Behind(call, buf) = {}
  <2>1. off = call.len => call.len = 0
    BY <1>1, <1>2
  <2>2. QED
    BY <2>1, BehindNothing
<1>9. CASE Short(Dest, buf + off, len)
  <2>1. /\ off + len = call.len /\ EndsShort(call, buf) /\ len > 0
        /\ End(call) = Dest + len /\ SectorOf(End(call) - 1) = s
    <3>1. len > 0
      BY <1>9, SizeAssumption DEF Short
    <3>2. QED
      BY <1>9, <3>1, Accepted
  <2>2. a \in Behind(call, buf) <=> (Dest + len <= a /\ a < Dest + len + Overrun)
    BY <2>1 DEF Behind
  <2>3. Moves(Dest, buf + off, len) = len + Overrun
    BY <1>9 DEF Moves
  <2>4. CASE a \in Dest .. (Dest + (len + Overrun) - 1)
    <3>1. a \in call.dest .. (call.dest + (off + len) - 1) \/ a \in Behind(call, buf)
      BY <1>1, <1>3, <1>4, <2>2, <2>4
    <3>2. QED
      BY <1>5, <1>6, <2>1, <2>3, <2>4, <3>1
  <2>5. CASE a \notin Dest .. (Dest + (len + Overrun) - 1)
    <3>1. /\ a \notin Behind(call, buf)
          /\ a \in call.dest .. (call.dest + (off + len) - 1) <=> a \in call.dest .. (call.dest + off - 1)
      BY <1>1, <1>3, <1>4, <2>2, <2>5
    <3>2. QED
      BY <1>5, <1>7, <1>8, <2>3, <2>5, <3>1
  <2>6. QED
    BY <2>4, <2>5
<1>10. CASE ~Short(Dest, buf + off, len)
  <2>1. off + len = call.len => a \notin Behind(call, buf)
    BY <1>10, Accepted DEF Behind
  <2>2. Moves(Dest, buf + off, len) = len
    BY <1>10 DEF Moves
  <2>3. a \in Dest .. (Dest + len - 1) => a \in call.dest .. (call.dest + (off + len) - 1)
    BY <1>1, <1>3
  <2>4. a \notin Dest .. (Dest + len - 1) =>
          (a \in call.dest .. (call.dest + (off + len) - 1) <=> a \in call.dest .. (call.dest + off - 1))
    BY <1>1, <1>3
  <2>5. QED
    BY <1>5, <1>6, <1>7, <1>8, <2>1, <2>2, <2>3, <2>4
<1>11. QED
  BY <1>9, <1>10

\* The next piece of a buffer: refused, or its sector is read and patched.
LEMMA PieceInd ==
  ASSUME IndInv, Edges, pc \in {"start", "next", "piece"}, NEW len \in Nat, WriteToSector(Dest, len),
         PieceOf(len)
  PROVE  IndInv'
<1>1. /\ Typed /\ ~Transfers /\ call.dest \in Nat /\ call.len \in Nat /\ off \in Nat /\ off <= call.len
      /\ \A a \in Addresses : flash[a] = Intended(a, off)
      /\ call.api \in {"write_buffer", "write_to_sector"}
      /\ pc = "piece" <=> call.api = "write_to_sector"
      /\ pc = "piece" => off = 0
      /\ Dest \in Nat /\ Left \in Nat /\ Dest = call.dest + off /\ Left = call.len - off
  BY WriteState
<1>2. CASE SectorOf(Dest) # SectorOf(Dest + len - 1) \/ SectorOf(Dest) >= NSmall
  <2>1. /\ pc' = "idle" /\ ret' = -1
        /\ UNCHANGED <<ram, job, spilled, flash, prepared, call, buf, off, n, faults, before>>
    BY <1>2 DEF WriteToSector, Return
  <2>2. Typed' /\ Control' /\ TransferInv'
    BY <1>1, <2>1 DEF Typed, Control, TransferInv, Transfers
  <2>3. pc = "piece" => \A a \in Addresses : flash[a] = before[a]
    <3>1. SUFFICES ASSUME pc = "piece", NEW a \in Addresses
                   PROVE  flash[a] = before[a]
      OBVIOUS
    <3>2. off = 0 /\ flash[a] = Intended(a, off) /\ a \in Nat
      BY <1>1, <3>1, Ends DEF Addresses
    <3>3. off = call.len => Behind(call, buf) = {}
      BY <3>2, BehindNothing
    <3>4. a \notin call.dest .. (call.dest + off - 1)
      BY <1>1, <3>2
    <3>5. QED
      BY <3>2, <3>3, <3>4 DEF Intended
  <2>4. \A a \in Addresses : (Intended(a, off))' = Intended(a, off)
    BY <2>1 DEF Intended
  <2>5. WriteInv'
    <3>1. Bytes(job.sector) \subseteq Addresses
      BY <1>1, SectorBytes DEF Typed
    <3>2. call.api = "write_to_sector" => \A a \in Addresses : flash[a] = before[a]
      BY <1>1, <2>3
    <3>3. \A a \in Addresses : flash'[a] = (Intended(a, off))'
      BY <1>1, <2>1, <2>4
    <3>4. QED
      BY <1>1, <2>1, <3>1, <3>2, <3>3 DEF WriteInv, Transfers
  <2>6. QED
    BY <2>2, <2>5 DEF IndInv
<1>3. CASE ~(SectorOf(Dest) # SectorOf(Dest + len - 1) \/ SectorOf(Dest) >= NSmall)
  <2> DEFINE s == SectorOf(Dest)
             start == AddressOf(s)
             image == SectorImage(Dest, off, len)
  <2>1. /\ pc' = "prepare1" /\ part' = len /\ ram' = image /\ job' = [sector |-> s, image |-> image]
        /\ UNCHANGED <<ret, flash, prepared, call, buf, off, n, faults, before>>
    BY <1>3 DEF WriteToSector
  <2>2. /\ s \in Sectors /\ s < NSmall /\ Dest .. (Dest + len - 1) \subseteq Bytes(s)
        /\ len <= Left /\ (len > 0 \/ call.len = 0)
    BY <1>3, AcceptedInside
  <2>3. /\ Bytes(s) \subseteq Addresses /\ SizeOf(s) = Small /\ start \in Nat
        /\ Bytes(s) = start .. (start + Small - 1)
    BY <2>2, SectorBytes DEF Bytes
  <2>4. \A a \in Bytes(s) : IF a \in Dest .. (Dest + Moves(Dest, buf + off, len) - 1)
                              THEN Intended(a, off + len) = <<n, off + (a - Dest)>>
                              ELSE Intended(a, off + len) = flash[a]
    BY <1>3, ImageIntended
  <2>5. image = [i \in 0 .. (Small - 1) |->
                   IF start + i \in Dest .. (Dest + Moves(Dest, buf + off, len) - 1)
                     THEN <<n, off + (start + i - Dest)>> ELSE flash[start + i]]
    BY DEF SectorImage
  <2> HIDE DEF start, image
  <2>6. ASSUME NEW i \in 0 .. (Small - 1)
        PROVE  image[i] = Intended(start + i, off + len) /\ image[i] \in Byte
    <3>1. start + i \in Bytes(s) /\ start + i \in Addresses
      BY <2>3, Ends
    <3>2. image[i] = Intended(start + i, off + len)
      <4>1. image[i] = IF start + i \in Dest .. (Dest + Moves(Dest, buf + off, len) - 1)
                         THEN <<n, off + (start + i - Dest)>> ELSE flash[start + i]
        BY <2>5
      <4>2. IF start + i \in Dest .. (Dest + Moves(Dest, buf + off, len) - 1)
              THEN Intended(start + i, off + len) = <<n, off + ((start + i) - Dest)>>
              ELSE Intended(start + i, off + len) = flash[start + i]
        BY <2>4, <3>1, Zenon
      <4>3. CASE start + i \in Dest .. (Dest + Moves(Dest, buf + off, len) - 1)
        BY <1>1, <2>3, <4>1, <4>2, <4>3
      <4>4. CASE start + i \notin Dest .. (Dest + Moves(Dest, buf + off, len) - 1)
        BY <1>1, <2>3, <4>1, <4>2, <4>4
      <4>5. QED
        BY <4>3, <4>4
    <3>3. Intended(start + i, off + len) \in Byte
      BY <1>1, <3>1, IntendedByte
    <3>4. QED
      BY <3>2, <3>3
  <2>7. DOMAIN image = 0 .. (Small - 1) /\ image \in [0 .. (Small - 1) -> Byte]
    <3>1. image = [i \in 0 .. (Small - 1) |-> image[i]]
      BY <2>5
    <3>2. QED
      BY <2>6, <3>1
  <2> HIDE DEF s
  <2>8. Typed'
    BY <1>1, <2>1, <2>2, <2>7 DEF Typed
  <2>9. Control' /\ TransferInv'
    BY <1>1, <2>1 DEF Control, TransferInv, Transfers
  <2>10. Ready'
    <3>1. /\ part' = len /\ job'.sector = s /\ job'.image = image /\ AddressOf(s) = start
          /\ off' = off /\ call' = call /\ buf' = buf /\ n' = n /\ before' = before
      BY <2>1 DEF start
    <3>2. part' \in 0 .. (call'.len - off') /\ (part' > 0 \/ call'.len = 0)
      BY <1>1, <2>2, <3>1
    <3>3. (call.dest + off)' .. (call.dest + off + part - 1)' \subseteq Bytes(job'.sector)
      BY <1>1, <2>2, <3>1
    <3>4. DOMAIN job'.image = 0 .. (SizeOf(job'.sector) - 1)
      BY <2>3, <2>7, <3>1
    <3>5. \A i \in 0 .. (SizeOf(job'.sector) - 1) :
            job'.image[i] = (Intended(AddressOf(job.sector) + i, off + part))'
      BY <2>3, <2>6, <3>1 DEF Intended
    <3>6. /\ call'.api # "write_buffer" => off' + part' = call'.len
          /\ job'.sector < NSmall
      BY <1>1, <2>2, <3>1 DEF PieceOf
    <3>7. QED
      BY <3>2, <3>3, <3>4, <3>5, <3>6 DEF Ready
  <2>11. WriteInv'
    BY <1>1, <2>1, <2>2, <2>3, <2>10 DEF WriteInv, Intended, Transfers
  <2>12. QED
    BY <2>8, <2>9, <2>11 DEF IndInv
<1>4. QED
  BY <1>2, <1>3

\* Where data spans two sectors there is a byte to write, and a rest of its sector.
LEMMA SpansAhead ==
  ASSUME Typed, off <= call.len, Spans
  PROVE  /\ SectorOf(Dest) \in Sectors
         /\ AddressOf(SectorOf(Dest) + 1) - Dest \in Nat
         /\ SizeOf(SectorOf(Dest)) - 1 \in Nat
<1>1. /\ Dest \in Nat /\ Left \in Nat /\ Dest + Left = call.dest + call.len
      /\ call.dest + call.len <= FlashEnd
  <2>1. /\ call.dest \in Nat /\ call.len \in Nat /\ off \in Nat
        /\ call.dest + call.len <= FlashEnd
    BY Ends DEF Typed
  <2>2. QED
    BY <2>1 DEF Dest, Left
<1>2. Left # 0
  BY <1>1 DEF Spans
<1>3. Dest \in Addresses
  BY <1>1, <1>2, Ends DEF Addresses, Typed
<1>4. SectorOf(Dest) \in Sectors /\ Dest \in Bytes(SectorOf(Dest))
  BY <1>3, InItsSector
<1>5. AddressOf(SectorOf(Dest) + 1) = AddressOf(SectorOf(Dest)) + SizeOf(SectorOf(Dest))
  BY <1>4, NextSector
<1>6. AddressOf(SectorOf(Dest)) \in Nat /\ SizeOf(SectorOf(Dest)) \in Nat \ {0}
  BY <1>4, SectorBytes, Sizes
<1>7. QED
  BY <1>1, <1>4, <1>5, <1>6 DEF Bytes

\* A step that makes the image of a piece, with the length of the piece.
LEMMA PieceStep ==
  ASSUME IndInv, WriteToSectorCall \/ FirstPart \/ FullSector \/ Remaining
  PROVE  /\ pc \in {"start", "next", "piece"}
         /\ \E len \in Nat : PieceOf(len) /\ WriteToSector(Dest, len)
<1>1. Typed /\ (pc \in {"start", "next", "piece"} => off <= call.len /\ Left \in Nat)
  BY DEF IndInv, Typed, Control, Transfers, WriteInv, Left
<1>2. CASE WriteToSectorCall
  BY <1>1, <1>2 DEF WriteToSectorCall, PieceOf
<1>3. CASE FirstPart
  BY <1>1, <1>3, SpansAhead DEF FirstPart, PieceOf
<1>4. CASE FullSector
  BY <1>1, <1>4, SpansAhead DEF FullSector, PieceOf
<1>5. CASE Remaining
  BY <1>1, <1>5 DEF Remaining, PieceOf
<1>6. QED
  BY <1>2, <1>3, <1>4, <1>5

\* The pieces of a buffer.
LEMMA PiecesInd ==
  ASSUME IndInv, Edges, WriteToSectorCall \/ FirstPart \/ FullSector \/ Remaining
  PROVE  IndInv'
BY PieceStep, PieceInd

LEMMA NothingRemainsInd == IndInv /\ NothingRemains => IndInv'
<1> SUFFICES ASSUME IndInv, NothingRemains PROVE IndInv'
  OBVIOUS
<1>1. /\ Typed /\ ~Transfers /\ call.api = "write_buffer" /\ off = call.len
      /\ \A a \in Addresses : flash[a] = Intended(a, off)
  BY DEF IndInv, Typed, Control, Transfers, WriteInv, NothingRemains, Left
<1>2. /\ pc' = "idle" /\ ret' = 0
      /\ UNCHANGED <<flash, prepared, ram, call, buf, spilled, off, part, job, n, faults, before>>
  BY DEF NothingRemains, Return
<1>3. Typed' /\ Control' /\ TransferInv'
  BY <1>1, <1>2 DEF Typed, Control, TransferInv, Transfers
<1>4. Bytes(job.sector) \subseteq Addresses
  BY <1>1, SectorBytes DEF Typed
<1>5. WriteInv'
  BY <1>1, <1>2, <1>4 DEF WriteInv, Intended, Transfers, Typed
<1>6. QED
  BY <1>3, <1>5 DEF IndInv

\* A whole sector from the caller's buffer.
LEMMA BufferToSectorCallInd == IndInv /\ BufferToSectorCall => IndInv'
<1> SUFFICES ASSUME IndInv, BufferToSectorCall PROVE IndInv'
  OBVIOUS
<1> DEFINE s == SectorOf(call.dest)
<1>1. /\ Typed /\ ~Transfers /\ call.api = "write_buffer_to_sector" /\ off = 0 /\ off <= call.len
      /\ call.dest = AddressOf(s) /\ call.len = SizeOf(s) /\ call.dest \in Addresses
      /\ \A a \in Addresses : flash[a] = Intended(a, off)
  BY Ends DEF IndInv, Typed, Control, Transfers, WriteInv, BufferToSectorCall, Addresses
<1>2. s \in Sectors /\ AddressOf(s) \in Nat /\ SizeOf(s) \in Nat \ {0} /\ Bytes(s) \subseteq Addresses
  BY <1>1, InItsSector, SectorBytes, Sizes
<1>3. Dest = call.dest
  BY <1>1, <1>2 DEF Dest
<1>4. /\ pc' = "prepare1" /\ part' = call.len
      /\ job' = [sector |-> s, image |-> [i \in 0 .. (SizeOf(s) - 1) |-> <<n, 0 + i>>]]
      /\ UNCHANGED <<flash, prepared, ram, call, buf, spilled, off, ret, n, faults, before>>
  BY <1>3 DEF BufferToSectorCall, Source
<1> HIDE DEF s
<1>5. job'.sector = s /\ DOMAIN job'.image = 0 .. (SizeOf(s) - 1)
      /\ \A i \in 0 .. (SizeOf(s) - 1) : job'.image[i] = <<n, i>>
  BY <1>2, <1>4
<1>6. Typed'
  BY <1>1, <1>2, <1>4, <1>5 DEF Typed
<1>7. Control' /\ TransferInv'
  BY <1>1, <1>4 DEF Control, TransferInv, Transfers
<1>8. Ready'
  <2>1. \A i \in 0 .. (SizeOf(s) - 1) :
          <<n, i>> = IF AddressOf(s) + i \in call.dest .. (call.dest + (off + call.len) - 1)
                       THEN <<n, (AddressOf(s) + i) - call.dest>> ELSE before[AddressOf(s) + i]
    BY <1>1, <1>2
  <2>2. \A i \in 0 .. (SizeOf(job'.sector) - 1) :
          job'.image[i] = (Intended(AddressOf(job.sector) + i, off + part))'
    <3>1. Behind(call', buf') = {} /\ call' = call /\ off' = off /\ n' = n /\ before' = before
      BY <1>1, <1>4, BehindNothing
    <3>2. QED
      BY <1>4, <1>5, <2>1, <3>1 DEF Intended
  <2>3. part' \in 0 .. (call'.len - off') /\ off' + part' = call'.len /\ part' > 0
        /\ (call.dest + off)' .. (call.dest + off + part - 1)' \subseteq Bytes(job'.sector)
    BY <1>1, <1>2, <1>4, <1>5 DEF Bytes
  <2>4. QED
    BY <1>1, <1>4, <1>5, <2>2, <2>3 DEF Ready
<1>9. WriteInv'
  BY <1>1, <1>2, <1>4, <1>5, <1>8 DEF WriteInv, Intended, Transfers
<1>10. QED
  BY <1>6, <1>7, <1>9 DEF IndInv

-----------------------------------------------------------------------------
(***************************************************************************)
(* The calls of the ROM for a write                                        *)
(***************************************************************************)

\* An error or a reset leaves the bytes of the flash where they are.
LEMMA CutShort ==
  ASSUME IndInv, ~Transfers, pc' = "idle", ret' # 0, ret' \in -6 .. 1, faults' = faults + 1,
         UNCHANGED <<flash, call, buf, spilled, off, job, n, before>>,
         prepared' \in SUBSET Sectors, ram' \in [0 .. (Small - 1) -> Byte]
  PROVE  IndInv'
<1>1. Typed' /\ faults' # 0
  BY DEF IndInv, Typed
<1>2. Control' /\ TransferInv'
  BY DEF IndInv, Control, TransferInv, Transfers
<1>3. WriteInv'
  BY <1>1 DEF IndInv, WriteInv, Transfers, Intended
<1>4. QED
  BY <1>1, <1>2, <1>3 DEF IndInv

LEMMA PrepareInd == IndInv /\ Prepare => IndInv'
<1> SUFFICES ASSUME IndInv, Prepare PROVE IndInv'
  OBVIOUS
<1>1. /\ Typed /\ ~Transfers /\ pc \in {"prepare1", "prepare2"}
      /\ UNCHANGED <<flash, ram, call, buf, spilled, off, part, job, n, before>>
  BY DEF IndInv, Control, Prepare
<1>2. CASE Fault /\ Return(-1) /\ UNCHANGED prepared
  BY <1>1, <1>2, CutShort DEF Fault, Return, Typed
<1>3. CASE /\ prepared' = {job.sector}
           /\ pc' = IF pc = "prepare1" THEN "erase" ELSE "copy"
           /\ UNCHANGED <<ret, faults>>
  <2>1. Typed'
    BY <1>1, <1>3 DEF Typed
  <2>2. Control' /\ TransferInv'
    BY <1>1, <1>3 DEF IndInv, Control, TransferInv, Transfers
  <2>3. Ready'
    BY <1>1 DEF IndInv, WriteInv, Ready, Intended
  <2>4. WriteInv'
    BY <1>1, <1>3, <2>3 DEF IndInv, WriteInv, Transfers, Intended
  <2>5. QED
    BY <2>1, <2>2, <2>4 DEF IndInv
<1>4. QED
  BY <1>2, <1>3 DEF Prepare

LEMMA EraseInd == IndInv /\ Erase => IndInv'
<1> SUFFICES ASSUME IndInv, Erase PROVE IndInv'
  OBVIOUS
<1>1. /\ Typed /\ ~Transfers /\ pc = "erase"
      /\ UNCHANGED <<ram, call, buf, spilled, off, part, job, n, before>>
  BY DEF IndInv, Control, Erase
<1>2. CASE Fault /\ Return(-1) /\ UNCHANGED <<flash, prepared>>
  BY <1>1, <1>2, CutShort DEF Fault, Return, Typed
<1>3. CASE /\ flash' = EraseSector(job.sector) /\ prepared' = {}
           /\ pc' = "prepare2" /\ UNCHANGED <<ret, faults>>
  <2>1. /\ flash' \in [Addresses -> Byte]
        /\ \A a \in Addresses \ Bytes(job.sector) : flash'[a] = flash[a]
        /\ \A a \in Addresses : a \in Bytes(job.sector) => flash'[a] = Blank
    BY <1>1, <1>3 DEF EraseSector, Typed, Byte
  <2>2. Bytes(job.sector) \subseteq Addresses
    BY <1>1, SectorBytes DEF Typed
  <2>3. Typed'
    BY <1>1, <1>3, <2>1 DEF Typed
  <2>4. Control' /\ TransferInv'
    BY <1>1, <1>3 DEF IndInv, Control, TransferInv, Transfers
  <2>5. Ready'
    BY <1>1 DEF IndInv, WriteInv, Ready, Intended
  <2>6. \A a \in Addresses \ Bytes(job.sector) : flash'[a] = (Intended(a, off))'
    BY <1>1, <2>1 DEF IndInv, WriteInv, Intended
  <2>7. ~(off = call.len /\ call.len > 0)
    <3>1. part \in 0 .. (call.len - off) /\ (part > 0 \/ call.len = 0)
      BY <1>1 DEF IndInv, WriteInv, Ready
    <3>2. QED
      BY <1>1, <3>1 DEF Typed
  <2>8. WriteInv'
    BY <1>1, <1>3, <2>1, <2>2, <2>5, <2>6, <2>7 DEF IndInv, WriteInv, Transfers
  <2>9. QED
    BY <2>3, <2>4, <2>8 DEF IndInv
<1>4. QED
  BY <1>2, <1>3 DEF Erase

\* The ROM never refuses to copy a small sector.
LEMMA SmallCopies ==
  ASSUME IndInv, pc = "copy", call.api = "write_to_sector"
  PROVE  CopyAllowed(AddressOf(job.sector), SizeOf(job.sector))
<1>1. Ready /\ prepared = {job.sector} /\ job.sector \in Sectors
  BY DEF IndInv, Typed, WriteInv, Transfers
<1>2. QED
  BY <1>1, SectorBytes, SizeAssumption DEF CopyAllowed, Ready

\* The sector is burned: what it holds is what is intended, the piece included.
LEMMA CopyInd == IndInv /\ Copy => IndInv'
<1> SUFFICES ASSUME IndInv, Copy PROVE IndInv'
  OBVIOUS
<1> DEFINE s    == job.sector
           dest == AddressOf(s)
           len  == SizeOf(s)
<1>1. /\ Typed /\ ~Transfers /\ pc = "copy" /\ Ready /\ off <= call.len
      /\ prepared = {s} /\ s \in Sectors
      /\ UNCHANGED <<ram, call, buf, spilled, part, job, n, before>>
  BY DEF IndInv, Typed, Control, Transfers, WriteInv, Copy
<1>2. /\ dest \in Nat /\ len \in Nat \ {0} /\ Bytes(s) \subseteq Addresses
      /\ Bytes(s) = dest .. (dest + len - 1)
  BY <1>1, SectorBytes, Sizes DEF Bytes
<1>3. CASE Fault /\ Return(-1) /\ UNCHANGED <<flash, prepared, off>>
  BY <1>1, <1>3, CutShort DEF Fault, Return, Typed
<1>4. CASE ~CopyAllowed(dest, len) /\ UNCHANGED faults /\ Return(-1) /\ UNCHANGED <<flash, prepared, off>>
  <2>1. call.api # "write_to_sector"
    BY <1>1, <1>4, SmallCopies
  <2>2. Typed'
    BY <1>1, <1>4 DEF Typed, Return
  <2>3. Control' /\ TransferInv'
    BY <1>1, <1>4 DEF Control, TransferInv, Transfers, Return
  <2>4. WriteInv'
    BY <1>1, <1>4, <2>1 DEF IndInv, WriteInv, Transfers, Intended, Return
  <2>5. QED
    BY <2>2, <2>3, <2>4 DEF IndInv
<1>5. CASE /\ CopyAllowed(dest, len) /\ flash' = Program(dest, job.image) /\ prepared' = {}
           /\ off' = off + part /\ PieceDone /\ UNCHANGED faults
  <2>1. /\ part \in 0 .. (call.len - off) /\ off \in Nat /\ call.dest \in Nat /\ call.len \in Nat
        /\ off' \in Nat /\ off' <= call.len
    BY <1>1, <1>5 DEF Typed, Ready
  <2>2. \A a \in Bytes(s) : flash[a] = Blank /\ a - dest \in 0 .. (len - 1)
    BY <1>1, <1>2 DEF IndInv, WriteInv
  <2>3. ASSUME NEW a \in Addresses
        PROVE  flash'[a] = Intended(a, off + part) /\ flash'[a] \in Byte
    <3>1. CASE a \in Bytes(s)
      <4>1. a - dest \in 0 .. (len - 1) /\ dest + (a - dest) = a
        BY <1>2, <2>2, <3>1
      <4>2. job.image[a - dest] = Intended(a, off + part) /\ a - dest \in DOMAIN job.image
        BY <1>1, <4>1 DEF Ready
      <4>3. flash'[a] = job.image[a - dest]
        BY <1>1, <1>5, <2>2, <3>1, <4>2 DEF Program, Typed
      <4>4. Intended(a, off + part) \in Byte
        BY <1>1, <2>1, IntendedByte
      <4>5. QED
        BY <4>2, <4>3, <4>4
    <3>2. CASE a \notin Bytes(s)
      <4>1. a - dest \notin DOMAIN job.image
        BY <1>1, <1>2, <3>2, Ends DEF Ready, Addresses
      <4>2. flash'[a] = flash[a]
        BY <1>1, <1>5, <4>1 DEF Program, Typed
      <4>3. /\ (call.dest + off) .. (call.dest + off + part - 1) \subseteq Bytes(s)
            /\ part > 0 \/ call.len = 0
        BY <1>1 DEF Ready
      <4>4. Intended(a, off + part) = Intended(a, off)
        BY <1>1, <2>1, <3>2, <4>3, IntendedElsewhere
      <4>5. flash[a] = Intended(a, off)
        BY <1>1, <3>2 DEF IndInv, WriteInv
      <4>6. QED
        BY <1>1, <4>2, <4>4, <4>5 DEF Typed
    <3>3. QED
      BY <3>1, <3>2
  <2>4. flash' \in [Addresses -> Byte]
    <3>1. flash' = [a \in Addresses |-> flash'[a]]
      BY <1>1, <1>5 DEF Program, Typed
    <3>2. QED
      BY <2>3, <3>1
  <2>5. \A a \in Addresses : flash'[a] = (Intended(a, off))'
    BY <1>1, <1>5, <2>3 DEF Intended
  <2>6. Typed'
    <3>1. /\ before' = before /\ ram' = ram /\ call' = call /\ job' = job /\ n' = n /\ faults' = faults
          /\ prepared' \subseteq prepared /\ off' = off + part /\ ret' \in {ret, 0}
      BY <1>1, <1>5 DEF PieceDone, Return
    <3>2. off' \in 0 .. (call.len + Small) /\ ret' \in -6 .. 1
      BY <1>1, <2>1, <3>1, Ends DEF Typed
    <3>3. QED
      BY <1>1, <2>4, <3>1, <3>2 DEF Typed
  <2>7. Control' /\ TransferInv'
    BY <1>1, <1>5 DEF IndInv, Control, TransferInv, Transfers, PieceDone, Return
  <2>8. (pc' = "next" /\ ret' = ret) \/ (pc' = "idle" /\ ret' = 0 /\ off' = call.len)
    BY <1>1, <1>5 DEF PieceDone, Return, Ready
  <2>9. WriteInv'
    BY <1>1, <1>2, <2>1, <2>5, <2>8 DEF WriteInv, Transfers
  <2>10. QED
    BY <2>6, <2>7, <2>9 DEF IndInv
<1>6. QED
  BY <1>3, <1>4, <1>5 DEF Copy

-----------------------------------------------------------------------------
(***************************************************************************)
(* A transfer to a large sector                                            *)
(***************************************************************************)

\* In a transfer every byte of the target is old, new or blank.
LEMMA TransferTarget ==
  ASSUME IndInv, Transfers
  PROVE  \A a \in Target : flash[a] \in {before[a], Wanted(a), Blank}
<1>1. CASE pc = "idle"
  BY <1>1 DEF IndInv, TransferInv
<1>2. CASE pc # "idle"
  <2>1. pc \in {"t_prepare", "t_erase", "t_chunk", "t_copy"}
    BY <1>2 DEF IndInv, Control
  <2>2. SUFFICES ASSUME NEW a \in Target
                 PROVE  flash[a] \in {before[a], Wanted(a), Blank}
    OBVIOUS
  <2>3. a \in Addresses /\ Wanted(a) = before[call.src + (a - call.dest)]
    BY Ends DEF IndInv, Typed, Target, Addresses, Wanted, Transfers
  <2>4. CASE a \in Bytes(SectorOf(call.dest)) /\ pc \in {"t_chunk", "t_copy"}
    BY <2>3, <2>4 DEF IndInv, TransferInv
  <2>5. CASE a \notin Bytes(SectorOf(call.dest)) \/ pc \in {"t_prepare", "t_erase"}
    BY <2>3, <2>5 DEF IndInv, TransferInv
  <2>6. QED
    BY <2>1, <2>4, <2>5
<1>3. QED
  BY <1>1, <1>2

\* A transfer that is cut short leaves the target so.
LEMMA TransferCutShort ==
  ASSUME IndInv, Transfers, pc' = "idle", ret' # 0, ret' \in -6 .. 1, faults' \in Nat,
         UNCHANGED <<flash, call, buf, spilled, off, job, n, before>>,
         prepared' \in SUBSET Sectors, ram' \in [0 .. (Small - 1) -> Byte]
  PROVE  IndInv'
<1>1. Typed'
  BY DEF IndInv, Typed
<1>2. Control' /\ WriteInv'
  BY DEF IndInv, Control, WriteInv, Transfers
<1>3. \A a \in Target : flash[a] \in {before[a], Wanted(a), Blank}
  BY TransferTarget
<1>4. TransferInv'
  BY <1>3 DEF IndInv, TransferInv, Transfers, Target, Wanted
<1>5. QED
  BY <1>1, <1>2, <1>4 DEF IndInv

\* The sector of the destination, in which the transfer stays.
LEMMA TransferSector ==
  ASSUME IndInv, Transfers
  PROVE  /\ Typed /\ call.dest \in Addresses
         /\ SectorOf(call.dest) \in Sectors
         /\ Bytes(SectorOf(call.dest)) \subseteq Addresses
<1>1. Typed /\ call.dest \in Addresses
  BY Ends DEF IndInv, Typed, Addresses
<1>2. QED
  BY <1>1, InItsSector, SectorBytes

LEMMA TransfertPrepareInd == IndInv /\ TransfertPrepare => IndInv'
<1> SUFFICES ASSUME IndInv, TransfertPrepare PROVE IndInv'
  OBVIOUS
<1>1. /\ Typed /\ Transfers /\ pc = "t_prepare" /\ SectorOf(call.dest) \in Sectors
      /\ UNCHANGED <<flash, ram, call, buf, spilled, off, part, job, n, before>>
  BY TransferSector DEF IndInv, Control, TransfertPrepare
<1>2. CASE Fault /\ Return(-1) /\ UNCHANGED prepared
  BY <1>1, <1>2, TransferCutShort DEF Fault, Return, Typed
<1>3. CASE prepared' = {SectorOf(call.dest)} /\ pc' = "t_erase" /\ UNCHANGED <<ret, faults>>
  <2>1. Typed'
    BY <1>1, <1>3 DEF Typed
  <2>2. Control' /\ WriteInv'
    BY <1>1, <1>3 DEF IndInv, Control, WriteInv, Transfers
  <2>3. TransferInv'
    BY <1>1, <1>3 DEF IndInv, TransferInv, Transfers
  <2>4. QED
    BY <2>1, <2>2, <2>3 DEF IndInv
<1>4. QED
  BY <1>2, <1>3 DEF TransfertPrepare

LEMMA TransfertEraseInd == IndInv /\ TransfertErase => IndInv'
<1> SUFFICES ASSUME IndInv, TransfertErase PROVE IndInv'
  OBVIOUS
<1> DEFINE s == SectorOf(call.dest)
<1>1. /\ Typed /\ Transfers /\ pc = "t_erase" /\ s \in Sectors /\ Bytes(s) \subseteq Addresses
      /\ UNCHANGED <<ram, call, buf, spilled, off, part, job, n, before>>
  BY TransferSector DEF IndInv, Control, TransfertErase
<1>2. CASE Fault /\ Return(-2) /\ UNCHANGED <<flash, prepared>>
  BY <1>1, <1>2, TransferCutShort DEF Fault, Return, Typed
<1>3. CASE /\ flash' = EraseSector(s) /\ prepared' = {}
           /\ pc' = "t_chunk" /\ UNCHANGED <<ret, faults>>
  <2>1. /\ flash' \in [Addresses -> Byte]
        /\ \A a \in Addresses \ Bytes(s) : flash'[a] = flash[a]
        /\ \A a \in Bytes(s) : flash'[a] = Blank
    BY <1>1, <1>3 DEF EraseSector, Typed, Byte
  <2>2. Typed'
    BY <1>1, <1>3, <2>1 DEF Typed
  <2>3. Control' /\ WriteInv'
    BY <1>1, <1>3 DEF IndInv, Control, WriteInv, Transfers
  <2>4. off = 0 /\ call.len > 0 /\ call.dest .. (call.dest + off - 1) = {}
    BY <1>1 DEF IndInv, TransferInv, Typed
  <2>5. TransferInv'
    BY <1>1, <1>3, <2>1, <2>4 DEF IndInv, TransferInv, Transfers
  <2>6. QED
    BY <2>2, <2>3, <2>5 DEF IndInv
<1>4. QED
  BY <1>2, <1>3 DEF TransfertErase

\* Where there is an address behind the small sectors, there is a large one.
LEMMA LargeSectorAfter ==
  ASSUME NEW a \in Addresses, NSmall * Small <= a
  PROVE  NSmall * Small + Large <= FlashEnd
<1>1. NLarge # 0
  <2>1. NLarge = 0 => NLarge * Large = 0
    BY Sizes
  <2>2. QED
    BY <2>1, Sizes DEF Addresses
<1>2. NLarge * Large >= Large
  <2>1. Large * 1 <= Large * NLarge /\ NLarge * Large = Large * NLarge
    BY <1>1, Sizes, Times
  <2>2. QED
    BY <2>1, Sizes
<1>3. QED
  BY <1>2, Sizes

\* What is left of the small sectors is read, at most a small sector of it.
LEMMA TransfertChunkInd == IndInv /\ TransfertChunk => IndInv'
<1> SUFFICES ASSUME IndInv, TransfertChunk PROVE IndInv'
  OBVIOUS
<1> DEFINE s == SectorOf(call.dest)
<1>1. /\ Typed /\ Transfers /\ pc = "t_chunk" /\ s \in Sectors /\ Bytes(s) \subseteq Addresses
      /\ UNCHANGED <<flash, call, buf, spilled, off, part, job, n, before>>
  BY TransferSector DEF IndInv, Control, TransfertChunk
<1>2. /\ call.dest \in Nat /\ call.len \in Nat /\ call.src \in Nat /\ off \in Nat /\ off < call.len
      /\ call.src + call.len <= NSmall * Small /\ NSmall * Small <= call.dest
  BY <1>1 DEF IndInv, Typed, TransferInv
<1>3. ASSUME NEW i \in 0 .. (Small - 1), i < call.len - off
      PROVE  /\ call.src + off + i \in Addresses
             /\ flash[call.src + off + i] = before[call.src + off + i]
  <2>1. call.src + off + i \in Addresses /\ call.src + off + i < NSmall * Small
    BY <1>2, <1>3, Sizes DEF Addresses
  <2>2. call.src + off + i \notin Bytes(s)
    <3>1. \A a \in Bytes(s) : SectorOf(a) = s
      BY <1>1, OneSector
    <3>2. ~(s < NSmall)
      <4>1. call.dest \in Addresses
        BY <1>1, TransferSector
      <4>2. ~(call.dest < NSmall * Small)
        BY <1>2, Sizes
      <4>3. QED
        BY <4>1, <4>2, SmallAddress
    <3>3. SectorOf(call.src + off + i) < NSmall
      BY <2>1, SmallAddress
    <3>4. QED
      BY <3>1, <3>2, <3>3
  <2>3. QED
    BY <1>1, <2>1, <2>2 DEF IndInv, TransferInv
<1>4. /\ ram' \in [0 .. (Small - 1) -> Byte]
      /\ \A i \in 0 .. (Small - 1) : i < call.len - off => ram'[i] = before[call.src + off + i]
  <2> DEFINE moves == IF Left > Small THEN Small ELSE Moves(0, call.src + off, Left)
  <2>1. ram' = [i \in 0 .. (Small - 1) |-> IF i < moves THEN flash[call.src + off + i] ELSE ram[i]]
    BY <1>1 DEF TransfertChunk, Typed
  <2>2. /\ Left = call.len - off /\ Small \in Nat /\ Small < Large /\ Large \in Nat
        /\ Word \in Nat /\ Overrun \in Nat /\ Word + Overrun <= Small
    BY SizeAssumption DEF Left
  <2>3. moves \in Int /\ (moves > Left => moves < Small)
    BY <1>2, <2>2 DEF Moves, Short
  <2>4. \A i \in 0 .. (Small - 1) : i < Left => i < moves
    BY <1>2, <2>2 DEF Moves, Short
  <2> HIDE DEF moves
  <2>5. ASSUME NEW i \in 0 .. (Small - 1), i < moves
        PROVE  call.src + off + i \in Addresses
    <3>1. CASE i < call.len - off
      BY <1>3, <3>1
    <3>2. CASE ~(i < call.len - off)
      <4>1. call.src + off + i < NSmall * Small + Large
        BY <1>2, <2>2, <2>3, <2>5, <3>2, Sizes
      <4>2. NSmall * Small + Large <= FlashEnd
        BY <1>1, <1>2, LargeSectorAfter, TransferSector
      <4>3. QED
        BY <1>2, <4>1, <4>2, Sizes DEF Addresses
    <3>3. QED
      BY <3>1, <3>2
  <2>6. QED
    BY <1>1, <1>3, <2>1, <2>2, <2>4, <2>5 DEF Typed
<1>5. CASE Fault /\ Return(IF Left > Small THEN -3 ELSE -5) /\ UNCHANGED prepared
  BY <1>1, <1>4, <1>5, TransferCutShort DEF Fault, Return, Typed
<1>6. CASE prepared' = {s} /\ pc' = "t_copy" /\ UNCHANGED <<ret, faults>>
  <2>1. Typed'
    BY <1>1, <1>4, <1>6 DEF Typed
  <2>2. Control' /\ WriteInv'
    BY <1>1, <1>6 DEF IndInv, Control, WriteInv, Transfers
  <2>3. TransferInv'
    BY <1>1, <1>4, <1>6 DEF IndInv, TransferInv, Transfers
  <2>4. QED
    BY <2>1, <2>2, <2>3 DEF IndInv
<1>7. QED
  BY <1>5, <1>6 DEF TransfertChunk

\* A small sector's worth is burned behind the chunks that are there.
LEMMA TransfertCopyInd == IndInv /\ TransfertCopy => IndInv'
<1> SUFFICES ASSUME IndInv, TransfertCopy PROVE IndInv'
  OBVIOUS
<1> DEFINE s == SectorOf(call.dest)
<1>1. /\ Typed /\ Transfers /\ pc = "t_copy" /\ s \in Sectors /\ Bytes(s) \subseteq Addresses
      /\ prepared = {s}
      /\ UNCHANGED <<ram, call, buf, spilled, part, job, n, before>>
  BY TransferSector DEF IndInv, Control, TransferInv, TransfertCopy
<1>2. CASE (UNCHANGED faults \/ Fault) /\ Return(IF Left > Small THEN -4 ELSE -6)
             /\ UNCHANGED <<flash, prepared, off>>
  BY <1>1, <1>2, TransferCutShort DEF Fault, Return, Typed
<1>3. CASE /\ CopyAllowed(Dest, Small) /\ flash' = Program(Dest, ram) /\ prepared' = {}
           /\ off' = off + Small
           /\ IF Left > Small THEN pc' = "t_chunk" /\ UNCHANGED ret ELSE Return(0)
           /\ UNCHANGED faults
  <2>1. /\ call.dest \in Nat /\ call.len \in Nat /\ off \in Nat /\ off < call.len
        /\ Dest = call.dest + off /\ Left = call.len - off /\ Dest \in Nat /\ Small \in Nat \ {0}
    BY <1>1, Ends DEF IndInv, Typed, TransferInv, Dest, Left
  <2>2. Dest .. (Dest + Small - 1) \subseteq Bytes(s)
    <3>1. Dest \in Addresses /\ Dest + Small - 1 \in Addresses
      BY <1>3, <2>1, Ends DEF CopyAllowed, Addresses
    <3>2. SectorOf(Dest) = s /\ SectorOf(Dest + Small - 1) = s
      BY <1>1, <1>3 DEF CopyAllowed
    <3>3. QED
      BY <1>1, <3>1, <3>2, InItsSector, Between
  <2>3. call.dest .. (call.dest + off - 1) \subseteq Bytes(s)
    BY <1>1 DEF IndInv, TransferInv
  <2>4. call.dest .. (call.dest + off' - 1) \subseteq Bytes(s)
    BY <1>3, <2>1, <2>2, <2>3
  <2>5. /\ flash' = [a \in Addresses |->
                       IF a \in Dest .. (Dest + Small - 1)
                         THEN IF flash[a] = Blank THEN ram[a - Dest] ELSE Mixed
                         ELSE flash[a]]
    <3>1. DOMAIN ram = 0 .. (Small - 1)
      BY <1>1 DEF Typed
    <3>2. \A a \in Addresses : a - Dest \in DOMAIN ram <=> a \in Dest .. (Dest + Small - 1)
      BY <2>1, <3>1, Ends DEF Addresses
    <3>3. QED
      BY <1>1, <1>3, <3>2 DEF Program, Typed
  <2>6. \A a \in Dest .. (Dest + Small - 1) : flash[a] = Blank /\ a - Dest \in 0 .. (Small - 1)
    BY <1>1, <2>1, <2>2 DEF IndInv, TransferInv
  <2>7. flash' \in [Addresses -> Byte]
    BY <1>1, <2>5, <2>6 DEF Typed
  <2>8. \A a \in Addresses \ Bytes(s) : flash'[a] = before[a]
    BY <1>1, <2>2, <2>5 DEF IndInv, TransferInv
  <2>9. \A a \in call.dest .. (call.dest + call.len - 1) :
           a < call.dest + off' => flash'[a] = before[call.src + (a - call.dest)]
    <3>1. SUFFICES ASSUME NEW a \in call.dest .. (call.dest + call.len - 1), a < call.dest + off'
                   PROVE  flash'[a] = before[call.src + (a - call.dest)]
      OBVIOUS
    <3>2. /\ a \in Int /\ off' = off + Small /\ call.dest <= a /\ a < call.dest + call.len
          /\ a < call.dest + off + Small
      BY <1>3, <2>1, <3>1
    <3>3. a \in Bytes(s) /\ a \in Addresses
      <4>1. a \in call.dest .. (call.dest + off' - 1)
        BY <2>1, <3>2
      <4>2. QED
        BY <1>1, <2>4, <4>1
    <3>4. CASE a < Dest
      BY <1>1, <2>1, <2>5, <3>1, <3>3, <3>4 DEF IndInv, TransferInv
    <3>5. CASE ~(a < Dest)
      <4>1. a \in Dest .. (Dest + Small - 1) /\ a - Dest < call.len - off
            /\ call.src + off + (a - Dest) = call.src + (a - call.dest)
        <5>1. call.src \in Nat
          BY <1>1 DEF Typed
        <5>2. QED
          BY <2>1, <3>2, <3>5, <5>1
      <4>2. ram[a - Dest] = before[call.src + off + (a - Dest)]
        BY <1>1, <2>6, <4>1 DEF IndInv, TransferInv
      <4>3. QED
        BY <2>5, <2>6, <3>3, <4>1, <4>2
    <3>6. QED
      BY <3>4, <3>5
  <2>10. \A a \in Bytes(s) : a \notin call.dest .. (call.dest + off' - 1) => flash'[a] = Blank
    <3>1. SUFFICES ASSUME NEW a \in Bytes(s), a \notin call.dest .. (call.dest + off' - 1)
                   PROVE  flash'[a] = Blank
      OBVIOUS
    <3>2. a \in Addresses /\ a \in Int
      BY <1>1, Ends DEF Addresses
    <3>3. /\ a \notin call.dest .. (call.dest + off - 1)
          /\ a \notin Dest .. (Dest + Small - 1)
      BY <1>3, <2>1, <3>1, <3>2
    <3>4. QED
      BY <1>1, <2>5, <3>1, <3>2, <3>3 DEF IndInv, TransferInv
  <2>11. Typed'
    <3>1. /\ before' = before /\ ram' = ram /\ call' = call /\ job' = job /\ n' = n /\ faults' = faults
          /\ prepared' \subseteq prepared /\ off' = off + Small /\ ret' \in {ret, 0}
      BY <1>1, <1>3 DEF Return
    <3>2. off' \in 0 .. (call.len + Small) /\ ret' \in -6 .. 1
      BY <1>1, <2>1, <3>1, Ends DEF Typed
    <3>3. QED
      BY <1>1, <2>7, <3>1, <3>2 DEF Typed
  <2>12. Control' /\ WriteInv'
    BY <1>1, <1>3 DEF IndInv, Control, WriteInv, Transfers, Return
  <2>13. CASE Left > Small
    <3>1. off' < call.len /\ pc' = "t_chunk"
      BY <1>3, <2>1, <2>13
    <3>2. \A a \in Bytes(s) : flash'[a] = IF a \in call.dest .. (call.dest + off' - 1)
                                            THEN before[call.src + (a - call.dest)] ELSE Blank
      BY <2>1, <2>9, <2>10, <3>1, <1>3
    <3>3. TransferInv'
      BY <1>1, <2>4, <2>8, <3>1, <3>2 DEF IndInv, TransferInv, Transfers
    <3>4. QED
      BY <2>11, <2>12, <3>3 DEF IndInv
  <2>14. CASE ~(Left > Small)
    <3>1. pc' = "idle" /\ ret' = 0 /\ call.len <= off'
      BY <1>3, <2>1, <2>14 DEF Return
    <3>2. \A a \in Target : flash'[a] = Wanted(a)
      BY <1>1, <1>3, <2>1, <2>9, <3>1 DEF Target, Wanted, Transfers
    <3>3. TransferInv'
      BY <1>1, <2>8, <3>1, <3>2 DEF IndInv, TransferInv, Transfers, Target, Wanted
    <3>4. QED
      BY <2>11, <2>12, <3>3 DEF IndInv
  <2>15. QED
    BY <2>13, <2>14
<1>4. QED
  BY <1>2, <1>3 DEF TransfertCopy

-----------------------------------------------------------------------------
(***************************************************************************)
(* The reset, and the program                                              *)
(***************************************************************************)

\* A reset cuts any call short.
LEMMA ResetInd == IndInv /\ Reset => IndInv'
<1> SUFFICES ASSUME IndInv, Reset PROVE IndInv'
  OBVIOUS
<1>1. /\ pc' = "idle" /\ ret' = 1 /\ faults' \in Nat /\ faults' = faults + 1 /\ prepared' = {}
      /\ UNCHANGED <<flash, call, buf, spilled, off, part, job, n, before>>
  BY DEF IndInv, Typed, Reset, Fault, NoReturn
<1>2. ram' \in [0 .. (Small - 1) -> Byte]
  BY BoundAssumption DEF IndInv, Typed, Reset, Zero, Byte, Content
<1>3. CASE Transfers
  BY <1>1, <1>2, <1>3, TransferCutShort
<1>4. CASE ~Transfers
  BY <1>1, <1>2, <1>4, CutShort
<1>5. QED
  BY <1>3, <1>4

LEMMA CallWriteInd == IndInv /\ CallWrite => IndInv'
<1> SUFFICES ASSUME IndInv, CallWrite PROVE IndInv'
  OBVIOUS
<1>1. PICK api \in {"write_buffer", "write_to_sector"}, w \in Writes, b \in 0 .. (Word - 1) :
        Call(api, w[1], w[2], 0, b, IF api = "write_buffer" THEN "start" ELSE "piece")
  BY DEF CallWrite
<1>2. w[1] \in Nat /\ w[2] \in Nat /\ w[1] < FlashEnd /\ w[1] + w[2] <= FlashEnd
  BY BoundAssumption
<1>3. QED
  BY <1>1, <1>2, CallInd DEF Apis

LEMMA CallBufferToSectorInd == IndInv /\ CallBufferToSector => IndInv'
<1> SUFFICES ASSUME IndInv, CallBufferToSector PROVE IndInv'
  OBVIOUS
<1>1. PICK s \in Sectors :
        Call("write_buffer_to_sector", AddressOf(s), SizeOf(s), 0, 0, "sector")
  BY DEF CallBufferToSector
<1>2. /\ AddressOf(s) \in Nat /\ SizeOf(s) \in Nat \ {0} /\ SectorOf(AddressOf(s)) = s
      /\ AddressOf(s) + SizeOf(s) <= FlashEnd
  BY SectorBytes, Sizes
<1>3. AddressOf(s) < FlashEnd
  BY <1>2, Ends
<1>4. 0 \in 0 .. (Word - 1)
  BY SizeAssumption
<1>5. QED
  BY <1>1, <1>2, <1>3, <1>4, CallInd DEF Apis

LEMMA CallTransfertInd == IndInv /\ CallTransfert => IndInv'
<1> SUFFICES ASSUME IndInv, CallTransfert PROVE IndInv'
  OBVIOUS
<1>1. PICK dest \in {a \in NSmall * Small .. (FlashEnd - 1) : a % Small = 0},
           src \in {a \in 0 .. (NSmall * Small - 1) : a % Small = 0},
           len \in 1 .. Large :
        /\ src + len <= NSmall * Small
        /\ dest + len <= FlashEnd
        /\ Call("transfert_4ks_to_32k", dest, len, src, 0, "t_prepare")
  BY DEF CallTransfert
<1>2. /\ dest \in Nat /\ NSmall * Small <= dest /\ dest < FlashEnd
      /\ src \in Nat /\ len \in Nat /\ len > 0
  BY Sizes
<1>3. 0 \in 0 .. (Word - 1)
  BY SizeAssumption
<1>4. QED
  BY <1>1, <1>2, <1>3, CallInd DEF Apis

-----------------------------------------------------------------------------
(***************************************************************************)
(* The calls of the tests                                                  *)
(***************************************************************************)

\* There is room for two small sectors from the address of the tests on.
LEMMA TestRoom == Address \in Nat /\ Address + 2 * Small <= NSmall * Small
<1>1. TestSector \in 0 .. (NSmall - 1) /\ TestSector + 1 \in 0 .. (NSmall - 1) /\ TestSector < NSmall
  BY Sizes, SampleAssumption
<1>2. Address = Small * TestSector
  BY <1>1, Sizes, Times DEF Address, AddressOf
<1>3. /\ Small * TestSector \in Nat
      /\ Small * (TestSector + 1) = Small * TestSector + Small
      /\ Small * (TestSector + 1) + Small <= NSmall * Small
  BY <1>1, Sizes, Times, BlockIsInside
<1>4. QED
  BY <1>2, <1>3, Sizes

LEMMA LargeSectors == AddressOf(NSmall) = NSmall * Small /\ NSmall * Small + LargeSize <= FlashEnd
<1>1. NSmall \in Sectors /\ ~(NSmall < NSmall)
  BY Sizes, SampleAssumption DEF Sectors
<1>2. SizeOf(NSmall) = Large /\ AddressOf(NSmall) + SizeOf(NSmall) <= FlashEnd
  BY <1>1, SectorBytes DEF SizeOf
<1>3. AddressOf(NSmall) = NSmall * Small
  <2>1. (NSmall - NSmall) * Large = 0
    BY Sizes
  <2>2. QED
    BY <1>1, <2>1, Sizes DEF AddressOf
<1>4. QED
  BY <1>2, <1>3, Sizes, SampleAssumption

\* The pieces of the object follow one another.
LEMMA BufferedCalls ==
  /\ Len(Buffered) = ((ObjectSize - 1) \div Piece) + 1
  /\ \A i \in 1 .. Len(Buffered) : \E k, len \in Nat :
       /\ Buffered[i] = CallOf("write_to_sector", Address + k, len, 0)
       /\ k = Piece * (i - 1) /\ len <= Piece /\ k + len <= Small
<1> DEFINE m == (ObjectSize - 1) \div Piece
<1>1. Piece \in Nat \ {0} /\ ObjectSize \in Nat \ {0} /\ ObjectSize <= Small
  BY Sizes, SampleAssumption
<1>2. m \in Nat /\ Piece * m <= ObjectSize - 1
  BY <1>1, Division
<1>3. Buffered = [i \in 1 .. (m + 1) |->
                    CallOf("write_to_sector", Address + (i - 1) * Piece,
                      IF i * Piece < ObjectSize THEN Piece ELSE ObjectSize - (i - 1) * Piece, 0)]
  BY DEF Buffered
<1> HIDE DEF m
<1>4. Len(Buffered) = m + 1
  BY <1>2, <1>3
<1>5. ASSUME NEW i \in 1 .. (m + 1)
      PROVE  \E k, len \in Nat :
               /\ Buffered[i] = CallOf("write_to_sector", Address + k, len, 0)
               /\ k = Piece * (i - 1) /\ len <= Piece /\ k + len <= Small
  <2> DEFINE k == Piece * (i - 1)
             len == IF i * Piece < ObjectSize THEN Piece ELSE ObjectSize - k
  <2>1. (i - 1) * Piece = k /\ k \in Nat /\ k <= ObjectSize - 1
    <3>1. Piece * (i - 1) <= Piece * m /\ Piece * (i - 1) \in Int /\ Piece * m \in Int
      BY <1>1, <1>2, Times
    <3>2. Piece * (i - 1) >= Piece * 0
      BY <1>1, <1>2, Times
    <3>3. (i - 1) * Piece = Piece * (i - 1)
      BY <1>1, <1>2, Times
    <3>4. QED
      BY <1>1, <1>2, <3>1, <3>2, <3>3
  <2>2. i * Piece = k + Piece
    <3>1. i = (i - 1) + 1 /\ i - 1 \in Int /\ i \in Int
      BY <1>2
    <3>2. Piece * ((i - 1) + 1) = Piece * (i - 1) + Piece
      BY <1>1, <3>1, Times
    <3>3. i * Piece = Piece * i
      BY <1>1, <3>1, Times
    <3>4. QED
      BY <3>1, <3>2, <3>3
  <2>3. Buffered[i] = CallOf("write_to_sector", Address + k, len, 0)
    BY <1>3, <2>1
  <2> HIDE DEF k
  <2>4. len \in Nat /\ len <= Piece /\ k + len <= Small
    BY <1>1, <2>1, <2>2, Ends
  <2>5. QED
    BY <2>1, <2>3, <2>4 DEF k
<1>6. QED
  BY <1>4, <1>5 DEF m

LEMMA ListsOfCalls ==
  /\ DOMAIN CallsOf = {"writing", "sequence", "buffered", "large", "into32k"}
  /\ CallsOf["writing"] = Writing /\ CallsOf["sequence"] = Sequence
  /\ CallsOf["buffered"] = Buffered /\ CallsOf["large"] = LargeBuffer
  /\ CallsOf["into32k"] = Into32k
  /\ Len(Writing) = 1 /\ Writing[1] = CallOf("write_to_sector", Address, BufferSize, 0)
  /\ Len(Sequence) = 2 /\ Sequence[1] = CallOf("write_to_sector", Address, BufferSize, 0)
  /\ Sequence[2] = CallOf("write_to_sector", Address + BufferSize, BufferSize, 0)
  /\ Len(LargeBuffer) = 1 /\ LargeBuffer[1] = CallOf("write_buffer", Address, LargeSize, 0)
  /\ Len(Into32k) = 2 /\ Into32k[1] = LargeBuffer[1]
  /\ Into32k[2] = CallOf("transfert_4ks_to_32k", AddressOf(NSmall), LargeSize, Address)
<1>1. /\ DOMAIN CallsOf = {"writing", "sequence", "buffered", "large", "into32k"}
      /\ CallsOf["writing"] = Writing /\ CallsOf["sequence"] = Sequence
      /\ CallsOf["buffered"] = Buffered /\ CallsOf["large"] = LargeBuffer
      /\ CallsOf["into32k"] = Into32k
  BY DEF CallsOf
<1>2. Len(Writing) = 1 /\ Writing[1] = CallOf("write_to_sector", Address, BufferSize, 0)
  BY DEF Writing
<1>3. /\ Len(Sequence) = 2 /\ Sequence[1] = CallOf("write_to_sector", Address, BufferSize, 0)
      /\ Sequence[2] = CallOf("write_to_sector", Address + BufferSize, BufferSize, 0)
  <2>1. Address \in Nat /\ BufferSize \in Nat
    BY TestRoom, SampleAssumption
  <2>2. Address + (1 - 1) * BufferSize = Address /\ Address + (2 - 1) * BufferSize = Address + BufferSize
    BY <2>1
  <2>3. QED
    BY <2>2 DEF Sequence
<1>4. Len(LargeBuffer) = 1 /\ LargeBuffer[1] = CallOf("write_buffer", Address, LargeSize, 0)
  BY DEF LargeBuffer
<1>5. /\ Len(Into32k) = 2 /\ Into32k[1] = LargeBuffer[1]
      /\ Into32k[2] = CallOf("transfert_4ks_to_32k", AddressOf(NSmall), LargeSize, Address)
  BY DEF Into32k, LargeBuffer
<1>6. QED
  BY <1>1, <1>2, <1>3, <1>4, <1>5

\* Every call of a test is one a program may make; a transfer is the second call, and
\* takes what the first has written.
LEMMA TestCalls ==
  ASSUME NEW t \in DOMAIN CallsOf, NEW i \in 1 .. Len(CallsOf[t])
  PROVE  \E api \in DOMAIN FirstAccess, dest, len, src \in Nat :
           /\ CallsOf[t][i] = CallOf(api, dest, len, src)
           /\ \/ /\ api # "transfert_4ks_to_32k"
                 /\ dest < NSmall * Small /\ dest + len <= NSmall * Small
              \/ /\ api = "transfert_4ks_to_32k" /\ i = 2 /\ Len(CallsOf[t]) = 2
                 /\ dest = NSmall * Small /\ len = LargeSize /\ src = Address
                 /\ CallsOf[t][1] = CallOf("write_buffer", Address, LargeSize, 0)
<1>1. /\ BufferSize \in Nat /\ 2 * BufferSize <= Small /\ LargeSize \in Nat /\ LargeSize <= 2 * Small
      /\ NSmall * Small \in Nat /\ Small \in Nat \ {0}
      /\ Address \in Nat /\ Address + 2 * Small <= NSmall * Small
      /\ AddressOf(NSmall) = NSmall * Small
  BY Sizes, SampleAssumption, TestRoom, LargeSectors
<1>2. DOMAIN FirstAccess = {"write_buffer", "write_to_sector", "transfert_4ks_to_32k"}
  BY DEF FirstAccess
<1>3. /\ Address < NSmall * Small /\ Address + BufferSize <= NSmall * Small
      /\ Address + BufferSize \in Nat /\ Address + BufferSize < NSmall * Small
      /\ (Address + BufferSize) + BufferSize <= NSmall * Small
      /\ Address + LargeSize <= NSmall * Small
  BY <1>1
<1>4. CASE t = "writing"
  BY <1>1, <1>2, <1>3, <1>4, ListsOfCalls
<1>5. CASE t = "sequence"
  BY <1>1, <1>2, <1>3, <1>5, ListsOfCalls
<1>6. CASE t = "large"
  BY <1>1, <1>2, <1>3, <1>6, ListsOfCalls
<1>7. CASE t = "into32k"
  <2>1. CASE i = 1
    BY <1>1, <1>2, <1>3, <1>7, <2>1, ListsOfCalls
  <2>2. CASE i = 2
    BY <1>1, <1>2, <1>7, <2>2, ListsOfCalls
  <2>3. QED
    BY <1>7, <2>1, <2>2, ListsOfCalls
<1>8. CASE t = "buffered"
  <2>1. i \in 1 .. Len(Buffered) /\ CallsOf[t][i] = Buffered[i]
    BY <1>8, ListsOfCalls
  <2>2. PICK k \in Nat, len \in Nat :
          /\ Buffered[i] = CallOf("write_to_sector", Address + k, len, 0)
          /\ k = Piece * (i - 1) /\ len <= Piece /\ k + len <= Small
    BY <2>1, BufferedCalls
  <2>3. /\ Address + k \in Nat /\ Address + k < NSmall * Small
        /\ (Address + k) + len <= NSmall * Small
    BY <1>1, <2>2
  <2>4. QED
    BY <1>2, <2>1, <2>2, <2>3
<1>9. QED
  BY <1>4, <1>5, <1>6, <1>7, <1>8, ListsOfCalls

\* A test never writes where it wrote before.
LEMMA CallsAreApart ==
  ASSUME NEW t \in DOMAIN CallsOf, NEW i \in 1 .. Len(CallsOf[t]), NEW j \in 1 .. (i - 1)
  PROVE  CallsOf[t][j].dest + CallsOf[t][j].len <= CallsOf[t][i].dest
<1>1. /\ BufferSize \in Nat /\ Address \in Nat /\ LargeSize \in Nat /\ LargeSize <= 2 * Small
      /\ Address + LargeSize <= NSmall * Small /\ AddressOf(NSmall) = NSmall * Small
  BY Sizes, SampleAssumption, TestRoom, LargeSectors
<1>2. CASE t \in {"writing", "large"}
  BY <1>2, ListsOfCalls
<1>3. CASE t = "sequence"
  BY <1>1, <1>3, ListsOfCalls DEF CallOf
<1>4. CASE t = "into32k"
  BY <1>1, <1>4, ListsOfCalls DEF CallOf
<1>5. CASE t = "buffered"
  <2>1. /\ i \in 1 .. Len(Buffered) /\ j \in 1 .. Len(Buffered)
        /\ CallsOf[t][i] = Buffered[i] /\ CallsOf[t][j] = Buffered[j]
        /\ i \in Int /\ j \in Int /\ j <= i - 1
    BY <1>5, ListsOfCalls
  <2>2. PICK k \in Nat, len \in Nat :
          Buffered[i] = CallOf("write_to_sector", Address + k, len, 0) /\ k = Piece * (i - 1)
    BY <2>1, BufferedCalls
  <2>3. PICK kj \in Nat, lenj \in Nat :
          /\ Buffered[j] = CallOf("write_to_sector", Address + kj, lenj, 0)
          /\ kj = Piece * (j - 1) /\ lenj <= Piece
    BY <2>1, BufferedCalls
  <2>4. kj + lenj <= k
    <3> DEFINE rank == j - 1
    <3>1. Piece \in Nat /\ rank \in Int /\ rank + 1 = j /\ kj = Piece * rank
      BY <2>1, <2>3, SampleAssumption
    <3>2. Piece * j <= k
      BY <2>1, <2>2, <3>1, Times
    <3> HIDE DEF rank
    <3>3. Piece * (rank + 1) = Piece * rank + Piece
      BY <3>1, Times
    <3>4. Piece * j = kj + Piece
      BY <3>1, <3>3, Zenon
    <3>5. QED
      BY <2>2, <2>3, <3>1, <3>2, <3>4
  <2>5. CallsOf[t][i].dest = Address + k
    BY <2>1, <2>2 DEF CallOf
  <2>6. CallsOf[t][j].dest = Address + kj /\ CallsOf[t][j].len = lenj
    BY <2>1, <2>3 DEF CallOf
  <2>7. k \in Nat /\ kj \in Nat /\ lenj \in Nat
    OBVIOUS
  <2>8. QED
    BY <1>1, <2>4, <2>5, <2>6, <2>7
<1>6. QED
  BY <1>2, <1>3, <1>4, <1>5, ListsOfCalls

-----------------------------------------------------------------------------
(***************************************************************************)
(* The driver under any program                                            *)
(***************************************************************************)

LEMMA TestCallInd == IndInv /\ test \in DOMAIN CallsOf /\ done \in Nat /\ TestCall => IndInv'
<1> SUFFICES ASSUME IndInv, test \in DOMAIN CallsOf, done \in Nat, TestCall PROVE IndInv'
  OBVIOUS
<1> DEFINE c == CallsOf[test][done + 1]
<1>1. done + 1 \in 1 .. Len(CallsOf[test])
  <2>1. Len(CallsOf[test]) \in Nat
    BY ListsOfCalls, BufferedCalls, Division, SampleAssumption
  <2>2. QED
    BY <2>1 DEF TestCall
<1>2. PICK api \in DOMAIN FirstAccess, dest \in Nat, len \in Nat, src \in Nat :
        /\ c = CallOf(api, dest, len, src)
        /\ \/ api # "transfert_4ks_to_32k" /\ dest < NSmall * Small /\ dest + len <= NSmall * Small
           \/ /\ api = "transfert_4ks_to_32k" /\ dest = NSmall * Small
              /\ len = LargeSize /\ src = Address
  BY <1>1, TestCalls
<1>3. PICK b \in 0 .. (Word - 1) : Call(api, dest, len, src, b, FirstAccess[api])
  BY <1>2 DEF TestCall, CallOf
<1>4. /\ LargeSize \in Nat \ {0} /\ LargeSize <= 2 * Small /\ NSmall * Small \in Nat /\ FlashEnd \in Nat
      /\ NSmall * Small <= FlashEnd /\ NSmall * Small + LargeSize <= FlashEnd
      /\ Address + LargeSize <= NSmall * Small
  BY Sizes, SampleAssumption, TestRoom, LargeSectors
<1>5. dest < FlashEnd /\ dest + len <= FlashEnd
  BY <1>2, <1>4
<1>6. \/ api = "write_buffer" /\ FirstAccess[api] = "start"
      \/ api = "write_to_sector" /\ FirstAccess[api] = "piece"
      \/ api = "transfert_4ks_to_32k" /\ FirstAccess[api] = "t_prepare"
  BY DEF FirstAccess
<1>7. api = "transfert_4ks_to_32k" =>
        len > 0 /\ src + len <= NSmall * Small /\ NSmall * Small <= dest
  BY <1>2, <1>4
<1>8. api \in Apis
  BY <1>6 DEF Apis
<1>9. QED
  BY <1>3, <1>5, <1>6, <1>7, <1>8, CallInd

LEMMA NextInd ==
  IndInv /\ Edges /\ test \in DOMAIN CallsOf \union {"any"} /\ done \in Nat
    /\ [NextSample]_<<vars, sampleVars>> => IndInv'
<1> SUFFICES ASSUME IndInv, Edges, test \in DOMAIN CallsOf \union {"any"}, done \in Nat,
                    [NextSample]_<<vars, sampleVars>>
             PROVE  IndInv'
  OBVIOUS
<1>1. CASE AnyProgram
  BY <1>1, CallWriteInd, CallBufferToSectorInd, CallTransfertInd DEF AnyProgram
<1>2. CASE TestCall
  BY <1>2, TestCallInd DEF TestCall
<1>3. CASE Driver
  <2>1. CASE WriteToSectorCall \/ FirstPart \/ FullSector \/ Remaining
    BY <2>1, PiecesInd
  <2>2. CASE NothingRemains \/ BufferToSectorCall
    BY <2>2, NothingRemainsInd, BufferToSectorCallInd
  <2>3. CASE Prepare \/ Erase \/ Copy
    BY <2>3, PrepareInd, EraseInd, CopyInd
  <2>4. CASE TransfertPrepare \/ TransfertErase \/ TransfertChunk \/ TransfertCopy
    BY <2>4, TransfertPrepareInd, TransfertEraseInd, TransfertChunkInd, TransfertCopyInd
  <2>5. QED
    BY <1>3, <2>1, <2>2, <2>3, <2>4 DEF Driver, Rom
<1>4. CASE Reset
  BY <1>4, ResetInd
<1>5. CASE UNCHANGED <<vars, sampleVars>>
  <2>1. UNCHANGED vars
    BY <1>5
  <2>2. Typed' /\ Control' /\ TransferInv'
    BY <2>1 DEF vars, IndInv, Typed, Control, TransferInv, Transfers, Target, Wanted
  <2>3. Ready <=> Ready'
    BY <2>1 DEF vars, Ready, Intended
  <2>4. WriteInv'
    BY <2>1, <2>3 DEF vars, IndInv, WriteInv, Intended, Transfers
  <2>5. QED
    BY <2>2, <2>4 DEF IndInv
<1>6. QED
  BY <1>1, <1>2, <1>3, <1>4, <1>5 DEF NextSample, DriverStep, ResetSample

\* A call begins at its first byte, and the driver works on its own variables.
LEMMA CallStep ==
  ASSUME AnyProgram \/ TestCall, test \in DOMAIN CallsOf \union {"any"}, done \in Nat
  PROVE  off' = 0 /\ spilled' = 0 /\ pc' \in {"start", "piece", "sector", "t_prepare"}
<1>1. CASE AnyProgram
  BY <1>1 DEF AnyProgram, CallWrite, CallBufferToSector, CallTransfert, Call
<1>2. CASE TestCall
  <2>1. Len(CallsOf[test]) \in Nat /\ test \in DOMAIN CallsOf
    BY <1>2, ListsOfCalls, BufferedCalls, Division, SampleAssumption DEF TestCall
  <2>2. done + 1 \in 1 .. Len(CallsOf[test])
    BY <1>2, <2>1 DEF TestCall
  <2>3. PICK api \in DOMAIN FirstAccess, dest \in Nat, len \in Nat, src \in Nat :
          CallsOf[test][done + 1] = CallOf(api, dest, len, src)
    BY <2>1, <2>2, TestCalls
  <2>4. PICK b \in 0 .. (Word - 1) : Call(api, dest, len, src, b, FirstAccess[api])
    BY <1>2, <2>3 DEF TestCall, CallOf
  <2>5. QED
    BY <2>4 DEF Call, FirstAccess
<1>3. QED
  BY <1>1, <1>2

LEMMA EdgesNext ==
  IndInv /\ Edges /\ test \in DOMAIN CallsOf \union {"any"} /\ done \in Nat
    /\ [NextSample]_<<vars, sampleVars>> => Edges'
<1> SUFFICES ASSUME IndInv, Edges, test \in DOMAIN CallsOf \union {"any"}, done \in Nat,
                    [NextSample]_<<vars, sampleVars>>
             PROVE  Edges'
  OBVIOUS
<1>1. CASE AnyProgram \/ TestCall
  BY <1>1, CallStep DEF Edges, Burning
<1>2. CASE WriteToSectorCall \/ FirstPart \/ FullSector \/ Remaining
  <2>1. PICK len \in Nat : PieceOf(len) /\ WriteToSector(Dest, len)
    BY <1>2, PieceStep
  <2>2. pc \in {"start", "next", "piece"}
    BY <1>2, PieceStep
  <2>3. CASE SectorOf(Dest) # SectorOf(Dest + len - 1) \/ SectorOf(Dest) >= NSmall
    BY <2>1, <2>3 DEF WriteToSector, Return, Edges, Burning
  <2>4. CASE ~(SectorOf(Dest) # SectorOf(Dest + len - 1) \/ SectorOf(Dest) >= NSmall)
    <3>1. pc' = "prepare1" /\ part' = len /\ off' = off /\ call' = call
      BY <2>1, <2>4 DEF WriteToSector
    <3>2. off + len < call.len => Edge(Dest + len)
      BY <2>1, <2>2, <2>4, Accepted
    <3>3. Dest + len = call.dest + (off + len)
      BY DEF IndInv, Typed, Dest
    <3>4. QED
      BY <3>1, <3>2, <3>3 DEF Edges, Burning, Edge
  <2>5. QED
    BY <2>3, <2>4
<1>3. CASE NothingRemains \/ BufferToSectorCall
  BY <1>3 DEF NothingRemains, BufferToSectorCall, Return, Edges, Burning, IndInv, Control
<1>4. CASE Prepare \/ Erase
  BY <1>4 DEF Prepare, Erase, Return, Edges, Burning, Edge
<1>5. CASE Copy
  BY <1>5 DEF Copy, PieceDone, Return, Edges, Burning, Edge
<1>6. CASE TransfertPrepare \/ TransfertErase \/ TransfertChunk \/ TransfertCopy \/ Reset
  BY <1>6 DEF TransfertPrepare, TransfertErase, TransfertChunk, TransfertCopy, Reset, Return,
              Edges, Burning
<1>7. CASE UNCHANGED <<vars, sampleVars>>
  BY <1>7 DEF vars, Edges, Burning, Edge
<1>8. QED
  BY <1>1, <1>2, <1>3, <1>4, <1>5, <1>6, <1>7
     DEF NextSample, DriverStep, ResetSample, Driver, Rom

\* The image of a piece: memory is overwritten behind the buffer as far as the last piece
\* says, and not at all by the others.
LEMMA PieceSpills ==
  ASSUME IndInv, Edges, pc \in {"start", "next", "piece"}, NEW len \in Nat, PieceOf(len),
         SectorOf(Dest) = SectorOf(Dest + len - 1), ~(SectorOf(Dest) >= NSmall)
  PROVE  PastEnd(SectorOf(Dest), Dest + Moves(Dest, buf + off, len)) =
           IF off + len = call.len THEN Spill(call, buf) ELSE 0
<1> DEFINE s == SectorOf(Dest)
<1>1. Short(Dest, buf + off, len) <=> (off + len = call.len /\ EndsShort(call, buf))
  BY Accepted
<1>2. CASE Short(Dest, buf + off, len)
  <2>1. len > 0
    BY <1>2, SizeAssumption DEF Short
  <2>2. End(call) = Dest + len /\ SectorOf(End(call) - 1) = s
    BY <1>1, <1>2, <2>1, Accepted
  <2>3. Dest + Moves(Dest, buf + off, len) = End(call) + Overrun
    BY <1>2, <2>2, WriteState, SizeAssumption DEF Moves
  <2>4. QED
    BY <1>1, <1>2, <2>2, <2>3 DEF Spill
<1>3. CASE ~Short(Dest, buf + off, len)
  <2>1. Moves(Dest, buf + off, len) = len
    BY <1>3 DEF Moves
  <2>2. /\ s \in Sectors /\ Dest \in Bytes(s) /\ Dest .. (Dest + len - 1) \subseteq Bytes(s)
        /\ Dest \in Nat
    BY AcceptedInside, WriteState
  <2>3. AddressOf(s) \in Nat /\ SizeOf(s) \in Nat \ {0}
    BY <2>2, SectorBytes, Sizes
  <2>4. Dest + len <= AddressOf(s) + SizeOf(s)
    <3>1. len > 0 => Dest + len - 1 \in Bytes(s)
      BY <2>2
    <3>2. QED
      BY <2>2, <2>3, <3>1 DEF Bytes
  <2>5. QED
    BY <1>1, <1>3, <2>1, <2>2, <2>3, <2>4 DEF PastEnd, Spill
<1>4. QED
  BY <1>2, <1>3

LEMMA SpillsNext ==
  IndInv /\ Edges /\ Spills /\ test \in DOMAIN CallsOf \union {"any"} /\ done \in Nat
    /\ [NextSample]_<<vars, sampleVars>> => Spills'
<1> SUFFICES ASSUME IndInv, Edges, Spills, test \in DOMAIN CallsOf \union {"any"}, done \in Nat,
                    [NextSample]_<<vars, sampleVars>>
             PROVE  Spills'
  OBVIOUS
<1>1. faults \in Nat /\ faults + 1 # 0 /\ off \in Nat /\ call.len \in Nat
  BY DEF IndInv, Typed
<1>2. CASE AnyProgram \/ TestCall
  BY <1>2, CallStep DEF Spills, Burning
<1>3. CASE WriteToSectorCall \/ FirstPart \/ FullSector \/ Remaining
  <2>1. PICK len \in Nat : PieceOf(len) /\ WriteToSector(Dest, len)
    BY <1>3, PieceStep
  <2>2. pc \in {"start", "next", "piece"}
    BY <1>3, PieceStep
  <2>3. CASE SectorOf(Dest) # SectorOf(Dest + len - 1) \/ SectorOf(Dest) >= NSmall
    <3>1. pc' = "idle" /\ ret' = -1 /\ UNCHANGED <<call, buf, spilled>>
      BY <2>1, <2>3 DEF WriteToSector, Return
    <3>2. call.api = "write_to_sector" => spilled = 0
      BY <2>2, WriteState DEF Spills
    <3>3. QED
      BY <3>1, <3>2 DEF Spills, Burning
  <2>4. CASE ~(SectorOf(Dest) # SectorOf(Dest + len - 1) \/ SectorOf(Dest) >= NSmall)
    <3>1. /\ pc' = "prepare1" /\ part' = len /\ UNCHANGED <<call, buf, off>>
          /\ spilled' = PastEnd(SectorOf(Dest), Dest + Moves(Dest, buf + off, len))
      BY <2>1, <2>4 DEF WriteToSector
    <3>2. spilled' = IF off + len = call.len THEN Spill(call, buf) ELSE 0
      BY <2>1, <2>2, <2>4, <3>1, PieceSpills
    <3>3. QED
      BY <3>1, <3>2 DEF Spills, Burning
  <2>5. QED
    BY <2>3, <2>4
<1>4. CASE NothingRemains
  <2>1. /\ pc \in {"start", "next"} /\ off = call.len /\ pc' = "idle" /\ ret' = 0
        /\ UNCHANGED <<call, buf, spilled>>
    BY <1>1, <1>4 DEF NothingRemains, Return, Left
  <2>2. spilled = Spill(call, buf)
    <3>1. CASE pc = "start"
      <4>1. call.len = 0 /\ spilled = 0
        BY <2>1, <3>1 DEF Edges, Spills
      <4>2. QED
        BY <4>1, BehindNothing
    <3>2. CASE pc = "next"
      BY <2>1, <3>2 DEF Spills
    <3>3. QED
      BY <2>1, <3>1, <3>2
  <2>3. QED
    BY <2>1, <2>2 DEF Spills, Burning
<1>5. CASE BufferToSectorCall
  <2>1. /\ call.api = "write_buffer_to_sector" /\ pc' = "prepare1" /\ UNCHANGED <<call, buf, spilled>>
    BY <1>5 DEF BufferToSectorCall, IndInv, Control
  <2>2. spilled = 0 /\ Spill(call, buf) = 0
    BY <2>1, BehindNothing DEF Spills
  <2>3. QED
    BY <2>1, <2>2 DEF Spills, Burning
<1>6. CASE Prepare \/ Erase
  BY <1>1, <1>6 DEF Prepare, Erase, Fault, Return, Spills, Burning
<1>7. CASE Copy
  <2>1. /\ pc = "copy" /\ UNCHANGED <<call, buf, spilled>>
        /\ call.api # "write_buffer" => off + part = call.len
    <3>1. pc = "copy" /\ ~Transfers /\ UNCHANGED <<call, buf, spilled>>
      BY <1>7 DEF Copy, IndInv, Control
    <3>2. Ready
      BY <3>1 DEF IndInv, WriteInv
    <3>3. QED
      BY <3>1, <3>2 DEF Ready
  <2>2. off + part = call.len => spilled = Spill(call, buf)
    BY <2>1 DEF Spills, Burning
  <2>3. CASE off' = off + part /\ PieceDone
    BY <2>1, <2>2, <2>3 DEF PieceDone, Return, Spills, Burning
  <2>4. CASE pc' = "idle" /\ ret' = -1 /\ (faults' = faults + 1 \/ call.api # "write_to_sector")
    BY <1>1, <2>1, <2>4 DEF Spills, Burning
  <2>5. QED
    BY <1>7, <2>1, <2>3, <2>4, SmallCopies DEF Copy, Fault, Return
<1>8. CASE TransfertPrepare \/ TransfertErase \/ TransfertChunk \/ TransfertCopy
  <2>1. Transfers /\ UNCHANGED <<call, buf, spilled>>
    BY <1>8 DEF TransfertPrepare, TransfertErase, TransfertChunk, TransfertCopy, IndInv, Control
  <2>2. spilled = 0 /\ Spill(call, buf) = 0
    BY <2>1, BehindNothing DEF Spills, Transfers
  <2>3. QED
    BY <2>1, <2>2 DEF Spills
<1>9. CASE Reset
  BY <1>1, <1>9 DEF Reset, Fault, NoReturn, Spills, Burning
<1>10. CASE UNCHANGED <<vars, sampleVars>>
  BY <1>10 DEF vars, Spills, Burning
<1>11. QED
  BY <1>2, <1>3, <1>4, <1>5, <1>6, <1>7, <1>8, <1>9, <1>10
     DEF NextSample, DriverStep, ResetSample, Driver, Rom

\* The answers of the driver are true.
LEMMA Answers == IndInv /\ Spills => AnswerIsTrue
<1> SUFFICES ASSUME IndInv, Spills PROVE AnswerIsTrue
  OBVIOUS
<1>1. /\ Typed /\ DOMAIN flash = Addresses /\ Target \subseteq Addresses
      /\ call.dest \in Nat /\ call.len \in Nat
  BY Ends DEF IndInv, Typed, Target, Addresses
<1>2. ASSUME pc = "idle", ret = 0
      PROVE  /\ \A a \in Target : flash[a] = Wanted(a)
             /\ Transfers => \A a \in Damaged : SectorOf(a) = SectorOf(call.dest)
             /\ ~Transfers => /\ Damaged \subseteq Behind(call, buf)
                             /\ \A a \in Behind(call, buf) : flash[a] = <<n, a - call.dest>>
  <2>1. CASE ~Transfers
    <3>1. \A a \in Addresses : flash[a] = Intended(a, call.len)
      BY <1>1, <1>2, <2>1 DEF IndInv, WriteInv
    <3>2. ASSUME NEW a \in Target
          PROVE  flash[a] = Wanted(a)
      <4>1. a \in Addresses /\ a \in call.dest .. (call.dest + call.len - 1)
        BY <1>1 DEF Target
      <4>2. QED
        BY <2>1, <3>1, <4>1 DEF Intended, Wanted, Transfers
    <3>3. ASSUME NEW a \in Damaged
          PROVE  a \in Behind(call, buf)
      <4>1. a \in Addresses /\ a \notin call.dest .. (call.dest + call.len - 1) /\ flash[a] # before[a]
        BY <1>1 DEF Damaged, Target
      <4>2. QED
        BY <3>1, <4>1 DEF Intended
    <3>4. ASSUME NEW a \in Behind(call, buf)
          PROVE  flash[a] = <<n, a - call.dest>>
      <4>1. a \in Addresses
        BY <1>1, BehindInside
      <4>2. QED
        BY <3>1, <4>1 DEF Intended
    <3>5. QED
      BY <2>1, <3>2, <3>3, <3>4
  <2>2. CASE Transfers
    <3>1. \A a \in Target : flash[a] = Wanted(a)
      BY <1>2, <2>2 DEF IndInv, TransferInv
    <3>2. \A a \in Damaged : a \in Bytes(SectorOf(call.dest))
      BY <1>1, <2>2 DEF IndInv, TransferInv, Damaged
    <3>3. QED
      BY <2>2, <3>1, <3>2, TransferSector, OneSector
  <2>3. QED
    BY <2>1, <2>2
<1>3. SuccessIsWritten
  BY <1>2 DEF SuccessIsWritten, Transfers, Spills
<1>4. RefusalChangesNothing
  <2>1. SUFFICES ASSUME pc = "idle", call.api = "write_to_sector", ret = -1, faults = 0
                 PROVE  flash = before
    BY DEF RefusalChangesNothing, Spills
  <2>2. \A a \in Addresses : flash[a] = before[a]
    BY <2>1 DEF IndInv, WriteInv, Transfers
  <2>3. QED
    BY <1>1, <2>2 DEF Typed
<1>5. QED
  BY <1>3, <1>4 DEF AnswerIsTrue

\* What is lost is one erased sector.
LEMMA Losses == IndInv /\ Spills => LossIsBounded
<1> SUFFICES ASSUME IndInv, Spills PROVE LossIsBounded
  OBVIOUS
<1>1. /\ Typed /\ DOMAIN flash = Addresses /\ Target \subseteq Addresses
      /\ call.dest \in Nat /\ call.len \in Nat /\ off \in Nat
      /\ job.sector \in Sectors /\ Bytes(job.sector) \subseteq Addresses
  BY SectorBytes, Ends, SMTT(30) DEF IndInv, Typed, Target, Addresses
<1>2. TypeOK
  <2>1. spilled \in 0 .. Overrun
    BY <1>1, BehindInside, SizeAssumption DEF Spills
  <2>2. QED
    BY <1>1, <2>1 DEF TypeOK, Typed, Addresses, Byte
<1>3. NeverProgrammedTwice
  BY <1>1, BoundAssumption DEF NeverProgrammedTwice, Typed, Byte
<1>4. ASSUME ~Transfers, NEW a \in Addresses, flash[a] # Intended(a, off)
      PROVE  flash[a] = Blank /\ SectorOf(a) = job.sector
  <2>1. a \in Bytes(job.sector) /\ flash[a] = Blank
    BY <1>1, <1>4 DEF IndInv, WriteInv
  <2>2. QED
    BY <1>1, <2>1, OneSector
<1>5. ASSUME ~Transfers, NEW a \in Addresses
      PROVE  /\ a \notin Target \union Behind(call, buf) => Intended(a, off) = before[a]
             /\ a \in Target => Intended(a, off) \in {before[a], Wanted(a)}
             /\ (a \in Behind(call, buf) /\ off # call.len) => Intended(a, off) = before[a]
             /\ a \in Behind(call, buf) => Intended(a, call.len) = <<n, a - call.dest>>
  <2>1. off <= call.len
    BY <1>5 DEF IndInv, WriteInv
  <2>2. a \in Int /\ (a \in call.dest .. (call.dest + off - 1) => a \in Target)
    BY <1>1, <2>1, Ends DEF Target, Addresses
  <2>3. a \in Behind(call, buf) => a \notin Target
    BY <1>1, <2>2, BehindInside DEF Target
  <2>4. QED
    BY <1>5, <2>2, <2>3 DEF Intended, Wanted, Transfers
<1>6. LossIsOneSector
  <2>1. SUFFICES ASSUME ~Transfers
                 PROVE  \E s \in Sectors : \A a \in Damaged :
                          /\ SectorOf(a) = s
                          /\ flash[a] = Blank \/ (a \in Behind(call, buf) /\ flash[a] = <<n, a - call.dest>>)
    BY DEF LossIsOneSector, Transfers, Spills
  <2>2. \A a \in Damaged : a \in Addresses /\ a \notin Target /\ flash[a] # before[a]
    BY <1>1 DEF Damaged
  <2>3. CASE off = call.len /\ call.len > 0
    <3>1. \A a \in Addresses : flash[a] = Intended(a, call.len)
      BY <2>1, <2>3 DEF IndInv, WriteInv
    <3>2. \A a \in Damaged : a \in Behind(call, buf) /\ flash[a] = <<n, a - call.dest>>
      BY <1>5, <2>1, <2>2, <2>3, <3>1
    <3>3. \A a \in Behind(call, buf) : SectorOf(a) = SectorOf(End(call) - 1) /\ a \in Addresses
      BY <1>1, BehindInside
    <3>4. \A a \in Damaged : SectorOf(a) = SectorOf(End(call) - 1) /\ SectorOf(a) \in Sectors
      BY <3>2, <3>3, InItsSector
    <3>5. QED
      BY <1>1, <3>2, <3>4
  <2>4. CASE ~(off = call.len /\ call.len > 0)
    <3>1. ASSUME NEW a \in Damaged
          PROVE  Intended(a, off) = before[a]
      <4>1. off = call.len => Behind(call, buf) = {}
        BY <1>1, <2>4, BehindNothing
      <4>2. QED
        BY <1>5, <2>1, <2>2, <4>1
    <3>2. \A a \in Damaged : flash[a] = Blank /\ SectorOf(a) = job.sector
      BY <1>4, <2>1, <2>2, <3>1
    <3>3. QED
      BY <1>1, <3>2
  <2>5. QED
    BY <2>3, <2>4
<1>7. NoGarbage
  <2>1. CASE ~Transfers
    BY <1>1, <1>4, <1>5, <2>1 DEF NoGarbage
  <2>2. CASE Transfers
    BY <1>1, <2>2, TransferTarget DEF NoGarbage
  <2>3. QED
    BY <2>1, <2>2
<1>8. QED
  BY <1>2, <1>3, <1>6, <1>7 DEF LossIsBounded

-----------------------------------------------------------------------------
(***************************************************************************)
(* The tests read back what they wrote                                     *)
(***************************************************************************)

\* When a call has returned 0, the flash holds what it and the earlier ones wrote.
LEMMA HeldNow ==
  ASSUME IndInv, Spills, SampleInv, test # "any", done > 0, pc = "idle", ret = 0
  PROVE  Held(flash, done)
<1>1. /\ test \in DOMAIN CallsOf /\ done \in Nat /\ n \in Nat /\ done <= n /\ n > 0
      /\ done \in 1 .. Len(CallsOf[test]) /\ call = CallsOf[test][done]
      /\ Held(before, done - 1)
  BY BoundAssumption DEF IndInv, Typed, SampleInv
<1>2. /\ \A a \in Target : flash[a] = Wanted(a)
      /\ Transfers => \A a \in Damaged : SectorOf(a) = SectorOf(call.dest)
      /\ ~Transfers => Damaged \subseteq Behind(call, buf)
      /\ DOMAIN flash = Addresses
  <2>1. DOMAIN flash = Addresses
    BY DEF IndInv, Typed
  <2>2. QED
    BY <1>1, <2>1, Answers DEF AnswerIsTrue, SuccessIsWritten, Transfers
<1>3. PICK api \in DOMAIN FirstAccess, dest \in Nat, len \in Nat, src \in Nat :
        /\ CallsOf[test][done] = CallOf(api, dest, len, src)
        /\ \/ api # "transfert_4ks_to_32k"
           \/ /\ api = "transfert_4ks_to_32k" /\ done = 2
              /\ dest = NSmall * Small /\ len = LargeSize /\ src = Address
              /\ CallsOf[test][1] = CallOf("write_buffer", Address, LargeSize, 0)
  <2>1. \E api \in DOMAIN FirstAccess, dest, len, src \in Nat :
          /\ CallsOf[test][done] = CallOf(api, dest, len, src)
          /\ \/ /\ api # "transfert_4ks_to_32k"
                /\ dest < NSmall * Small /\ dest + len <= NSmall * Small
             \/ /\ api = "transfert_4ks_to_32k" /\ done = 2 /\ Len(CallsOf[test]) = 2
                /\ dest = NSmall * Small /\ len = LargeSize /\ src = Address
                /\ CallsOf[test][1] = CallOf("write_buffer", Address, LargeSize, 0)
    BY <1>1, TestCalls, Zenon
  <2>2. QED
    BY <2>1, Zenon
<1>4. /\ call.api = api /\ call.dest = dest /\ call.len = len /\ call.src = src
      /\ (Transfers <=> api = "transfert_4ks_to_32k")
  BY <1>1, <1>3 DEF CallOf, Transfers
<1>5. ASSUME NEW i \in 1 .. (done - 1), NEW b \in 0 .. (CallsOf[test][i].len - 1)
      PROVE  flash[CallsOf[test][i].dest + b] = before[CallsOf[test][i].dest + b]
  <2>1. i \in 1 .. Len(CallsOf[test])
    BY <1>1
  <2>2. PICK apii \in DOMAIN FirstAccess, di \in Nat, li \in Nat, si \in Nat :
          /\ CallsOf[test][i] = CallOf(apii, di, li, si)
          /\ \/ di + li <= NSmall * Small
             \/ di = NSmall * Small /\ li = LargeSize
    BY <1>1, <2>1, TestCalls
  <2>3. CallsOf[test][i].dest = di /\ CallsOf[test][i].len = li
    BY <2>2 DEF CallOf
  <2>4. di + b \in Addresses
    <3>1. di + li <= FlashEnd
      BY <2>2, Sizes, SampleAssumption, LargeSectors
    <3>2. QED
      BY <2>3, <3>1, Ends DEF Addresses
  <2>5. di + b < call.dest
    <3>1. di + li <= call.dest
      BY <1>1, <2>3, CallsAreApart
    <3>2. QED
      BY <1>4, <2>3, <3>1
  <2>6. di + b \notin Target
    BY <1>4, <2>3, <2>5 DEF Target
  <2>7. CASE ~Transfers
    <3>1. call.len \in Nat /\ \A a \in Behind(call, buf) : a \in Addresses /\ a >= call.dest + call.len
      BY <1>3, <1>4, BehindInside DEF IndInv
    <3>2. di + b \notin Behind(call, buf)
      BY <1>3, <1>4, <2>4, <2>5, <3>1, Ends DEF Addresses
    <3>3. QED
      BY <1>2, <2>3, <2>4, <2>6, <2>7, <3>2 DEF Damaged
  <2>8. CASE Transfers
    <3>1. i = 1 /\ di = Address /\ li = LargeSize
      BY <1>3, <1>4, <2>3, <2>8 DEF CallOf
    <3>2. call.dest \in Addresses /\ ~(call.dest < NSmall * Small)
      <4>1. call.dest \in Addresses
        BY <2>8, TransferSector
      <4>2. call.dest = NSmall * Small
        BY <1>3, <1>4, <2>8
      <4>3. QED
        BY <4>1, <4>2, Sizes
    <3>3. di + b < NSmall * Small
      BY <1>3, <1>4, <2>5, <2>8
    <3>4. SectorOf(di + b) # SectorOf(call.dest)
      BY <2>4, <3>2, <3>3, SmallAddress
    <3>5. QED
      BY <1>2, <2>3, <2>4, <2>6, <2>8, <3>4 DEF Damaged
  <2>9. QED
    BY <2>7, <2>8
<1>6. ASSUME NEW b \in 0 .. (call.len - 1)
      PROVE  flash[call.dest + b] = <<IF Transfers THEN (n - done) + 1 ELSE n, b>>
  <2>1. /\ call.dest + b \in Target /\ (call.dest + b) - call.dest = b
        /\ flash[call.dest + b] = Wanted(call.dest + b)
    BY <1>2, <1>3, <1>4 DEF Target
  <2>2. CASE ~Transfers
    BY <2>1, <2>2 DEF Wanted, Transfers
  <2>3. CASE Transfers
    <3>1. Wanted(call.dest + b) = before[Address + b]
      BY <1>3, <1>4, <2>1, <2>3 DEF Wanted, Transfers
    <3>2. /\ 1 \in 1 .. (done - 1) /\ b \in 0 .. (CallsOf[test][1].len - 1)
          /\ CallsOf[test][1].dest = Address /\ CallsOf[test][1].api = "write_buffer"
      BY <1>3, <1>4, <2>3 DEF CallOf
    <3>3. before[Address + b] = <<(n - done) + 1, b>>
      BY <1>1, <3>2 DEF Held
    <3>4. QED
      BY <2>1, <2>3, <3>1, <3>3
  <2>4. QED
    BY <2>2, <2>3
<1>7. SUFFICES ASSUME NEW i \in 1 .. done, NEW b \in 0 .. (CallsOf[test][i].len - 1)
               PROVE  flash[CallsOf[test][i].dest + b] =
                        <<IF CallsOf[test][i].api = "transfert_4ks_to_32k"
                            THEN (n - done) + 1 ELSE (n - done) + i, b>>
  BY DEF Held
<1>8. CASE i = done
  <2>1. (n - done) + done = n
    BY <1>1
  <2>2. QED
    BY <1>1, <1>6, <1>8, <2>1 DEF Transfers
<1>9. CASE i \in 1 .. (done - 1)
  BY <1>1, <1>5, <1>9 DEF Held
<1>10. QED
  BY <1>1, <1>8, <1>9

LEMMA SampleInit == InitSample => SampleInv
BY DEF InitSample, Init, SampleInv

LEMMA SampleNext ==
  IndInv /\ Spills /\ SampleInv /\ [NextSample]_<<vars, sampleVars>> => SampleInv'
<1> SUFFICES ASSUME IndInv, Spills, SampleInv, [NextSample]_<<vars, sampleVars>>
             PROVE  SampleInv'
  OBVIOUS
<1>1. n \in Nat /\ done \in Nat /\ done <= n /\ test \in DOMAIN CallsOf \union {"any"}
  BY BoundAssumption DEF IndInv, Typed, SampleInv
<1>2. CASE AnyProgram
  <2>1. n' = n + 1 /\ test' = test /\ test = "any" /\ done' = done
    BY <1>2 DEF AnyProgram, CallWrite, CallBufferToSector, CallTransfert, Call, sampleVars
  <2>2. QED
    BY <1>1, <2>1 DEF SampleInv
<1>3. CASE TestCall
  <2> DEFINE c == CallsOf[test][done + 1]
  <2>1. /\ test # "any" /\ done < Len(CallsOf[test]) /\ (done > 0 => ret = 0)
        /\ pc = "idle" /\ n' = n + 1 /\ done' = done + 1 /\ test' = test /\ before' = flash
        /\ call' = [api |-> c.api, dest |-> c.dest, len |-> c.len, src |-> c.src]
    BY <1>3 DEF TestCall, Call
  <2>2. Len(CallsOf[test]) \in Nat
    BY <1>1, <2>1, ListsOfCalls, BufferedCalls, Division, SampleAssumption
  <2>3. done + 1 \in 1 .. Len(CallsOf[test])
    BY <1>1, <2>1, <2>2
  <2>4. call' = c
    <3>1. PICK api \in DOMAIN FirstAccess, dest \in Nat, len \in Nat, src \in Nat :
            c = CallOf(api, dest, len, src)
      BY <1>1, <2>1, <2>3, TestCalls
    <3>2. QED
      BY <2>1, <3>1 DEF CallOf
  <2>5. Held(flash, done)
    <3>1. CASE done = 0
      BY <3>1 DEF Held
    <3>2. CASE done > 0
      BY <2>1, <3>2, HeldNow
    <3>3. QED
      BY <1>1, <3>1, <3>2
  <2>6. n' - done' = n - done /\ done' - 1 = done /\ done' \in Nat /\ done' <= n'
    BY <1>1, <2>1
  <2>7. (Held(before, done - 1))'
    BY <2>1, <2>5, <2>6 DEF Held
  <2>8. QED
    BY <1>1, <2>1, <2>3, <2>4, <2>6, <2>7 DEF SampleInv
<1>4. CASE DriverStep \/ UNCHANGED <<vars, sampleVars>>
  <2>1. UNCHANGED <<call, n, before, test, done>>
    BY <1>4 DEF DriverStep, Driver, Rom, WriteToSectorCall, FirstPart, FullSector, Remaining,
                NothingRemains, BufferToSectorCall, WriteToSector, Prepare, Erase, Copy,
                TransfertPrepare, TransfertErase, TransfertChunk, TransfertCopy, vars, sampleVars
  <2>2. QED
    BY <2>1 DEF SampleInv, Held
<1>5. CASE ResetSample
  BY <1>1, <1>5 DEF ResetSample, Reset, SampleInv
<1>6. QED
  BY <1>2, <1>3, <1>4, <1>5 DEF NextSample

LEMMA ReadsBack == IndInv /\ Spills /\ SampleInv => TestReadsBack
<1> SUFFICES ASSUME IndInv, Spills, SampleInv, test # "any", done = Len(CallsOf[test]), pc = "idle", ret = 0,
                    NEW i \in 1 .. done, NEW b \in 0 .. (CallsOf[test][i].len - 1)
             PROVE  flash[CallsOf[test][i].dest + b] =
                      <<IF CallsOf[test][i].api = "transfert_4ks_to_32k"
                          THEN n - 1 ELSE (n - done) + i, b>>
  BY DEF TestReadsBack
<1>1. /\ test \in DOMAIN CallsOf /\ done \in Nat /\ n \in Nat /\ done > 0
      /\ i \in 1 .. Len(CallsOf[test])
  BY BoundAssumption DEF IndInv, Typed, SampleInv
<1>2. flash[CallsOf[test][i].dest + b] =
        <<IF CallsOf[test][i].api = "transfert_4ks_to_32k"
            THEN (n - done) + 1 ELSE (n - done) + i, b>>
  BY <1>1, HeldNow DEF Held
<1>3. CallsOf[test][i].api = "transfert_4ks_to_32k" => done = 2
  <2>1. PICK api \in DOMAIN FirstAccess, dest \in Nat, len \in Nat, src \in Nat :
          /\ CallsOf[test][i] = CallOf(api, dest, len, src)
          /\ api = "transfert_4ks_to_32k" => Len(CallsOf[test]) = 2
    BY <1>1, TestCalls, SMTT(30)
  <2>2. CallsOf[test][i].api = api
    BY <2>1 DEF CallOf
  <2>3. QED
    BY <2>1, <2>2
<1>4. done = 2 => (n - done) + 1 = n - 1
  BY <1>1
<1>5. QED
  BY <1>2, <1>3, <1>4

-----------------------------------------------------------------------------
(***************************************************************************)
(* The theorems                                                            *)
(***************************************************************************)

LEMMA Invariant == SpecSample => [](IndInv /\ Edges /\ Spills /\ SampleInv)
<1>1. InitSample => IndInv /\ Edges /\ Spills /\ SampleInv
  <2>1. SUFFICES ASSUME InitSample
                 PROVE  Edges /\ Spills
    BY InitInd, SampleInit DEF InitSample
  <2>2. pc = "idle" /\ call.len = 0 /\ spilled = 0
    BY <2>1 DEF InitSample, Init
  <2>3. QED
    BY <2>2, BehindNothing DEF Edges, Spills, Burning
<1>2. IndInv /\ Edges /\ Spills /\ SampleInv /\ [NextSample]_<<vars, sampleVars>>
        => (IndInv /\ Edges /\ Spills /\ SampleInv)'
  BY NextInd, EdgesNext, SpillsNext, SampleNext DEF SampleInv
<1>3. QED
  BY <1>1, <1>2, PTL DEF SpecSample

\* Whatever the program, its writes, and the errors of the ROM: a call of the driver
\* that returns 0 has written the bytes of the caller and kept all others, but those that
\* memcpy() puts behind a last piece shorter than a word, and write_to_sector() that
\* refuses has changed nothing (iap.c:186-299, memcpy.c:58-79).
THEOREM AnswersAreTrue == SpecSample => []AnswerIsTrue
<1>1. IndInv /\ Spills => AnswerIsTrue
  BY Answers
<1>2. QED
  BY <1>1, Invariant, PTL

\* Wherever an error or a reset cuts a call short, what is lost is in one erased sector,
\* or behind a last piece shorter than a word; every byte of the target is old, new or
\* blank, and nothing was programmed twice (iap.c:164-183, 256-299, memcpy.c:58-79).
THEOREM LossesAreBounded == SpecSample => []LossIsBounded
<1>1. IndInv /\ Spills => LossIsBounded
  BY Losses
<1>2. QED
  BY <1>1, Invariant, PTL

\* A test all of whose calls returned 0 reads back what each of them wrote, for any
\* sizes of its buffers, pieces and object (main.c:177-286).
THEOREM TestsReadBack == SpecSample => []TestReadsBack
<1>1. IndInv /\ Spills /\ SampleInv => TestReadsBack
  BY ReadsBack
<1>2. QED
  BY <1>1, Invariant, PTL
=============================================================================
