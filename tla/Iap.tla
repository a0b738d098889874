-------------------------------- MODULE Iap ---------------------------------
(***************************************************************************)
(* In-application programming of the flash: rflpc17xx/iap.[ch].            *)
(*                                                                         *)
(* The flash is written by the IAP routines in ROM, a sector at a time:    *)
(* prepare, erase, prepare, copy.  Each ROM call is one action here: it    *)
(* may report an error, and the board may be reset between any two of      *)
(* them.  Everything the driver does between two ROM calls belongs to the  *)
(* action before or after.  The sizes are scaled: NSmall sectors of Small  *)
(* bytes (16 of 4096 in the chip) then sectors of Large bytes (32768).     *)
(***************************************************************************)
EXTENDS Integers

CONSTANTS
  Small, Large,    \* size of a small sector (4k) and of a large one (32k)
  NSmall, NLarge,  \* how many there are of each
  Word,            \* bytes of a word (4)
  Overrun,         \* what memcpy() moves more when it has not a word to move (32)
  CopyLengths,     \* the lengths IAP_COPY_RAM_TO_FLASH accepts (iap.h:77)
  Writes,          \* bound: the pairs <<dest, len>> the program writes to
  MaxCalls,        \* bound: calls of the driver
  MaxFaults,       \* bound: resets and errors of the ROM
  Blank,           \* an erased byte
  Mixed            \* a byte programmed twice without an erase

ASSUME SizeAssumption ==
  /\ Small \in Nat /\ Small > 2 /\ Large \in Nat /\ Large > Small
  /\ NSmall \in Nat \ {0} /\ NLarge \in Nat
  /\ Large % Small = 0
  /\ Word \in Nat \ {0} /\ Overrun \in Nat /\ Small % Word = 0 /\ Word < Small /\ Word + Overrun <= Small
  /\ Small \in CopyLengths /\ Large \notin CopyLengths

\* A byte of content: byte i from the buffer passed in call n on, what lies behind the
\* buffer included, with n = 0 for what the flash held at first (byte i at address i)
\* and for the zeros of .bss.
Content == (0 .. MaxCalls) \X Nat
Zero    == <<0, 0>>

FlashEnd == NSmall * Small + NLarge * Large
Sectors  == 0 .. (NSmall + NLarge - 1)

\* A program writes to bytes that are in the flash, and Mixed is no byte a write leaves.
ASSUME BoundAssumption ==
  /\ MaxCalls \in Nat /\ MaxFaults \in Nat
  /\ \A w \in Writes : w \in Nat \X Nat /\ w[1] < FlashEnd /\ w[1] + w[2] <= FlashEnd
  /\ Mixed \notin Content \union {Blank}

Apis     == {"write_buffer", "write_to_sector", "write_buffer_to_sector", "transfert_4ks_to_32k"}

\* The value of ret after a call that a reset cut short.
NoReturn == 1

VARIABLES
  flash,     \* the byte at each address
  prepared,  \* sectors the ROM allows the next erase or copy to touch
  ram,       \* iap_sector_buffer
  pc,        \* the ROM call the driver makes next
  call,      \* the call in progress, or the last one: api, dest, len, src
  buf,       \* how far from a word's boundary the caller's buffer begins
  off,       \* how much of the caller's buffer is behind us
  part,      \* length of the piece being written
  job,       \* write_buffer_to_sector(): the sector and the source buffer
  ret,       \* what the last call returned
  n,         \* how many calls were made
  faults,    \* how many resets and ROM errors happened
  before,    \* history: the flash when the call began
  spilled    \* history: the bytes behind iap_sector_buffer the call has overwritten

vars == <<flash, prepared, ram, pc, call, buf, off, part, job, ret, n, faults, before, spilled>>

-----------------------------------------------------------------------------

\* rflpc_iap_get_sector_from_address(), rflpc_iap_get_address_from_sector()
SectorOf(a) == IF a < NSmall * Small THEN a \div Small
               ELSE NSmall + (a - NSmall * Small) \div Large
AddressOf(s) == IF s < NSmall THEN s * Small
                ELSE NSmall * Small + (s - NSmall) * Large

SizeOf(s) == IF s < NSmall THEN Small ELSE Large
Bytes(s)  == AddressOf(s) .. (AddressOf(s) + SizeOf(s) - 1)

\* The caller's buffer from byte k on, size bytes of it.
Source(k, size) == [i \in 0 .. (size - 1) |-> <<n, k + i>>]

\* Mutant: the data goes to the start of the sector.
ImageAtStart(dest, k, len) ==
  LET start == AddressOf(SectorOf(dest))
  IN  [i \in 0 .. (Small - 1) |-> IF i < len THEN <<n, k + i>> ELSE flash[start + i]]

\* Less than a word to move, between two words' boundaries: memcpy() runs its loop of
\* words all the same.
Short(to, from, len) == len \in 1 .. (Word - 1) /\ to % Word = 0 /\ from % Word = 0

\* How many bytes memcpy() moves when it is asked for len.
Moves(to, from, len) == IF Short(to, from, len) THEN len + Overrun ELSE len

\* write_to_sector() on a copy of the sector, which is word aligned as a sector is:
\* the bytes at dest are replaced, as many as memcpy() moves.
SectorImage(dest, k, len) ==
  LET start == AddressOf(SectorOf(dest))
  IN  [i \in 0 .. (Small - 1) |->
         IF start + i \in dest .. (dest + Moves(dest, buf + k, len) - 1)
           THEN <<n, k + (start + i - dest)>> ELSE flash[start + i]]

\* How many of the bytes moved to dest and behind it are past the end of a sector.
PastEnd(s, end) == IF end > AddressOf(s) + SizeOf(s) THEN end - (AddressOf(s) + SizeOf(s)) ELSE 0

Return(v) == pc' = "idle" /\ ret' = v

\* A piece is written: write_buffer() goes on, the other functions return.
PieceDone ==
  IF call.api = "write_buffer" THEN pc' = "next" /\ UNCHANGED ret ELSE Return(0)

Fault == faults < MaxFaults /\ faults' = faults + 1

-----------------------------------------------------------------------------
Init ==
  /\ flash = [a \in 0 .. (FlashEnd - 1) |-> <<0, a>>]
  /\ prepared = {}
  /\ ram = [i \in 0 .. (Small - 1) |-> Zero]
  /\ pc = "idle"
  /\ call = [api |-> "write_buffer", dest |-> 0, len |-> 0, src |-> 0]
  /\ buf = 0 /\ off = 0 /\ part = 0
  /\ job = [sector |-> 0, image |-> ram]
  /\ ret = 0 /\ n = 0 /\ faults = 0
  /\ before = flash /\ spilled = 0

\* The program calls a function of the driver on bytes that are in the flash, with a
\* buffer that begins b bytes behind a word's boundary.
Call(api, dest, len, src, b, first) ==
  /\ pc = "idle"
  /\ n < MaxCalls
  /\ n' = n + 1
  /\ call' = [api |-> api, dest |-> dest, len |-> len, src |-> src]
  /\ buf' = b
  /\ off' = 0
  /\ before' = flash /\ spilled' = 0
  /\ pc' = first
  /\ UNCHANGED <<flash, prepared, ram, part, job, ret, faults>>

CallWrite ==
  \E api \in {"write_buffer", "write_to_sector"}, w \in Writes, b \in 0 .. (Word - 1) :
    Call(api, w[1], w[2], 0, b, IF api = "write_buffer" THEN "start" ELSE "piece")

\* This buffer goes to the ROM itself, which wants it aligned (iap.h:77).
CallBufferToSector ==
  \E s \in Sectors : Call("write_buffer_to_sector", AddressOf(s), SizeOf(s), 0, 0, "sector")

\* From the small sectors to an address where a copy may begin in a large one.
CallTransfert ==
  \E dest \in {a \in NSmall * Small .. (FlashEnd - 1) : a % Small = 0},
     src \in {a \in 0 .. (NSmall * Small - 1) : a % Small = 0},
     len \in 1 .. Large :
    /\ src + len <= NSmall * Small
    /\ dest + len <= FlashEnd
    /\ Call("transfert_4ks_to_32k", dest, len, src, 0, "t_prepare")

-----------------------------------------------------------------------------

\* write_to_sector(dest, buffer + off, len): refused, or the sector's image is
\* made in iap_sector_buffer and handed to write_buffer_to_sector().
WriteToSector(dest, len) ==
  /\ part' = len
  /\ IF SectorOf(dest) # SectorOf(dest + len - 1) \/ SectorOf(dest) >= NSmall
       THEN Return(-1) /\ UNCHANGED <<ram, job, spilled>>
       ELSE /\ ram' = SectorImage(dest, off, len)
            /\ job' = [sector |-> SectorOf(dest), image |-> ram']
            /\ spilled' = PastEnd(SectorOf(dest), dest + Moves(dest, buf + off, len))
            /\ pc' = "prepare1"
            /\ UNCHANGED ret
  /\ UNCHANGED <<flash, prepared, call, buf, off, n, faults, before>>

Dest  == call.dest + off
Left  == call.len - off
Spans == SectorOf(Dest) # SectorOf(Dest + Left)

WriteToSectorCall ==
  /\ pc = "piece"
  /\ WriteToSector(Dest, Left)

\* write_buffer(): from the destination till the end of its sector ...
FirstPart ==
  /\ pc = "start"
  /\ Spans
  /\ WriteToSector(Dest, AddressOf(SectorOf(Dest) + 1) - Dest)

\* ... full sectors, less one byte ...
FullSector ==
  /\ pc = "next"
  /\ Spans /\ Left > 0
  /\ WriteToSector(Dest, SizeOf(SectorOf(Dest)) - 1)

\* ... and the remaining data, if any.
Remaining ==
  /\ pc \in {"start", "next"}
  /\ ~Spans /\ Left > 0
  /\ WriteToSector(Dest, Left)

NothingRemains ==
  /\ pc \in {"start", "next"}
  /\ ~Spans /\ Left = 0
  /\ Return(0)
  /\ UNCHANGED <<flash, prepared, ram, call, buf, off, part, job, n, faults, before, spilled>>

\* write_buffer_to_sector(buffer, sector) called by the program
BufferToSectorCall ==
  /\ pc = "sector"
  /\ job' = [sector |-> SectorOf(Dest), image |-> Source(0, SizeOf(SectorOf(Dest)))]
  /\ part' = call.len
  /\ pc' = "prepare1"
  /\ UNCHANGED <<flash, prepared, ram, call, buf, off, ret, n, faults, before, spilled>>

-----------------------------------------------------------------------------
\* The ROM: only prepared sectors are touched, and they are protected again.
Program(dest, image) ==
  [a \in DOMAIN flash |->
     IF a - dest \in DOMAIN image
       THEN IF flash[a] = Blank THEN image[a - dest] ELSE Mixed
       ELSE flash[a]]

CopyAllowed(dest, len) ==
  /\ len \in CopyLengths
  /\ dest + len <= FlashEnd
  /\ SectorOf(dest) \in prepared /\ SectorOf(dest + len - 1) \in prepared

EraseSector(s) == [a \in DOMAIN flash |-> IF a \in Bytes(s) THEN Blank ELSE flash[a]]

\* prepare_sectors_for_writing(sector, sector), twice in write_buffer_to_sector()
Prepare ==
  /\ pc \in {"prepare1", "prepare2"}
  /\ \/ /\ prepared' = {job.sector}
        /\ pc' = IF pc = "prepare1" THEN "erase" ELSE "copy"
        /\ UNCHANGED <<ret, faults>>
     \/ Fault /\ Return(-1) /\ UNCHANGED prepared
  /\ UNCHANGED <<flash, ram, call, buf, off, part, job, n, before, spilled>>

\* erase_sectors(sector, sector)
Erase ==
  /\ pc = "erase"
  /\ \/ /\ job.sector \in prepared
        /\ flash' = EraseSector(job.sector)
        /\ prepared' = {}
        /\ pc' = "prepare2"
        /\ UNCHANGED <<ret, faults>>
     \/ Fault /\ Return(-1) /\ UNCHANGED <<flash, prepared>>
  /\ UNCHANGED <<ram, call, buf, off, part, job, n, before, spilled>>

\* Mutant: write_buffer() does not move on in its buffer.
CopyInPlace ==
  LET dest == AddressOf(job.sector)
      len  == SizeOf(job.sector)
  IN
  /\ pc = "copy"
  /\ \/ /\ CopyAllowed(dest, len)
        /\ flash' = Program(dest, job.image)
        /\ prepared' = {}
        /\ PieceDone
        /\ UNCHANGED <<off, faults>>
     \/ /\ (~CopyAllowed(dest, len) /\ UNCHANGED faults) \/ Fault
        /\ Return(-1)
        /\ UNCHANGED <<flash, prepared, off>>
  /\ UNCHANGED <<ram, call, buf, part, job, n, before, spilled>>

\* copy_ram_to_flash(): 4096 bytes in a small sector, 32768 in a large one
Copy ==
  LET dest == AddressOf(job.sector)
      len  == SizeOf(job.sector)
  IN
  /\ pc = "copy"
  /\ \/ /\ CopyAllowed(dest, len)
        /\ flash' = Program(dest, job.image)
        /\ prepared' = {}
        /\ off' = off + part
        /\ PieceDone
        /\ UNCHANGED faults
     \/ /\ (~CopyAllowed(dest, len) /\ UNCHANGED faults) \/ Fault
        /\ Return(-1)
        /\ UNCHANGED <<flash, prepared, off>>
  /\ UNCHANGED <<ram, call, buf, part, job, n, before, spilled>>

-----------------------------------------------------------------------------
\* transfert_4ks_to_32k(): erase the destination's sector, once
TransfertPrepare ==
  /\ pc = "t_prepare"
  /\ \/ /\ prepared' = {SectorOf(call.dest)}
        /\ pc' = "t_erase"
        /\ UNCHANGED <<ret, faults>>
     \/ Fault /\ Return(-1) /\ UNCHANGED prepared
  /\ UNCHANGED <<flash, ram, call, buf, off, part, job, n, before, spilled>>

\* Mutant: the destination is not erased.
TransfertNoErase ==
  /\ pc = "t_erase"
  /\ SectorOf(call.dest) \in prepared
  /\ prepared' = {}
  /\ pc' = "t_chunk"
  /\ UNCHANGED <<flash, ram, call, buf, off, part, job, ret, n, faults, before, spilled>>

TransfertErase ==
  /\ pc = "t_erase"
  /\ \/ /\ SectorOf(call.dest) \in prepared
        /\ flash' = EraseSector(SectorOf(call.dest))
        /\ prepared' = {}
        /\ pc' = "t_chunk"
        /\ UNCHANGED <<ret, faults>>
     \/ Fault /\ Return(-2) /\ UNCHANGED <<flash, prepared>>
  /\ UNCHANGED <<ram, call, buf, off, part, job, n, before, spilled>>

\* The next 4k, or what is left of them, goes to iap_sector_buffer; the end of
\* the buffer keeps what it held.  Then prepare again.
TransfertChunk ==
  /\ pc = "t_chunk"
  /\ LET moves == IF Left > Small THEN Small ELSE Moves(0, call.src + off, Left)
     IN  ram' = [i \in DOMAIN ram |-> IF i < moves THEN flash[call.src + off + i] ELSE ram[i]]
  /\ \/ /\ prepared' = {SectorOf(call.dest)}
        /\ pc' = "t_copy"
        /\ UNCHANGED <<ret, faults>>
     \/ Fault /\ Return(IF Left > Small THEN -3 ELSE -5) /\ UNCHANGED prepared
  /\ UNCHANGED <<flash, call, buf, off, part, job, n, before, spilled>>

\* The whole of iap_sector_buffer is copied, whatever is left.
TransfertCopy ==
  /\ pc = "t_copy"
  /\ \/ /\ CopyAllowed(Dest, Small)
        /\ flash' = Program(Dest, ram)
        /\ prepared' = {}
        /\ off' = off + Small
        /\ IF Left > Small THEN pc' = "t_chunk" /\ UNCHANGED ret ELSE Return(0)
        /\ UNCHANGED faults
     \/ /\ (~CopyAllowed(Dest, Small) /\ UNCHANGED faults) \/ Fault
        /\ Return(IF Left > Small THEN -4 ELSE -6)
        /\ UNCHANGED <<flash, prepared, off>>
  /\ UNCHANGED <<ram, call, buf, part, job, n, before, spilled>>

\* A reset: _start() clears .bss, the ROM forgets what was prepared, and the
\* flash is as it was.
Reset ==
  /\ pc # "idle"
  /\ Fault
  /\ pc' = "idle"
  /\ ret' = NoReturn
  /\ prepared' = {}
  /\ ram' = [i \in DOMAIN ram |-> Zero]
  /\ UNCHANGED <<flash, call, buf, off, part, job, n, before, spilled>>

Rom == Prepare \/ Erase \/ Copy \/ TransfertPrepare \/ TransfertErase
         \/ TransfertChunk \/ TransfertCopy

Driver == WriteToSectorCall \/ FirstPart \/ FullSector \/ Remaining \/ NothingRemains
            \/ BufferToSectorCall \/ Rom

Next == CallWrite \/ CallBufferToSector \/ CallTransfert \/ Driver \/ Reset

Spec == Init /\ [][Next]_vars

-----------------------------------------------------------------------------
(***************************************************************************)
(* Properties                                                              *)
(***************************************************************************)

Target == call.dest .. (call.dest + call.len - 1)

\* What byte a of the target is meant to hold.
Wanted(a) == IF call.api = "transfert_4ks_to_32k" THEN before[call.src + (a - call.dest)]
                                                 ELSE <<n, a - call.dest>>

\* The last piece of a write begins at its destination, or at the start of the last
\* sector of its range.
End(c) == c.dest + c.len
LastPiece(c) ==
  IF SectorOf(c.dest) = SectorOf(End(c) - 1) THEN c.dest ELSE AddressOf(SectorOf(End(c) - 1))

\* That piece is less than a word, at a word's boundary, from a word's boundary of a
\* buffer that begins b bytes behind one.
EndsShort(c, b) ==
  /\ c.api \in {"write_buffer", "write_to_sector"} /\ c.len > 0
  /\ Short(LastPiece(c), b + (LastPiece(c) - c.dest), End(c) - LastPiece(c))

\* The bytes of the flash, and how many of the memory behind iap_sector_buffer, that
\* memcpy() overwrites then although nobody asked for it.
Behind(c, b) ==
  IF EndsShort(c, b)
    THEN {a \in Bytes(SectorOf(End(c) - 1)) : End(c) <= a /\ a < End(c) + Overrun} ELSE {}
Spill(c, b) ==
  IF EndsShort(c, b) THEN PastEnd(SectorOf(End(c) - 1), End(c) + Overrun) ELSE 0

\* The bytes outside its target that a call has changed.
Damaged == {a \in DOMAIN flash \ Target : flash[a] # before[a]}

\* Every variable has its type.
TypeOK ==
  /\ flash \in [0 .. (FlashEnd - 1) -> Content \union {Blank, Mixed}]
  /\ prepared \in SUBSET Sectors
  /\ ram \in [0 .. (Small - 1) -> Content \union {Blank, Mixed}]
  /\ call.api \in Apis
  /\ off \in 0 .. (call.len + Small)
  /\ job.sector \in Sectors
  /\ ret \in -6 .. 1
  /\ buf \in 0 .. (Word - 1) /\ spilled \in 0 .. Overrun

\* 0 means done: the target holds the
\* caller's bytes, and whatever sector was read, patched and burned again for that,
\* every other byte is what it was before the call (iap.c:186-253): but for a write whose
\* last piece is aligned and shorter than a word, which burns up to 32 bytes behind the
\* target with what lies behind the caller's buffer, and overwrites the memory behind
\* iap_sector_buffer with the rest of these when the sector ends first (iap.c:212,
\* memcpy.c:58-79).  transfert_4ks_to_32k() may only change the rest of the sector it
\* erased (iap.c:256-299).
SuccessIsWritten ==
  (pc = "idle" /\ n > 0 /\ ret = 0) =>
    /\ \A a \in Target : flash[a] = Wanted(a)
    /\ IF call.api = "transfert_4ks_to_32k"
         THEN \A a \in Damaged : SectorOf(a) = SectorOf(call.dest)
         ELSE /\ Damaged \subseteq Behind(call, buf)
              /\ \A a \in Behind(call, buf) : flash[a] = <<n, a - call.dest>>
    /\ spilled = Spill(call, buf)

\* write_to_sector() that answers -1 of its own accord has changed nothing
\* (iap.c:192-203): no sector was erased, no memory overwritten.
RefusalChangesNothing ==
  (pc = "idle" /\ call.api = "write_to_sector" /\ ret = -1 /\ faults = 0) =>
    flash = before /\ spilled = 0

\* The two answers together: 0 is a whole write and a refusal is none.
AnswerIsTrue == SuccessIsWritten /\ RefusalChangesNothing

\* At any moment, and so after any error or reset, the bytes a write has lost
\* outside its target are in one erased sector: the one erase and copy were
\* separated in.  All the others are intact (iap.c:164-183), but for the bytes memcpy()
\* has put behind a last piece shorter than a word, and it overwrites memory then only.
LossIsOneSector ==
  call.api # "transfert_4ks_to_32k" =>
    /\ \A a, b \in Damaged : SectorOf(a) = SectorOf(b)
    /\ \A a \in Damaged :
         flash[a] = Blank \/ (a \in Behind(call, buf) /\ flash[a] = <<n, a - call.dest>>)
    /\ spilled \in {0, Spill(call, buf)}

\* No byte of the target ever holds anything but its old content, its new one
\* or nothing.
NoGarbage ==
  \A a \in Target : flash[a] \in {before[a], Wanted(a), Blank}

\* The ROM is never asked to program bytes that are not erased.
NeverProgrammedTwice == \A a \in DOMAIN flash : flash[a] # Mixed

\* What an error or a reset between any two ROM calls can cost: one erased sector
\* around the target, never a byte of it that is neither old nor new, never a byte
\* programmed over another (iap.c:164-183, 256-299); and, error or not, what memcpy()
\* moves behind a last piece shorter than a word.
LossIsBounded == TypeOK /\ LossIsOneSector /\ NoGarbage /\ NeverProgrammedTwice

\* Every call returns unless the board is reset: the loop of write_buffer()
\* ends whatever the ROM answers.
CallReturns == pc # "idle" ~> pc = "idle"

\* iap.h:97 "This function handles multiple sectors overlap": when the ROM
\* reports no error, rflpc_iap_write_buffer() succeeds on any range of small
\* sectors.
DocMultipleSectors ==
  (pc = "idle" /\ n > 0 /\ call.api = "write_buffer" /\ faults = 0
     /\ \A a \in Target : SectorOf(a) < NSmall) => ret = 0
=============================================================================
