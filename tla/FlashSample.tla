---------------------------- MODULE FlashSample -----------------------------
(***************************************************************************)
(* The programs that use the IAP driver: any program at all, as Iap has    *)
(* it, or one of the tests of samples/test-flash/main.c, which write an    *)
(* object by pieces and read it back.                                      *)
(*                                                                         *)
(* A test makes its calls in order, stops at the first that does not       *)
(* return 0, and starts again from its first call after a reset.           *)
(***************************************************************************)
EXTENDS Iap, Sequences

CONSTANTS
  AnyCalls,    \* bound: calls of a program that is not one of the tests
  TestSector,  \* the sector of 0x9000 (main.c:302)
  BufferSize,  \* buffer (main.c:36)
  Piece,       \* WRITING_BUFFER_SIZE
  ObjectSize,  \* object_size
  LargeSize    \* the size of largeBuffer, more than a small sector

ASSUME SampleAssumption ==
  /\ TestSector \in 0 .. (NSmall - 2) /\ NLarge > 0
  /\ Piece \in Nat \ {0} /\ ObjectSize \in 1 .. Small /\ BufferSize \in Nat /\ 2 * BufferSize <= Small
  /\ LargeSize \in (Small + 1) .. (2 * Small) /\ LargeSize <= Large

VARIABLES
  test,   \* the program
  done    \* how many of its calls were made since the reset

sampleVars == <<test, done>>

Address == AddressOf(TestSector)

CallOf(f, dest, len, src) == [api |-> f, dest |-> dest, len |-> len, src |-> src]

\* Mutant: the place of the next piece is not moved on (k of main.c:199).
BufferedInPlace ==
  [i \in 1 .. (((ObjectSize - 1) \div Piece) + 1) |->
     CallOf("write_to_sector", Address,
            IF i * Piece < ObjectSize THEN Piece ELSE ObjectSize - (i - 1) * Piece, 0)]

\* testBufferedWriting(): the object by pieces of a buffer, the last one with what
\* is left.
Buffered ==
  [i \in 1 .. (((ObjectSize - 1) \div Piece) + 1) |->
     CallOf("write_to_sector", Address + (i - 1) * Piece,
            IF i * Piece < ObjectSize THEN Piece ELSE ObjectSize - (i - 1) * Piece, 0)]

\* testSequence(): one buffer twice, the second time behind the first
Sequence ==
  [i \in 1 .. 2 |-> CallOf("write_to_sector", Address + (i - 1) * BufferSize, BufferSize, 0)]

Writing     == <<CallOf("write_to_sector", Address, BufferSize, 0)>>
LargeBuffer == <<CallOf("write_buffer", Address, LargeSize, 0)>>

\* testWritingInto32k(): to small sectors, and from there to the first large one
Into32k == LargeBuffer \o
  <<CallOf("transfert_4ks_to_32k", AddressOf(NSmall), LargeSize, Address)>>

CallsOf == [writing |-> Writing, sequence |-> Sequence, buffered |-> Buffered,
            large |-> LargeBuffer, into32k |-> Into32k]

FirstAccess == [write_buffer |-> "start", write_to_sector |-> "piece",
                transfert_4ks_to_32k |-> "t_prepare"]

-----------------------------------------------------------------------------
InitSample ==
  /\ Init
  /\ test \in DOMAIN CallsOf \union {"any"}
  /\ done = 0

AnyProgram ==
  /\ test = "any" /\ n < AnyCalls
  /\ CallWrite \/ CallBufferToSector \/ CallTransfert
  /\ UNCHANGED sampleVars

TestCall ==
  /\ test # "any" /\ done < Len(CallsOf[test])
  /\ done > 0 => ret = 0
  /\ \E b \in 0 .. (Word - 1) :
       LET c == CallsOf[test][done + 1]
       IN  Call(c.api, c.dest, c.len, c.src, b, FirstAccess[c.api])
  /\ done' = done + 1
  /\ UNCHANGED test

DriverStep == Driver /\ UNCHANGED sampleVars

ResetSample ==
  /\ Reset
  /\ done' = 0
  /\ UNCHANGED test

NextSample == AnyProgram \/ TestCall \/ DriverStep \/ ResetSample

\* A call that was made runs on until it returns.
SpecSample ==
  InitSample /\ [][NextSample]_<<vars, sampleVars>> /\ WF_<<vars, sampleVars>>(DriverStep)

-----------------------------------------------------------------------------
(***************************************************************************)
(* Properties                                                              *)
(***************************************************************************)

\* When all the calls of a test have returned 0, the flash holds what every one of
\* them wrote, the earlier ones included: a piece that reads, patches and burns its
\* sector leaves the pieces before it alone, and what was transferred into a large
\* sector is what was written to the small ones (main.c:208-213, 279-284).
TestReadsBack ==
  (test # "any" /\ done = Len(CallsOf[test]) /\ pc = "idle" /\ ret = 0) =>
    \A i \in 1 .. done : LET c == CallsOf[test][i] IN
      \A b \in 0 .. (c.len - 1) :
        flash[c.dest + b] =
          <<IF c.api = "transfert_4ks_to_32k" THEN n - 1 ELSE (n - done) + i, b>>
=============================================================================
