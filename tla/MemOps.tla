------------------------------- MODULE MemOps --------------------------------
(***************************************************************************)
(* memcpy() and memset() of tinylibc.  Both move words, then the bytes     *)
(* that are left, with Duff's device: a loop of eight moves entered in its *)
(* middle, and left at the bottom, so that it is run once at least.        *)
(***************************************************************************)
EXTENDS Integers, FiniteSetsExt

CONSTANTS
  MemSize, \* bytes of memory
  CopyTo, CopyFrom, \* where the calls write and read
  Lengths  \* how many bytes they are asked for

\* Memory goes on behind what is asked for.  A source lies above its destination and
\* does not overlap it (memcpy.h:40), nor what a short copy moves more than it is asked.
ASSUME MemAssumption ==
  /\ MemSize \in Nat
  /\ CopyTo \subseteq Nat /\ CopyFrom \subseteq Nat /\ Lengths \subseteq Nat
  /\ \A dest \in CopyTo, n \in Lengths : dest + n + 32 <= MemSize
  /\ \A dest \in CopyTo, src \in CopyFrom, n \in Lengths :
       dest + n + 32 <= src /\ src + n + 32 <= MemSize

VARIABLES
  memory,  \* the byte at each address
  was,     \* history: the memory before the call
  called   \* the call: << >>, or <<op, dest, src, n>>

memVars == <<memory, was, called>>

\* The byte a memset() writes.
Filler == MemSize

IsAligned(a) == a % 4 = 0

\* Bytes from an address to the next aligned one.
ToAligned(a) == (4 - (a % 4)) % 4

\* Mutant: the count of loops is rounded down.
UnrolledDown(n) ==
  (IF n % 8 = 0 THEN 8 ELSE n % 8) + 8 * (Max({1, n \div 8}) - 1)

\* How many moves Duff's device makes when it is asked for n.
Unrolled(n) ==
  (IF n % 8 = 0 THEN 8 ELSE n % 8) + 8 * (Max({1, (n + 7) \div 8}) - 1)

\* What the bytes of mem are once those from dest on, k of them, come from value, a function of their place.
\* Moves go up: so does a source that lies above its destination.
Moved(mem, dest, k, value) ==
  [a \in DOMAIN mem |-> IF a \in dest .. (dest + k - 1) THEN value[a - dest] ELSE mem[a]]

\* rflpc_mem..._aligned_fast(): words, then the bytes that remain.  What the words
\* and the bytes take from value is one run.
AlignedFast(n) ==
  4 * Unrolled(n \div 4) + (IF n % 4 = 0 THEN 0 ELSE Unrolled(n % 4))

memcpy(mem, dest, src, n) ==
  IF n = 0 THEN mem
  ELSE LET k == IF IsAligned(dest) /\ IsAligned(src) THEN AlignedFast(n) ELSE Unrolled(n)
       IN Moved(mem, dest, k, [i \in 0 .. (k - 1) |-> mem[src + i]])

\* Bytes until the address is aligned, the rest from there.
memset(mem, dest, c, n) ==
  LET head == Min({n, ToAligned(dest)})
      k == IF n = head THEN head ELSE head + AlignedFast(n - head)
  IN Moved(mem, dest, k, [i \in 0 .. (k - 1) |-> c])

MemInit ==
  /\ memory = [a \in 0 .. (MemSize - 1) |-> a]
  /\ was = memory
  /\ called = << >>

Memcpy ==
  \E dest \in CopyTo, src \in CopyFrom, n \in Lengths :
    /\ memory' = memcpy(memory, dest, src, n)
    /\ called' = <<"memcpy", dest, src, n>>

Memset ==
  \E dest \in CopyTo, n \in Lengths :
    /\ memory' = memset(memory, dest, Filler, n)
    /\ called' = <<"memset", dest, 0, n>>

MemNext == called = << >> /\ (Memcpy \/ Memset) /\ was' = memory

-----------------------------------------------------------------------------
\* The reference: the first n bytes at dest, and no other.
Exactly(op, dest, src, n) ==
  [a \in DOMAIN was |->
     IF a \in dest .. (dest + n - 1) THEN IF op = "memcpy" THEN was[src + a - dest] ELSE Filler
                                     ELSE was[a]]

\* No whole word to move, and the word loop is run all the same: it moves eight.
WordLoopOnNothing(op, dest, src, n) ==
  IF op = "memcpy" THEN IsAligned(dest) /\ IsAligned(src) /\ n \in 1 .. 3
  ELSE n - ToAligned(dest) \in 1 .. 3

\* test_memset() of samples/memset: the bytes set, then those before, then those behind;
\* the place of the first wrong one, or 0.
test_memset(dest, n) ==
  LET wrong == {i \in (0 - dest) .. (MemSize - 1 - dest) :
                  memory[dest + i] # (IF i \in 0 .. (n - 1) THEN Filler ELSE was[dest + i])}
      within == wrong \intersect 0 .. (n - 1)
  IN IF within # {} THEN Min(within) ELSE IF wrong # {} THEN Min(wrong) ELSE 0

\* test() of samples/memcpy, which compares the bytes copied only: -1 if two differ.
test(dest, src, n) ==
  IF \E i \in 0 .. (n - 1) : memory[dest + i] # memory[src + i] THEN -1 ELSE 0

\* The n bytes at dest are those asked for, whatever the alignments and the length,
\* and nothing else changes: but for the 32 bytes that follow when what remains once
\* the address is aligned is less than a word (memcpy.c:64, memset.c:59).  test_memset() tells the
\* second case by the place behind the last byte; test() cannot tell.
MovesWhatIsAsked ==
  called # << >> =>
    LET op == called[1]  dest == called[2]  src == called[3]  n == called[4]
        same == {a \in DOMAIN was : memory[a] = Exactly(op, dest, src, n)[a]}
    IN /\ IF n = 0 THEN memory = was ELSE dest .. (dest + n - 1) \subseteq same
       /\ IF WordLoopOnNothing(op, dest, src, n)
            THEN DOMAIN was \ same = (dest + n) .. (dest + n + 31)
            ELSE memory = Exactly(op, dest, src, n)
       /\ IF op = "memset" THEN test_memset(dest, n) = (IF WordLoopOnNothing(op, dest, src, n) THEN n ELSE 0)
                          ELSE test(dest, src, n) = 0

\* memset.h:33 "Fills the first n bytes of the memory area": those and no others.
DocFirstBytesOnly ==
  called # << >> => memory = Exactly(called[1], called[2], called[3], called[4])
=============================================================================
