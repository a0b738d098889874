--------------------------- MODULE LibraryProofs ----------------------------
(***************************************************************************)
(* Proofs about the parts of Library that need no recursion over data:     *)
(* memcpy() and memset(), for every memory, alignment and length; the text *)
(* that goes by on the LED matrix; the temperature sensor.                 *)
(*                                                                         *)
(* Duff's device, asked for n moves, makes n, but 8 for none.  So one call *)
(* moves one run of bytes, of the length asked for or of 32 bytes more:    *)
(* RunOf says which, and all that the property says follows from it.       *)
(***************************************************************************)
EXTENDS Library, TLAPS

\* How many bytes a call moves.
RunOf(op, dest, src, n) == IF WordLoopOnNothing(op, dest, src, n) THEN n + 32 ELSE n

\* What the i-th byte is taken from.
ValueOf(op, src, i) == IF op = "memcpy" THEN was[src + i] ELSE Filler

\* A call that ended has moved one run of bytes.
CalledOnce ==
  \/ called = << >> /\ memory = was
  \/ \E op \in {"memcpy", "memset"}, dest \in CopyTo, src \in CopyFrom \union {0}, n \in Lengths :
       /\ op = "memcpy" => src \in CopyFrom
       /\ called = <<op, dest, src, n>>
       /\ memory = [a \in DOMAIN was |->
                      IF a \in dest .. (dest + RunOf(op, dest, src, n) - 1)
                        THEN ValueOf(op, src, a - dest) ELSE was[a]]

\* Before the call every byte is its own address.
MemInv == was = [a \in 0 .. (MemSize - 1) |-> a] /\ CalledOnce

-----------------------------------------------------------------------------
(***************************************************************************)
(* Duff's device                                                           *)
(***************************************************************************)

LEMMA MaxOfTwo ==
  ASSUME NEW a \in Int, NEW b \in Int
  PROVE  Max({a, b}) = IF a >= b THEN a ELSE b
<1>1. PICK m \in {a, b} : \A y \in {a, b} : m >= y
  OBVIOUS
<1>2. QED
  BY <1>1 DEF Max

LEMMA MinOfTwo ==
  ASSUME NEW a \in Int, NEW b \in Int
  PROVE  Min({a, b}) = IF a <= b THEN a ELSE b
<1>1. PICK m \in {a, b} : \A y \in {a, b} : m <= y
  OBVIOUS
<1>2. QED
  BY <1>1 DEF Min

LEMMA Eights ==
  ASSUME NEW n \in Nat
  PROVE  /\ n % 8 \in 0 .. 7 /\ n \div 8 \in Nat
         /\ n = 8 * (n \div 8) + (n % 8)
         /\ (n + 7) \div 8 = IF n % 8 = 0 THEN n \div 8 ELSE n \div 8 + 1
<1>1. n % 8 \in 0 .. 7 /\ n \div 8 \in Nat /\ n = 8 * (n \div 8) + (n % 8)
  BY SMT
<1>2. ASSUME NEW q \in Nat, NEW r \in 0 .. 7, n = 8 * q + r
      PROVE  (n + 7) \div 8 = IF r = 0 THEN q ELSE q + 1
  BY <1>2, SMT
<1>3. QED
  BY <1>1, <1>2

LEMMA Fours ==
  ASSUME NEW n \in Nat
  PROVE  n % 4 \in 0 .. 3 /\ n \div 4 \in Nat /\ n = 4 * (n \div 4) + (n % 4)
BY SMT

\* The device makes the moves it is asked for, but for the one turn it makes when it is
\* asked for none (memcpy.c:45-57).
LEMMA DuffMoves ==
  ASSUME NEW n \in Nat
  PROVE  Unrolled(n) = IF n = 0 THEN 8 ELSE n
BY Eights, MaxOfTwo DEF Unrolled

\* Words, then bytes: as many bytes as asked for, if there is a whole word.
LEMMA WordsThenBytes ==
  ASSUME NEW n \in Nat \ {0}
  PROVE  AlignedFast(n) = IF n < 4 THEN n + 32 ELSE n
<1>1. n % 4 \in 0 .. 3 /\ n \div 4 \in Nat /\ n = 4 * (n \div 4) + (n % 4)
  BY Fours
<1>2. Unrolled(n \div 4) = IF n < 4 THEN 8 ELSE n \div 4
  BY <1>1, DuffMoves
<1>3. n % 4 # 0 => Unrolled(n % 4) = n % 4
  BY <1>1, DuffMoves
<1>4. QED
  BY <1>1, <1>2, <1>3 DEF AlignedFast

-----------------------------------------------------------------------------
(***************************************************************************)
(* One call                                                                *)
(***************************************************************************)

LEMMA CopyMovesRun ==
  ASSUME NEW dest \in Nat, NEW src \in Nat, NEW n \in Nat,
         memory = [a \in 0 .. (MemSize - 1) |-> a]
  PROVE  memcpy(memory, dest, src, n) =
           [a \in DOMAIN memory |->
              IF a \in dest .. (dest + RunOf("memcpy", dest, src, n) - 1)
                THEN memory[src + (a - dest)] ELSE memory[a]]
<1> DEFINE k == IF IsAligned(dest) /\ IsAligned(src) THEN AlignedFast(n) ELSE Unrolled(n)
<1>1. CASE n = 0
  <2>1. RunOf("memcpy", dest, src, n) = 0
    BY <1>1 DEF RunOf, WordLoopOnNothing
  <2>2. \A a \in DOMAIN memory : a \notin dest .. (dest + 0 - 1)
    OBVIOUS
  <2>3. QED
    BY <1>1, <2>1, <2>2 DEF memcpy
<1>2. CASE n # 0
  <2>1. k = RunOf("memcpy", dest, src, n) /\ k \in Nat
    BY <1>2, DuffMoves, WordsThenBytes DEF RunOf, WordLoopOnNothing
  <2>2. memcpy(memory, dest, src, n) = Moved(memory, dest, k, [i \in 0 .. (k - 1) |-> memory[src + i]])
    BY <1>2 DEF memcpy
  <2>3. \A a \in DOMAIN memory : a \in dest .. (dest + k - 1) => a - dest \in 0 .. (k - 1)
    BY <2>1
  <2> HIDE DEF k
  <2>4. QED
    BY <2>1, <2>2, <2>3 DEF Moved
<1>3. QED
  BY <1>1, <1>2

LEMMA SetMovesRun ==
  ASSUME NEW dest \in Nat, NEW n \in Nat,
         memory = [a \in 0 .. (MemSize - 1) |-> a]
  PROVE  memset(memory, dest, Filler, n) =
           [a \in DOMAIN memory |->
              IF a \in dest .. (dest + RunOf("memset", dest, 0, n) - 1) THEN Filler ELSE memory[a]]
<1> DEFINE head == Min({n, ToAligned(dest)})
           k == IF n = head THEN head ELSE head + AlignedFast(n - head)
<1>1. ToAligned(dest) \in 0 .. 3
  BY Fours DEF ToAligned
<1>2. head = IF n <= ToAligned(dest) THEN n ELSE ToAligned(dest)
  BY <1>1, MinOfTwo
<1>3. k = RunOf("memset", dest, 0, n) /\ k \in Nat
  <2>1. CASE n <= ToAligned(dest)
    BY <1>1, <1>2, <2>1 DEF RunOf, WordLoopOnNothing
  <2>2. CASE n > ToAligned(dest)
    <3>1. head = ToAligned(dest) /\ n - head \in Nat \ {0}
      BY <1>1, <1>2, <2>2
    <3>2. AlignedFast(n - head) = IF n - head < 4 THEN n - head + 32 ELSE n - head
      BY <3>1, WordsThenBytes
    <3>3. QED
      BY <1>1, <3>1, <3>2 DEF RunOf, WordLoopOnNothing
  <2>3. QED
    BY <1>1, <2>1, <2>2
<1>4. memset(memory, dest, Filler, n) = Moved(memory, dest, k, [i \in 0 .. (k - 1) |-> Filler])
  BY DEF memset
<1> HIDE DEF k
<1>5. \A a \in DOMAIN memory : a \in dest .. (dest + k - 1) => a - dest \in 0 .. (k - 1)
  BY <1>3
<1>6. QED
  BY <1>3, <1>4, <1>5 DEF Moved

-----------------------------------------------------------------------------
LEMMA InitMem == LibInit => MemInv
BY DEF LibInit, MemInit, MemInv, CalledOnce

LEMMA NextMem == MemInv /\ [LibNext]_libVars => MemInv'
<1> SUFFICES ASSUME MemInv, [LibNext]_libVars PROVE MemInv'
  OBVIOUS
<1>1. CASE UNCHANGED memVars
  <2>1. memory' = memory /\ was' = was /\ called' = called
    BY <1>1 DEF memVars
  <2>2. \A op, src, i : ValueOf(op, src, i)' = ValueOf(op, src, i)
    BY <2>1, Zenon DEF ValueOf
  <2>3. CalledOnce'
    BY <2>1, <2>2 DEF MemInv, CalledOnce
  <2>4. QED
    BY <2>1, <2>3 DEF MemInv
<1>2. CASE MemNext
  <2>1. memory = [a \in 0 .. (MemSize - 1) |-> a] /\ was' = memory
    BY <1>2 DEF MemNext, MemInv, CalledOnce
  <2>2. CASE Memcpy
    <3>1. PICK dest \in CopyTo, src \in CopyFrom, n \in Lengths :
            memory' = memcpy(memory, dest, src, n) /\ called' = <<"memcpy", dest, src, n>>
      BY <2>2 DEF Memcpy
    <3>2. dest \in Nat /\ src \in Nat /\ n \in Nat
      BY MemAssumption
    <3>3. memory' = [a \in DOMAIN memory |->
                       IF a \in dest .. (dest + RunOf("memcpy", dest, src, n) - 1)
                         THEN memory[src + (a - dest)] ELSE memory[a]]
      BY <2>1, <3>1, <3>2, CopyMovesRun
    <3>4. memory' = [a \in DOMAIN was |->
                       IF a \in dest .. (dest + RunOf("memcpy", dest, src, n) - 1)
                         THEN ValueOf("memcpy", src, a - dest) ELSE was[a]]'
      BY <2>1, <3>3 DEF ValueOf, RunOf, WordLoopOnNothing
    <3>5. CalledOnce'
      BY <3>1, <3>4 DEF CalledOnce
    <3>6. QED
      BY <2>1, <3>5 DEF MemInv
  <2>3. CASE Memset
    <3>1. PICK dest \in CopyTo, n \in Lengths :
            memory' = memset(memory, dest, Filler, n) /\ called' = <<"memset", dest, 0, n>>
      BY <2>3 DEF Memset
    <3>2. dest \in Nat /\ n \in Nat
      BY MemAssumption
    <3>3. memory' = [a \in DOMAIN memory |->
                       IF a \in dest .. (dest + RunOf("memset", dest, 0, n) - 1)
                         THEN Filler ELSE memory[a]]
      BY <2>1, <3>1, <3>2, SetMovesRun
    <3>4. memory' = [a \in DOMAIN was |->
                       IF a \in dest .. (dest + RunOf("memset", dest, 0, n) - 1)
                         THEN ValueOf("memset", 0, a - dest) ELSE was[a]]'
      BY <2>1, <3>3 DEF ValueOf, RunOf, WordLoopOnNothing
    <3>5. CalledOnce'
      BY <3>1, <3>4 DEF CalledOnce
    <3>6. QED
      BY <2>1, <3>5 DEF MemInv
  <2>4. QED
    BY <1>2, <2>2, <2>3 DEF MemNext
<1>3. QED
  BY <1>1, <1>2
     DEF LibNext, MemoryCall, PrintfStep, FrameComes, DhcpFrameComes, DisplayStep, ScrollerStep, libVars

LEMMA MemInvariance == LibSpec => []MemInv
BY InitMem, NextMem, PTL DEF LibSpec

\* The smallest of the places n to n + 31 is n.
LEMMA MinOfRun == ASSUME NEW n \in Nat PROVE Min(n .. (n + 31)) = n
<1>1. n \in n .. (n + 31) /\ \A y \in n .. (n + 31) : n <= y
  OBVIOUS
<1>2. \A m \in n .. (n + 31) : (\A y \in n .. (n + 31) : m <= y) => m = n
  BY <1>1
<1>3. QED
  BY <1>1, <1>2 DEF Min

\* The run of a call is in memory, and so is what it is copied from, which no call
\* writes.
LEMMA RunInMemory ==
  ASSUME NEW op \in {"memcpy", "memset"},
         NEW dest \in CopyTo, NEW src \in CopyFrom \union {0}, NEW n \in Lengths,
         op = "memcpy" => src \in CopyFrom
  PROVE  /\ MemSize \in Nat /\ dest \in Nat /\ src \in Nat /\ n \in Nat
         /\ dest + n + 32 <= MemSize
         /\ op = "memcpy" => dest + n + 32 <= src /\ src + n + 32 <= MemSize
         /\ WordLoopOnNothing(op, dest, src, n) => n > 0
<1>1. /\ MemSize \in Nat /\ dest \in Nat /\ src \in Nat /\ n \in Nat
      /\ dest + n + 32 <= MemSize
      /\ op = "memcpy" => dest + n + 32 <= src /\ src + n + 32 <= MemSize
  BY MemAssumption
<1>2. ToAligned(dest) \in 0 .. 3
  BY <1>1, Fours DEF ToAligned
<1>3. QED
  BY <1>1, <1>2 DEF WordLoopOnNothing

LEMMA RunIsAsked ==
  ASSUME MemInv
  PROVE  MovesWhatIsAsked
<1> SUFFICES ASSUME called # << >>
             PROVE  MovesWhatIsAsked
  BY DEF MovesWhatIsAsked
<1>1. PICK op \in {"memcpy", "memset"}, dest \in CopyTo, src \in CopyFrom \union {0}, n \in Lengths :
        /\ op = "memcpy" => src \in CopyFrom
        /\ called = <<op, dest, src, n>>
        /\ memory = [a \in DOMAIN was |->
                       IF a \in dest .. (dest + RunOf(op, dest, src, n) - 1)
                         THEN ValueOf(op, src, a - dest) ELSE was[a]]
  BY DEF MemInv, CalledOnce
<1> DEFINE more == WordLoopOnNothing(op, dest, src, n)
           right(a) == IF op = "memcpy" THEN was[src + a - dest] ELSE Filler
           same == {a \in DOMAIN was : memory[a] = Exactly(op, dest, src, n)[a]}
<1>2. /\ MemSize \in Nat /\ dest \in Nat /\ src \in Nat /\ n \in Nat
      /\ dest + n + 32 <= MemSize
      /\ op = "memcpy" => dest + n + 32 <= src /\ src + n + 32 <= MemSize
      /\ more => n > 0
  BY <1>1, RunInMemory
<1>3. /\ was = [a \in 0 .. (MemSize - 1) |-> a]
      /\ DOMAIN was = 0 .. (MemSize - 1)
      /\ \A a \in DOMAIN was : was[a] = a
  BY DEF MemInv
<1>4. \A a \in DOMAIN was : Exactly(op, dest, src, n)[a] =
        IF a \in dest .. (dest + n - 1) THEN right(a) ELSE was[a]
  BY DEF Exactly
<1>5. \A a \in dest .. (dest + n + 31) : right(a) # was[a] /\ a \in DOMAIN was
  <2>1. SUFFICES ASSUME NEW a \in dest .. (dest + n + 31)
                 PROVE  right(a) # was[a] /\ a \in DOMAIN was
    OBVIOUS
  <2>2. a \in 0 .. (MemSize - 1) /\ was[a] = a
    BY <1>2, <1>3
  <2>3. CASE op = "memcpy"
    <3>1. src + a - dest \in 0 .. (MemSize - 1) /\ src + a - dest # a
      BY <1>2, <2>3
    <3>2. QED
      BY <1>3, <2>2, <2>3, <3>1
  <2>4. CASE op = "memset"
    BY <1>2, <1>3, <2>2, <2>4 DEF Filler
  <2>5. QED
    BY <2>3, <2>4
<1>6. \A a \in DOMAIN was : memory[a] =
        IF a \in dest .. (dest + (IF more THEN n + 32 ELSE n) - 1) THEN right(a) ELSE was[a]
  <2>1. \A a \in Int : src + (a - dest) = src + a - dest
    BY <1>2
  <2>2. \A a \in DOMAIN was : a \in Int
    BY <1>2, <1>3
  <2>3. QED
    BY <1>1, <2>1, <2>2 DEF RunOf, ValueOf
<1>7. n = 0 => memory = was
  BY <1>1, <1>2, <1>3 DEF RunOf, WordLoopOnNothing
<1>8. dest .. (dest + n - 1) \subseteq same
  BY <1>2, <1>3, <1>4, <1>6
<1>9. more => DOMAIN was \ same = (dest + n) .. (dest + n + 31)
  <2> SUFFICES ASSUME more PROVE DOMAIN was \ same = (dest + n) .. (dest + n + 31)
    OBVIOUS
  <2>1. ASSUME NEW a \in DOMAIN was
        PROVE  a \notin same <=> a \in (dest + n) .. (dest + n + 31)
    <3>1. a \in Int /\ dest \in Int /\ n \in Int
      BY <1>2, <1>3
    <3>2. a \in same <=> memory[a] = Exactly(op, dest, src, n)[a]
      OBVIOUS
    <3>3. CASE a \in dest .. (dest + n - 1)
      BY <1>8, <3>1, <3>3
    <3>4. CASE a \in (dest + n) .. (dest + n + 31)
      <4>1. /\ a \in dest .. (dest + n + 31)
            /\ a \in dest .. (dest + (n + 32) - 1)
            /\ a \notin dest .. (dest + n - 1)
        BY <1>2, <3>1, <3>4
      <4>2. memory[a] = right(a) /\ Exactly(op, dest, src, n)[a] = was[a] /\ right(a) # was[a]
        BY <1>4, <1>5, <1>6, <4>1
      <4>3. QED
        BY <3>2, <3>4, <4>2
    <3>5. CASE a \notin dest .. (dest + n - 1) /\ a \notin (dest + n) .. (dest + n + 31)
      <4>1. a \notin dest .. (dest + (n + 32) - 1)
        BY <1>2, <3>1, <3>5
      <4>2. memory[a] = was[a] /\ Exactly(op, dest, src, n)[a] = was[a]
        BY <1>4, <1>6, <3>5, <4>1
      <4>3. QED
        BY <3>2, <3>5, <4>2
    <3>6. QED
      BY <3>3, <3>4, <3>5
  <2>2. (dest + n) .. (dest + n + 31) \subseteq DOMAIN was
    BY <1>2, <1>3
  <2>3. QED
    BY <2>1, <2>2
<1>10. ~more => memory = Exactly(op, dest, src, n)
  <2> SUFFICES ASSUME ~more PROVE memory = Exactly(op, dest, src, n)
    OBVIOUS
  <2>1. \A a \in DOMAIN was : memory[a] = Exactly(op, dest, src, n)[a]
    BY <1>4, <1>6
  <2>2. QED
    BY <1>1, <2>1 DEF Exactly
<1>11. op = "memset" => test_memset(dest, n) = (IF more THEN n ELSE 0)
  <2> SUFFICES ASSUME op = "memset" PROVE test_memset(dest, n) = (IF more THEN n ELSE 0)
    OBVIOUS
  <2> DEFINE wrong == {i \in (0 - dest) .. (MemSize - 1 - dest) :
                         memory[dest + i] # (IF i \in 0 .. (n - 1) THEN Filler ELSE was[dest + i])}
  <2>1. ASSUME NEW i \in (0 - dest) .. (MemSize - 1 - dest)
        PROVE  i \in wrong <=> dest + i \notin same
    <3>1. dest + i \in DOMAIN was /\ i \in Int
      BY <1>2, <1>3
    <3>2. dest + i \in dest .. (dest + n - 1) <=> i \in 0 .. (n - 1)
      BY <1>2, <3>1
    <3>3. QED
      BY <1>4, <3>1, <3>2
  <2>2. more => wrong = n .. (n + 31)
    <3> SUFFICES ASSUME more PROVE wrong = n .. (n + 31)
      OBVIOUS
    <3>1. ASSUME NEW i \in (0 - dest) .. (MemSize - 1 - dest)
          PROVE  i \in wrong <=> i \in n .. (n + 31)
      <4>1. dest + i \in DOMAIN was /\ i \in Int
        BY <1>2, <1>3
      <4>2. dest + i \notin same <=> dest + i \in (dest + n) .. (dest + n + 31)
        BY <1>9, <4>1
      <4>3. dest + i \in (dest + n) .. (dest + n + 31) <=> i \in n .. (n + 31)
        BY <1>2, <4>1
      <4>4. QED
        BY <2>1, <4>2, <4>3
    <3>2. n .. (n + 31) \subseteq (0 - dest) .. (MemSize - 1 - dest)
      BY <1>2
    <3>3. QED
      BY <3>1, <3>2
  <2>3. ~more => wrong = {}
    <3> SUFFICES ASSUME ~more, NEW i \in wrong PROVE FALSE
      OBVIOUS
    <3>1. i \in (0 - dest) .. (MemSize - 1 - dest)
      OBVIOUS
    <3>2. dest + i \in DOMAIN was
      BY <1>2, <1>3, <3>1
    <3>3. dest + i \notin same
      BY <2>1, <3>1
    <3>4. QED
      BY <1>10, <3>2, <3>3
  <2>4. wrong \intersect 0 .. (n - 1) = {}
    BY <1>2, <2>2, <2>3
  <2>5. test_memset(dest, n) = IF wrong # {} THEN Min(wrong) ELSE 0
    BY <2>4 DEF test_memset
  <2>6. n \in n .. (n + 31)
    BY <1>2
  <2> HIDE DEF wrong
  <2>7. QED
    BY <1>2, <2>2, <2>3, <2>5, <2>6, MinOfRun
<1>12. op = "memcpy" => test(dest, src, n) = 0
  <2> SUFFICES ASSUME op = "memcpy", NEW i \in 0 .. (n - 1)
               PROVE  memory[dest + i] = memory[src + i]
    BY DEF test
  <2>1. /\ dest + i \in DOMAIN was /\ src + i \in DOMAIN was
        /\ dest + i \in dest .. (dest + n - 1)
        /\ src + i \notin dest .. (dest + (IF more THEN n + 32 ELSE n) - 1)
        /\ src + (dest + i) - dest = src + i
    BY <1>2, <1>3
  <2>2. memory[src + i] = was[src + i]
    BY <1>6, <2>1
  <2>3. dest + i \in dest .. (dest + (IF more THEN n + 32 ELSE n) - 1)
    BY <1>2, <2>1
  <2>4. QED
    BY <1>6, <2>1, <2>2, <2>3
<1>13. called[1] = op /\ called[2] = dest /\ called[3] = src /\ called[4] = n
  BY <1>1
<1>14. QED
  BY <1>7, <1>8, <1>9, <1>10, <1>11, <1>12, <1>13 DEF MovesWhatIsAsked

\* memcpy() and memset() move the bytes asked for and no others, but for the 32 that a
\* short one moves more, whatever the memory, the alignments and the length
\* (memcpy.c:41-89, memset.c).
THEOREM BytesAreMoved == LibSpec => []MovesWhatIsAsked
BY MemInvariance, RunIsAsked, PTL

-----------------------------------------------------------------------------
(***************************************************************************)
(* The LED matrix and the sensor                                           *)
(***************************************************************************)

Positions == -8 .. (8 * TextLength - 1)

ScrollerInv ==
  /\ position \in Positions /\ shown \in Positions
  /\ picture = display_text(Blank, shown)
  /\ measured \in -1024 .. 1023
  /\ read = libboard_lm75b_get_temp(Register(measured))

LEMMA InitScroller == LibInit => ScrollerInv
<1>1. libboard_lm75b_get_temp(Register(0)) = 0
  BY DEF libboard_lm75b_get_temp, Register
<1>2. QED
  BY <1>1, ScrollerAssumption DEF LibInit, ScrollerInit, ScrollerInv, Positions

LEMMA NextScroller == ScrollerInv /\ [LibNext]_libVars => ScrollerInv'
<1> SUFFICES ASSUME ScrollerInv, [LibNext]_libVars PROVE ScrollerInv'
  OBVIOUS
<1>1. CASE UNCHANGED scrollerVars
  BY <1>1 DEF ScrollerInv, scrollerVars
<1>2. CASE NextPicture
  <2>1. position' \in Positions
    BY <1>2, ScrollerAssumption DEF ScrollerInv, NextPicture, Positions
  <2>2. QED
    BY <1>2, <2>1 DEF ScrollerInv, NextPicture
<1>3. CASE Measure
  BY <1>3, ScrollerAssumption DEF ScrollerInv, Measure
<1>4. QED
  BY <1>1, <1>2, <1>3
     DEF LibNext, MemoryCall, PrintfStep, FrameComes, DhcpFrameComes, DisplayStep, ScrollerStep,
         ScrollerNext, libVars

LEMMA ScrollerInvariance == LibSpec => []ScrollerInv
BY InitScroller, NextScroller, PTL DEF LibSpec

\* A letter drawn at a column of the matrix shows its bits from there on, as many as
\* there is room for, and hides nothing else (scroller.c:251-287).
WithLetter(buffer, c, from, k) ==
  IF (k \div 8) - from \in 0 .. 7 THEN <<c, k % 8, (k \div 8) - from>> ELSE buffer[k]

LEMMA LetterDrawn ==
  ASSUME NEW buffer, NEW c, NEW from \in -7 .. 15, NEW k \in Places
  PROVE  display_char(buffer, c, from)[k] = WithLetter(buffer, c, from, k)
<1> DEFINE col == k \div 8
<1>1. col \in 0 .. 7
  BY DEF Places
<1>2. /\ Max({0, -from}) = IF from <= 0 THEN -from ELSE 0
      /\ Max({0, from}) = IF from >= 0 THEN from ELSE 0
  <2>1. Max({0, -from}) = IF 0 >= -from THEN 0 ELSE -from
    BY MaxOfTwo
  <2>2. Max({0, from}) = IF 0 >= from THEN 0 ELSE from
    BY MaxOfTwo
  <2>3. QED
    BY <2>1, <2>2
<1>3. display_char(buffer, c, from)[k] =
        IF col \in Max({0, from}) .. ((IF from < 0 THEN 8 + from ELSE 8) - 1)
          THEN <<c, k % 8, col + Max({0, -from}) - Max({0, from})>> ELSE buffer[k]
  BY DEF display_char
<1> HIDE DEF col
<1>4. col - from \in 0 .. 7
        <=> col \in Max({0, from}) .. ((IF from < 0 THEN 8 + from ELSE 8) - 1)
  BY <1>1, <1>2
<1>5. col + Max({0, -from}) - Max({0, from}) = col - from
  BY <1>1, <1>2
<1>6. QED
  BY <1>3, <1>4, <1>5 DEF col, WithLetter

LEMMA TextDrawn ==
  ASSUME NEW p \in Positions, NEW k \in Places
  PROVE  display_text(Blank, p)[k] =
           IF p + (k \div 8) < 0 THEN Off
             ELSE <<((p + (k \div 8)) \div 8) % TextLength, k % 8, (p + (k \div 8)) % 8>>
<1> DEFINE col == k \div 8
           row == k % 8
           q == Quotient(p, 8)
           r == Remainder(p, 8)
           next == IF q + 1 >= TextLength THEN 0 ELSE q + 1
           one == IF q >= 0 THEN display_char(Blank, q, -r) ELSE Blank
<1>1. display_text(Blank, p) =
        IF next >= 0 /\ r # 0 THEN display_char(one, next, 8 - r) ELSE one
  BY DEF display_text
<1>2. Blank[k] = Off
  BY DEF Blank
<1>3. TextLength \in Nat /\ TextLength > 0 /\ p \in Int
  BY ScrollerAssumption DEF Positions
<1>0. col \in 0 .. 7
  BY DEF Places
\* How the lemma is used: for a column from that is a name.
<1>4. ASSUME NEW buffer, NEW c, NEW from \in -7 .. 15
      PROVE  display_char(buffer, c, from)[k] =
               IF col - from \in 0 .. 7 THEN <<c, row, col - from>> ELSE buffer[k]
  <2>1. display_char(buffer, c, from)[k] = WithLetter(buffer, c, from, k)
    BY LetterDrawn
  <2>2. QED
    BY <2>1 DEF WithLetter
<1> HIDE DEF col, row
<1>5. CASE p = -8
  <2>1. q = -1 /\ r = 0
    BY <1>5 DEF Quotient, Remainder
  <2>2. display_text(Blank, p)[k] = Off /\ p + col < 0
    BY <1>0, <1>1, <1>2, <1>5, <2>1
  <2>3. QED
    BY <2>2 DEF col
<1>6. CASE p \in -7 .. -1
  <2> DEFINE f == -p
             g == 8 - p
  <2>1. q = 0 /\ r = p
    BY <1>6 DEF Quotient, Remainder
  <2>2. next \in Nat
    BY <1>3, <2>1
  <2>3. display_text(Blank, p) = display_char(display_char(Blank, 0, f), next, g)
    BY <1>1, <1>6, <2>1, <2>2
  <2>4. f \in -7 .. 15 /\ g \in -7 .. 15 /\ col - f = col + p /\ ~ (col - g \in 0 .. 7)
    BY <1>0, <1>6
  <2> HIDE DEF f, g, next
  <2>5. display_text(Blank, p)[k] = display_char(Blank, 0, f)[k]
    <3> DEFINE first == display_char(Blank, 0, f)
    <3>1. display_text(Blank, p) = display_char(first, next, g)
      BY <2>3
    <3> HIDE DEF first
    <3>2. display_char(first, next, g)[k] = IF col - g \in 0 .. 7 THEN <<next, row, col - g>> ELSE first[k]
      BY <1>4, <2>4
    <3>3. display_text(Blank, p)[k] = first[k]
      BY <2>4, <3>1, <3>2
    <3>4. QED
      BY <3>3 DEF first
  <2>6. display_char(Blank, 0, f)[k] = IF col - f \in 0 .. 7 THEN <<0, row, col - f>> ELSE Blank[k]
    BY <1>4, <2>4
  <2>7. p + col >= 0 => /\ p + col \in 0 .. 7
                        /\ ((p + col) \div 8) % TextLength = 0 /\ (p + col) % 8 = p + col
    <3>1. p + col \in -7 .. 6
      BY <1>0, <1>6
    <3>2. p + col >= 0 => (p + col) \div 8 = 0 /\ (p + col) % 8 = p + col
      BY <3>1
    <3>3. 0 % TextLength = 0
      BY <1>3
    <3>4. QED
      BY <3>1, <3>2, <3>3
  <2>8. CASE p + col >= 0
    <3>1. col - f = p + col /\ col - f \in 0 .. 7
      BY <1>0, <1>6, <2>4, <2>7, <2>8
    <3>2. display_text(Blank, p)[k] = <<0, row, p + col>>
      BY <2>5, <2>6, <3>1
    <3>3. /\ ~ (p + col < 0)
          /\ <<((p + col) \div 8) % TextLength, row, (p + col) % 8>> = <<0, row, p + col>>
      BY <1>0, <1>6, <2>7, <2>8
    <3>4. QED
      BY <3>2, <3>3 DEF col, row
  <2>9. CASE p + col < 0
    <3>1. ~ (col - f \in 0 .. 7)
      BY <1>0, <1>6, <2>4, <2>9
    <3>2. QED
      BY <1>2, <2>5, <2>6, <2>9, <3>1 DEF col
  <2>10. QED
    BY <1>0, <1>3, <2>8, <2>9
<1>7. CASE p >= 0
  <2>1. q \in 0 .. (TextLength - 1) /\ r \in 0 .. 7 /\ p = 8 * q + r
    <3>1. q = p \div 8 /\ r = p - 8 * q
      BY <1>3, <1>7 DEF Quotient, Remainder
    <3>2. p \div 8 \in Nat /\ p - 8 * (p \div 8) \in 0 .. 7 /\ p < 8 * TextLength
      BY <1>3, <1>7 DEF Positions
    <3> HIDE DEF q, r
    <3>3. QED
      BY <1>3, <3>1, <3>2
  <2> HIDE DEF q, r
  <2> DEFINE f == -r
             g == 8 - r
  <2>2. next \in Nat /\ (q + 1) % TextLength = next /\ q % TextLength = q
    BY <1>3, <2>1
  <2>3. one = display_char(Blank, q, f)
    BY <2>1
  <2>4. f \in -7 .. 15 /\ g \in -7 .. 15 /\ col - f = col + r /\ col - g = col + r - 8
    BY <1>0, <2>1
  <2>5. display_text(Blank, p) = IF r # 0 THEN display_char(one, next, g) ELSE one
    BY <1>1, <2>2
  <2> HIDE DEF f, g, next, one
  <2>6. one[k] = IF col - f \in 0 .. 7 THEN <<q, row, col - f>> ELSE Blank[k]
    BY <1>4, <2>3, <2>4
  <2>7. display_char(one, next, g)[k] =
          IF col - g \in 0 .. 7 THEN <<next, row, col - g>> ELSE one[k]
    BY <1>4, <2>4
  <2>8. CASE col + r <= 7
    <3>1. (p + col) \div 8 = q /\ (p + col) % 8 = col + r /\ p + col >= 0
      BY <1>0, <2>1, <2>8
    <3>2. ~ (col - g \in 0 .. 7) /\ col - f \in 0 .. 7
      BY <1>0, <2>1, <2>4, <2>8
    <3>3. display_text(Blank, p)[k] = <<q, row, col + r>>
      BY <2>4, <2>5, <2>6, <2>7, <3>2
    <3>4. QED
      BY <2>2, <3>1, <3>3, <1>0, <1>3 DEF col, row
  <2>9. CASE col + r > 7
    <3>1. (p + col) \div 8 = q + 1 /\ (p + col) % 8 = col + r - 8 /\ p + col >= 0
      BY <1>0, <2>1, <2>9
    <3>2. r # 0 /\ col - g \in 0 .. 7
      BY <1>0, <2>1, <2>4, <2>9
    <3>3. display_text(Blank, p)[k] = <<next, row, col + r - 8>>
      BY <2>4, <2>5, <2>7, <3>2
    <3>4. QED
      BY <2>2, <3>1, <3>3, <1>0, <1>3 DEF col, row
  <2>10. QED
    BY <1>0, <2>1, <2>8, <2>9
<1>8. QED
  BY <1>3, <1>5, <1>6, <1>7 DEF Positions

\* The matrix is a window over the text at every position, for every length of the
\* text: the part of DevicesAgree that is about scroller.c:290-330.
THEOREM TextGoesBy == LibSpec => []MatrixShowsText
<1>1. ScrollerInv => MatrixShowsText
  <2> SUFFICES ASSUME ScrollerInv, NEW col \in 0 .. 7, NEW row \in 0 .. 7
               PROVE  picture[8 * col + row] =
                        IF shown + col < 0 THEN Off
                          ELSE <<((shown + col) \div 8) % TextLength, row, (shown + col) % 8>>
    BY DEF MatrixShowsText
  <2> DEFINE k == 8 * col + row
  <2>1. k \in Places /\ k \div 8 = col /\ k % 8 = row
    <3>1. k \in 0 .. 63
      OBVIOUS
    <3>2. k \div 8 = col
      OBVIOUS
    <3>3. k % 8 = row
      OBVIOUS
    <3>4. QED
      BY <3>1, <3>2, <3>3 DEF Places
  <2>2. shown \in Positions /\ picture = display_text(Blank, shown)
    BY DEF ScrollerInv
  <2> HIDE DEF k
  <2>3. display_text(Blank, shown)[k] =
          IF shown + (k \div 8) < 0 THEN Off
            ELSE <<((shown + (k \div 8)) \div 8) % TextLength, k % 8, (shown + (k \div 8)) % 8>>
    BY <2>1, <2>2, TextDrawn
  <2>4. QED
    BY <2>1, <2>2, <2>3 DEF k
<1>2. QED
  BY <1>1, ScrollerInvariance, PTL

\* What the driver makes of a temperature of m eighths of a degree.
WholeDegrees(m) == m \div 8 + (IF m < 0 THEN 8192 ELSE 0)

LEMMA EveryTemperature ==
  ASSUME NEW m \in -1024 .. 1023
  PROVE  libboard_lm75b_get_temp(Register(m)) = WholeDegrees(m)
<1> DEFINE w == m % 2048
<1>1. w = IF m < 0 THEN m + 2048 ELSE m
  OBVIOUS
<1>2. w \in 0 .. 2047
  BY <1>1
<1> HIDE DEF w
<1>3. /\ Register(m)[1] = (w * 32) \div 256
      /\ Register(m)[2] = (w * 32) % 256
  BY DEF Register, w
<1>4. ((w * 32) \div 256) * 8 + ((w * 32) % 256) \div 32 = w
  BY <1>2
<1>5. (w \div 1024) % 2 = 1 <=> m < 0
  BY <1>1, <1>2
<1>6. libboard_lm75b_get_temp(Register(m)) =
        (IF m < 0 THEN (w % 2048) + 63488 ELSE w) \div 8
  BY <1>3, <1>4, <1>5 DEF libboard_lm75b_get_temp
<1>7. w % 2048 = w
  BY <1>2
<1>8. QED
  BY <1>1, <1>6, <1>7 DEF WholeDegrees

\* Every temperature of the sensor's range that is not below 0 is read in whole degrees:
\* the part of DevicesAgree that is about lm75b.c:42-57.  Of those below 0, which
\* EveryTemperature shows 8192 too high, it says nothing: see DocNegativeIsRead.
THEOREM TemperatureRead == LibSpec => []TemperatureIsRead
<1>1. ScrollerInv => TemperatureIsRead
  <2> SUFFICES ASSUME ScrollerInv PROVE TemperatureIsRead
    OBVIOUS
  <2>1. measured \in -1024 .. 1023 /\ read = libboard_lm75b_get_temp(Register(measured))
    BY DEF ScrollerInv
  <2>2. libboard_lm75b_get_temp(Register(measured)) = WholeDegrees(measured)
    BY <2>1, EveryTemperature
  <2>3. QED
    BY <2>1, <2>2 DEF TemperatureIsRead, WholeDegrees
<1>2. QED
  BY <1>1, ScrollerInvariance, PTL
=============================================================================
