-------------------------------- MODULE Mmio --------------------------------
(***************************************************************************)
(* Memory-mapped registers, and the accesses C code makes to them.         *)
(*                                                                         *)
(* A register is <<name, instance>>; its value is the set of its bits that *)
(* are 1, or {v} for a register that holds a number v.  The code of a      *)
(* driver function is a sequence of accesses.  "r |= v" and "r &= ~v" are  *)
(* a load and, later, a store: an interrupt may fall in between.  What a   *)
(* store does depends on the register: some clear or set the bits written  *)
(* as 1, and the GPIO ports only let the bits through that FIOMASK lacks.  *)
(***************************************************************************)
EXTENDS Integers, Sequences

\* Bits 0 to 31 of a register.
Word == 0 .. 31

\* The bits of the number v, len of them, shifted left by pos.
BitsOf(v, pos, len) == {pos + k : k \in {j \in 0 .. len - 1 : (v \div 2^j) % 2 = 1}}

-----------------------------------------------------------------------------
\* r = v
St(r, v) == [op |-> "store", r |-> r, clr |-> {}, set |-> v, n |-> 0]

\* r |= v and r &= ~v
Or(r, v)     == [op |-> "modify", r |-> r, clr |-> {}, set |-> v, n |-> 0]
AndNot(r, v) == [op |-> "modify", r |-> r, clr |-> v, set |-> {}, n |-> 0]

\* r = (r & ~clr) | set
Change(r, clr, set) == [op |-> "modify", r |-> r, clr |-> clr, set |-> set, n |-> 0]

\* if (r & (1 << b)) { the next n accesses }
If(r, b, n) == [op |-> "if", r |-> r, clr |-> {b}, set |-> {}, n |-> n]

\* the end of a "then" branch: the next n accesses are its "else"
Else(n) == [op |-> "else", r |-> <<"none", 0>>, clr |-> {}, set |-> {}, n |-> n]

\* while (! (r & (1 << b))); and while (r & (1 << b));
Wait(r, b)    == [op |-> "wait", r |-> r, clr |-> {b}, set |-> {}, n |-> 0]
WaitOff(r, b) == [op |-> "wait", r |-> r, clr |-> {}, set |-> {b}, n |-> 0]

\* RFLPC_SET_BITS_VAL(): the field is cleared by one access and set by another.
Field(r, pos, len, v) == <<AndNot(r, pos .. pos + len - 1), Or(r, BitsOf(v, pos, len))>>

-----------------------------------------------------------------------------
\* The storage behind a register: FIOSET and FIOCLR act on the port, ICER on the
\* set of enabled interrupts.
Cell(r) ==
  CASE r[1] \in {"FIOSET", "FIOCLR", "FIOPIN"} -> <<"FIOPIN", r[2]>>
    [] r[1] \in {"ISER", "ICER"} -> <<"ISER", r[2]>>
    [] OTHER -> r

\* m maps the cells that are not 0.
At(m, c) == IF c \in DOMAIN m THEN m[c] ELSE {}

Put(m, c, v) ==
  [x \in (DOMAIN m \ {c}) \union (IF v = {} THEN {} ELSE {c}) |->
     IF x = c THEN v ELSE m[x]]

Load(m, r) ==
  CASE r[1] = "FIOCLR" -> {}
    [] r[1] = "FIOPIN" -> At(m, Cell(r)) \ At(m, <<"FIOMASK", r[2]>>)
    [] OTHER -> At(m, Cell(r))

\* A PLL0 register change takes effect when the two words of a feed follow each
\* other: PLL0STAT then shows bits 0 and 1 of PLL0CON at 24 and 25, and loses the
\* lock, bit 26, when the PLL is off.
Feed(m, v) ==
  IF v = {85} /\ At(m, <<"PLL0FEED", 0>>) = {170}
    THEN Put(Put(m, <<"PLL0FEED", 0>>, v), <<"PLL0STAT", 0>>,
             {24 + b : b \in At(m, <<"PLL0CON", 0>>)}
               \union (IF 0 \in At(m, <<"PLL0CON", 0>>)
                        THEN At(m, <<"PLL0STAT", 0>>) \intersect {26} ELSE {}))
    ELSE Put(m, <<"PLL0FEED", 0>>, v)

Stored(m, r, v) ==
  LET old == At(m, Cell(r))
      through == v \ At(m, <<"FIOMASK", r[2]>>)
      new ==
        CASE r[1] = "FIOSET" -> old \union through
          [] r[1] = "FIOCLR" -> old \ through
          [] r[1] = "FIOPIN" -> (old \intersect At(m, <<"FIOMASK", r[2]>>)) \union through
          [] r[1] = "ISER"   -> old \union v
          [] r[1] \in {"ICER", "IR"} -> old \ v
          [] r[1] = "RICTRL" -> (v \ {0}) \union (IF 0 \in v THEN {} ELSE old \intersect {0})
          [] r[1] \in {"THR", "RBR", "DR", "DMACIntTCClear", "DMACIntErrClr", "IntClear", "none"} -> {}
          [] OTHER -> v
      enabled == <<"DMACEnbldChns", 0>>
  IN CASE r[1] = "PLL0FEED" -> Feed(m, v)
       [] r[1] = "MWTD" -> Put(Put(m, r, v), <<"MIND", 0>>, {0})
       [] r[1] = "MCMD" /\ 0 \in v -> Put(Put(m, r, v), <<"MIND", 0>>, {0, 2})
       [] r[1] = "Config" -> Put(Put(m, r, v), enabled,
                                 IF 0 \in v THEN At(m, enabled) \union {r[2]}
                                            ELSE At(m, enabled) \ {r[2]})
       [] OTHER -> Put(m, Cell(r), new)

-----------------------------------------------------------------------------
\* A processor context: the access it is at, and << >> or <<the value loaded>>.
Start == [i |-> 1, l |-> << >>]

Over(code, x) == x.i > Len(code)

\* A wait goes on until its bit is as awaited: it is read again.
Waits(a, m) ==
  LET now == Load(m, a.r)
  IN a.op = "wait" /\ ~(a.clr \subseteq now /\ a.set \intersect now = {})

\* One access of a context: where it is then, and the memory it leaves.
Moved(code, x, m) ==
  LET a == code[x.i]
  IN CASE Waits(a, m) -> x
       [] a.op = "modify" /\ x.l = << >> -> [x EXCEPT !.l = <<Load(m, a.r)>>]
       [] a.op = "else" \/ (a.op = "if" /\ ~(a.clr \subseteq Load(m, a.r))) ->
            [i |-> x.i + 1 + a.n, l |-> << >>]
       [] OTHER -> [i |-> x.i + 1, l |-> << >>]

Left(code, x, m) ==
  LET a == code[x.i]
  IN CASE a.op = "store" -> Stored(m, a.r, a.set)
       [] a.op = "modify" /\ x.l # << >> -> Stored(m, a.r, (x.l[1] \ a.clr) \union a.set)
       [] OTHER -> m

\* The bits that differ between two memories.
Diff(a, b) ==
  UNION {{c} \X ((At(a, c) \ At(b, c)) \union (At(b, c) \ At(a, c))) : c \in DOMAIN a \union DOMAIN b}
=============================================================================
