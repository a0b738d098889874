------------------------------- MODULE MCIap --------------------------------
(* Small flashes for FlashSample: every range at once, or a few of them twice. *)
EXTENDS FlashSample

AllWrites == {<<d, l>> \in (0 .. (FlashEnd - 1)) \X (0 .. FlashEnd) : d + l <= FlashEnd}

\* Inside a sector, on a whole one, nothing at all, across two, over three, into
\* a large one, inside a large one; and less than a word at a word's boundary, inside
\* a sector, at its end, and as the rest of two sectors.
SomeWrites == {<<1, 2>>, <<6, 6>>, <<8, 0>>, <<3, 12>>, <<14, 8>>, <<20, 4>>,
               <<2, 1>>, <<10, 1>>, <<3, 4>>}
=============================================================================
