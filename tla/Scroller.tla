------------------------------ MODULE Scroller ------------------------------
(***************************************************************************)
(* The text that goes by on the LED matrix of samples/spi-leds, and the    *)
(* temperature samples/i2c-test-mbed-board reads from its sensor.          *)
(*                                                                         *)
(* A picture has 64 places; place 8 * column + row is <<letter, row, bit>>, *)
(* the bit of the font it shows, or Off.  Every bit of the font is lit.    *)
(***************************************************************************)
EXTENDS Integers, Sequences, FiniteSetsExt

CONSTANTS
  TextLength,   \* letters of the text: 12 in the sample
  Temperatures  \* what the sensor measures, in eighths of a degree

\* A text, and temperatures of 11 bits.
ASSUME ScrollerAssumption ==
  TextLength \in Nat \ {0} /\ Temperatures \subseteq -1024 .. 1023

VARIABLES
  position,  \* c, the argument of the next display_text()
  picture,   \* pic
  shown,     \* history: the position picture was drawn for
  measured,  \* history: what the sensor measured last
  read       \* what libboard_lm75b_get_temp() returned for it

scrollerVars == <<position, picture, shown, measured, read>>

Off == << >>
Places == 0 .. 63
Blank == [k \in Places |-> Off]

\* The division of C, towards 0, and its remainder.
Quotient(a, b)  == IF a < 0 THEN -((-a) \div b) ELSE a \div b
Remainder(a, b) == a - b * Quotient(a, b)

display_char(buffer, c, led_column) ==
  LET char_start == Max({0, -led_column})
      led_stop   == IF led_column < 0 THEN 8 + led_column ELSE 8
      first      == Max({0, led_column})
      row(k) == k % 8
      bit(k) == (k \div 8) + char_start - first
  IN [k \in Places |-> IF k \div 8 \in first .. (led_stop - 1) THEN <<c, row(k), bit(k)>> ELSE buffer[k]]

\* A letter, and the one after it or the first again.
display_text(buffer, place) ==
  LET letter1 == Quotient(place, 8)
      letter2 == IF letter1 + 1 >= TextLength THEN 0 ELSE letter1 + 1
      in1     == Remainder(place, 8)
      one     == IF letter1 >= 0 THEN display_char(buffer, letter1, -in1) ELSE buffer
  IN IF letter2 >= 0 /\ in1 # 0 THEN display_char(one, letter2, 8 - in1) ELSE one

\* libboard_lm75b_get_temp(): the two bytes of the register, 11 bits at the top, are
\* put together in a uint16_t.
Register(eighths) == LET word == (eighths % 2048) * 32 IN <<word \div 256, word % 256>>

libboard_lm75b_get_temp(r) ==
  LET raw == r[1] * 8 + r[2] \div 32
      temp == IF (raw \div 1024) % 2 = 1 THEN (raw % 2048) + 63488 ELSE raw
  IN temp \div 8

ScrollerInit ==
  /\ position = 0 /\ shown = 0
  /\ picture = display_text(Blank, 0)
  /\ measured = 0 /\ read = 0

\* c++, and back to the right of the matrix after the last letter
NextPicture ==
  /\ picture' = display_text(Blank, position)
  /\ shown' = position
  /\ position' = IF position + 1 = 8 * TextLength THEN -8 ELSE position + 1
  /\ UNCHANGED <<measured, read>>

Measure ==
  /\ position = 0
  /\ measured' \in Temperatures
  /\ read' = libboard_lm75b_get_temp(Register(measured'))
  /\ UNCHANGED <<position, picture, shown>>

ScrollerNext == NextPicture \/ Measure

-----------------------------------------------------------------------------
\* The matrix is a window of 8 columns over the text, which follows itself: it shows
\* the columns from shown on, and nothing left of the text (scroller.c:290-330).
MatrixShowsText ==
  \A column \in 0 .. 7, row \in 0 .. 7 :
    LET x == shown + column
    IN picture[8 * column + row] =
         IF x < 0 THEN Off ELSE <<(x \div 8) % TextLength, row, x % 8>>

\* The value read is the temperature in whole degrees, rounded down, when it is not below
\* 0 (lm75b.c:42-57).
TemperatureIsRead == measured >= 0 => read = measured \div 8

\* lm75b.c:47-49, 52 "T(C) = -(2's complement of temp) x 0.125", "negative value, extend
\* the sign bits": below 0 too the value read is within a degree of the temperature.
DocNegativeIsRead == 8 * read \in (measured - 7) .. (measured + 7)
=============================================================================
