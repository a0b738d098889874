--------------------------------- MODULE Lcd ---------------------------------
(***************************************************************************)
(* The serial LCD (external_libs/nhd_spi_lcd) behind the SPI driver.  The  *)
(* processor fills the transmit FIFO, the SSP shifts frames out of it at   *)
(* its own pace, and the display tells commands from data by the level of  *)
(* a pin, A0, at the end of a frame: the processor must not touch the pin, *)
(* nor the chip select, while frames are under way.                        *)
(***************************************************************************)
EXTENDS Integers, Sequences, SequencesExt

CONSTANTS
  Pages, Width,  \* the display: pages of 8 lines, columns
  FifoSize       \* frames the SSP holds: 8 in the chip

VARIABLES
  step,      \* the accesses the program has made
  a0, cs,    \* the pins; the chip is selected when cs is low
  fifo,      \* the SSP's transmit FIFO
  shifting,  \* << >>, or the frame being shifted out
  page, column,  \* where the display writes the next byte of data
  pixels     \* the display's memory

lcdVars == <<step, a0, cs, fifo, shifting, page, column, pixels>>

Data(v)    == [op |-> "write", kind |-> "data", val |-> v]
Command(c) == [op |-> "write", kind |-> c[1], val |-> c[2]]
A0(v)      == [op |-> "a0", val |-> v]
Select     == [op |-> "cs", val |-> FALSE]
Deselect   == [op |-> "cs", val |-> TRUE]
Idle       == [op |-> "idle"]

\* Mutant: the command is not waited for.
LcdCmdNoWait(c) == <<A0(FALSE), Select, Command(c), Deselect>>

_lcd_cmd(c) == <<A0(FALSE), Select, Command(c), Idle, Deselect>>
_lcd_multiple_data(bytes) ==
  <<A0(TRUE), Select>> \o [i \in DOMAIN bytes |-> Data(bytes[i])] \o <<Idle, Deselect>>
_lcd_single_data(byte) == _lcd_multiple_data(<<byte>>)

\* The page, both halves of the column, the line: four commands.
LCD_START_PAGE(p) ==
  _lcd_cmd(<<"page", p>>) \o _lcd_cmd(<<"column_high", 0>>) \o _lcd_cmd(<<"column_low", 0>>)
    \o _lcd_cmd(<<"line", 0>>)

\* Off, the resistor ratio, the direction, the power, on, all pixels off: none of them
\* moves the display's cursor.
nhd_spi_lcd_init ==
  FlattenSeq([i \in 1 .. 6 |-> _lcd_cmd(<<"setting", i>>)]) \o LCD_START_PAGE(0)

nhd_spi_lcd_clear ==
  FlattenSeq([p \in 1 .. Pages |->
    LCD_START_PAGE(p - 1) \o FlattenSeq([i \in 1 .. Width |-> _lcd_single_data(0)])])

\* The byte of the caller's buffer for each place of the display.
Image(p, c) == 1 + p * Width + c

nhd_spi_lcd_display_buffer ==
  FlattenSeq([p \in 1 .. Pages |->
    LCD_START_PAGE(p - 1) \o _lcd_multiple_data([c \in 1 .. Width |-> Image(p - 1, c - 1)])])

\* What a program does: main of samples/nhd_spi_lcd, with a clear after the first image
\* and another image.
Script == nhd_spi_lcd_init \o nhd_spi_lcd_display_buffer \o nhd_spi_lcd_clear
            \o nhd_spi_lcd_display_buffer

Cleared == Len(nhd_spi_lcd_init \o nhd_spi_lcd_display_buffer \o nhd_spi_lcd_clear)
Shown   == {Len(nhd_spi_lcd_init \o nhd_spi_lcd_display_buffer), Len(Script)}

\* After the reset: A0 low, the chip not selected, anything in the memory.  Its columns
\* go on past those that are seen, and the cursor stays on the last one.
LcdInit ==
  /\ step = 0
  /\ a0 = FALSE /\ cs = TRUE
  /\ fifo = << >> /\ shifting = << >>
  /\ page = 0 /\ column = 0
  /\ pixels = [p \in 0 .. (Pages - 1) |-> [c \in 0 .. Width |-> -1]]

Access == Script[step + 1]

SetA0 == Access.op = "a0" /\ a0' = Access.val /\ UNCHANGED <<cs, fifo>>
SetCs == Access.op = "cs" /\ cs' = Access.val /\ UNCHANGED <<a0, fifo>>

\* rflpc_spi_write(): the processor waits while the FIFO is full.
rflpc_spi_write ==
  /\ Access.op = "write"
  /\ Len(fifo) < FifoSize
  /\ fifo' = Append(fifo, Access)
  /\ UNCHANGED <<a0, cs>>

\* rflpc_spi_idle(): the busy bit falls when nothing is in the FIFO nor under way.
rflpc_spi_idle ==
  /\ Access.op = "idle"
  /\ fifo = << >> /\ shifting = << >>
  /\ UNCHANGED <<a0, cs, fifo>>

Processor ==
  /\ step < Len(Script)
  /\ SetA0 \/ SetCs \/ rflpc_spi_write \/ rflpc_spi_idle
  /\ step' = step + 1
  /\ UNCHANGED <<shifting, page, column, pixels>>

ShiftStarts ==
  /\ fifo # << >> /\ shifting = << >>
  /\ shifting' = <<Head(fifo)>>
  /\ fifo' = Tail(fifo)
  /\ UNCHANGED <<step, a0, cs, page, column, pixels>>

\* The display has the frame, as A0 says, if it is still selected.
ShiftEnds ==
  /\ shifting # << >>
  /\ shifting' = << >>
  /\ LET f == shifting[1]
     IN CASE cs -> UNCHANGED <<page, column, pixels>>
          [] a0 -> /\ pixels' = [pixels EXCEPT ![page][column] = f.val]
                   /\ column' = IF column = Width THEN column ELSE column + 1
                   /\ UNCHANGED page
          [] f.kind = "page" -> page' = f.val /\ UNCHANGED <<column, pixels>>
          [] f.kind \in {"column_high", "column_low"} -> column' = f.val /\ UNCHANGED <<page, pixels>>
          [] OTHER -> UNCHANGED <<page, column, pixels>>
  /\ UNCHANGED <<step, a0, cs, fifo>>

LcdNext == Processor \/ ShiftStarts \/ ShiftEnds

-----------------------------------------------------------------------------
Showing(byte(_, _)) == \A p \in 0 .. (Pages - 1), c \in 0 .. (Width - 1) : pixels[p][c] = byte(p, c)

\* When nhd_spi_lcd_display_buffer() returns the display shows the buffer, and when
\* nhd_spi_lcd_clear() returns it is blank: every frame was taken for what it is, at
\* the place it is for, however late the SSP was (nhd_spi_lcd.c:77-104, 174-197).
LcdShowsBuffer ==
  /\ step \in Shown => Showing(Image)
  /\ step = Cleared => Showing(LAMBDA p, c : 0)
=============================================================================
