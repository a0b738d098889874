------------------------------- MODULE Library -------------------------------
(***************************************************************************)
(* The parts of the library and of the samples that neither share state    *)
(* with another part nor depend on when an interrupt comes: each behaviour *)
(* is of one of them.                                                      *)
(***************************************************************************)
EXTENDS MemOps, Formats, DhcpFrames, Lcd, Scroller

VARIABLE subject  \* the part that runs: "ring" is none of these, but that of Parts

libVars == <<subject, memVars, fmtVars, replyVars, dhcpFrameVars, lcdVars, scrollerVars>>

\* The parts that do not run stay as one of their initial states is.
LibInit ==
  /\ subject \in {"memory", "printf", "replies", "dhcp", "lcd", "scroller", "ring"}
  /\ MemInit /\ FmtInit /\ ReplyInit /\ DhcpFramesInit /\ LcdInit /\ ScrollerInit
  /\ subject # "replies" => sample = "ethernet" /\ txbuffers[1] = 0

MemoryCall ==
  /\ subject = "memory" /\ MemNext
  /\ UNCHANGED <<subject, fmtVars, replyVars, dhcpFrameVars, lcdVars, scrollerVars>>
PrintfStep ==
  /\ subject = "printf" /\ FmtNext
  /\ UNCHANGED <<subject, memVars, replyVars, dhcpFrameVars, lcdVars, scrollerVars>>
FrameComes ==
  /\ subject = "replies" /\ ReplyNext
  /\ UNCHANGED <<subject, memVars, fmtVars, dhcpFrameVars, lcdVars, scrollerVars>>
DhcpFrameComes ==
  /\ subject = "dhcp" /\ DhcpFramesNext
  /\ UNCHANGED <<subject, memVars, fmtVars, replyVars, lcdVars, scrollerVars>>
DisplayStep ==
  /\ subject = "lcd" /\ LcdNext
  /\ UNCHANGED <<subject, memVars, fmtVars, replyVars, dhcpFrameVars, scrollerVars>>
ScrollerStep ==
  /\ subject = "scroller" /\ ScrollerNext
  /\ UNCHANGED <<subject, memVars, fmtVars, replyVars, dhcpFrameVars, lcdVars>>

LibNext == MemoryCall \/ PrintfStep \/ FrameComes \/ DhcpFrameComes \/ DisplayStep \/ ScrollerStep

LibSpec == LibInit /\ [][LibNext]_libVars

-----------------------------------------------------------------------------
\* The frames the samples send answer those that came in, byte by byte
\* (ethernet/main.c:130-229, simple_udp/main.c:54-89, dhcp/main.c:63-274).
FramesAreRight ==
  (subject = "replies" => RepliesAreValid) /\ (subject = "dhcp" => DhcpFramesAreRight)

\* What the samples' devices show and measure is what the program has, however slow the
\* device: the serial display the caller's buffer, the LED matrix the text as it goes
\* by, the sensor's bytes the temperature (nhd_spi_lcd.c:77-104, scroller.c:290-330,
\* lm75b.c:42-57).
DevicesAgree ==
  /\ subject = "lcd" => LcdShowsBuffer
  /\ subject = "scroller" => MatrixShowsText /\ TemperatureIsRead
=============================================================================
