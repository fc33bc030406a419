--------------------------------- MODULE Vga ---------------------------------
(***************************************************************************)
(* The display memory of src/recomp/runtime16.c: the four planes of Mode X *)
(* with the map mask, the latches and the write mode, the flat window of   *)
(* mode 13h, the CRTC's start address and row width, and the picture       *)
(* vga_frame composes of them.                                             *)
(*                                                                         *)
(* A byte written in Mode X is stored once in every plane of the map mask; *)
(* a read loads a byte of every plane into the latches, and in write mode  *)
(* 1 it is they that are stored.  Pixel x of a row is in plane x % 4.  The *)
(* index and data halves of a register write are one step, as a 16-bit OUT *)
(* makes them; the start address is two registers, and two steps.          *)
(*                                                                         *)
(* Left out: the palette, the timer chip, and the byte a read answers.     *)
(***************************************************************************)
EXTENDS Integers

CONSTANTS
  Planes,    \* 4
  Depth,     \* bytes in a plane: 2^16
  Radix,     \* 2^8: values of a CRTC register
  RowBytes,  \* bytes of a row in one plane: VGA_W / 4
  Rows,      \* VGA_H
  Colour,    \* what a byte can be
  Black,     \* 0
  Masks      \* map masks the game sets, as sets of planes

Plane == 0 .. Planes - 1
Addr == 0 .. Depth - 1
Pixel == (0 .. Planes * RowBytes - 1) \X (0 .. Rows - 1)

ASSUME VgaAssumption ==
  /\ Planes \in Nat \ {0} /\ Depth \in Nat \ {0} /\ Radix \in Nat \ {0}
  /\ RowBytes \in Nat \ {0} /\ Rows \in Nat \ {0}
  /\ Black \in Colour /\ Masks \subseteq SUBSET Plane

VARIABLES
  planes,     \* g_plane
  flat,       \* cpu->mem from VGA_BASE, the part on the screen
  chain4,     \* g_chain4
  mapMask,    \* g_map_mask
  latch,      \* g_latch
  writeMode1, \* VGA_WRITE_MODE is 1
  startHi, startLo, \* g_crtc[0x0C], g_crtc[0x0D]
  rowWidth    \* g_crtc[0x13]

memory == <<planes, flat>>
registers == <<chain4, mapMask, writeMode1, startHi, startLo, rowWidth>>
vgaVars == <<memory, latch, registers>>

VgaInit ==
  /\ planes = [p \in Plane |-> [a \in Addr |-> Black]]
  /\ flat = [px \in Pixel |-> Black]
  /\ chain4 = TRUE /\ mapMask = Plane
  /\ latch = [p \in Plane |-> Black] /\ writeMode1 = FALSE
  /\ startHi = 0 /\ startLo = 0 /\ rowWidth = 0

\* INT 10h, mode 13h: the window is cleared and nothing else is set.
SetMode13 ==
  /\ flat' = [px \in Pixel |-> Black]
  /\ UNCHANGED <<planes, latch, registers>>

\* Sequencer 4, bit 3.
SetChain4(on) ==
  /\ chain4' = on
  /\ UNCHANGED <<memory, latch, mapMask, writeMode1, startHi, startLo,
                 rowWidth>>

\* Sequencer 2.
SetMapMask(m) ==
  /\ mapMask' = m
  /\ UNCHANGED <<memory, latch, chain4, writeMode1, startHi, startLo, rowWidth>>

\* Graphics 5.
SetWriteMode(one) ==
  /\ writeMode1' = one
  /\ UNCHANGED <<memory, latch, chain4, mapMask, startHi, startLo, rowWidth>>

\* CRTC 0Ch and 0Dh.
SetStartHi(b) ==
  /\ startHi' = b
  /\ UNCHANGED <<memory, latch, chain4, mapMask, writeMode1, startLo,
                 rowWidth>>

SetStartLo(b) ==
  /\ startLo' = b
  /\ UNCHANGED <<memory, latch, chain4, mapMask, writeMode1, startHi,
                 rowWidth>>

\* CRTC 13h.
SetRowWidth(b) ==
  /\ rowWidth' = b
  /\ UNCHANGED <<memory, latch, chain4, mapMask, writeMode1, startHi, startLo>>

\* recomp_mem_write8 and a host write to guest memory, in mode 13h.
WriteFlat(px, v) ==
  /\ chain4
  /\ flat' = [flat EXCEPT ![px] = v]
  /\ UNCHANGED <<planes, latch, registers>>

\* A file read into the window goes straight to cpu->mem in either mode.
HostStore(px, v) ==
  /\ ~chain4
  /\ flat' = [flat EXCEPT ![px] = v]
  /\ UNCHANGED <<planes, latch, registers>>

\* Mutant: the map mask is not looked at.
WriteAllPlanes(a, v) ==
  /\ ~chain4
  /\ planes' = [p \in Plane |->
                  [planes[p] EXCEPT ![a] = IF writeMode1 THEN latch[p] ELSE v]]
  /\ UNCHANGED <<flat, latch, registers>>

\* recomp_mem_write8, unchained.
WritePlanes(a, v) ==
  /\ ~chain4
  /\ planes' = [p \in Plane |->
                  IF p \in mapMask
                  THEN [planes[p] EXCEPT ![a] = IF writeMode1 THEN latch[p]
                                                              ELSE v]
                  ELSE planes[p]]
  /\ UNCHANGED <<flat, latch, registers>>

\* recomp_mem_read8, unchained: every plane is latched.
ReadPlanes(a) ==
  /\ ~chain4
  /\ latch' = [p \in Plane |-> planes[p][a]]
  /\ UNCHANGED <<memory, registers>>

VgaNext ==
  \/ SetMode13
  \/ \E b \in BOOLEAN : SetChain4(b) \/ SetWriteMode(b)
  \/ \E m \in Masks : SetMapMask(m)
  \/ \E b \in 0 .. Radix - 1 : SetStartHi(b) \/ SetStartLo(b)
                             \/ SetRowWidth(b)
  \/ \E px \in Pixel, v \in Colour : WriteFlat(px, v) \/ HostStore(px, v)
  \/ \E a \in Addr, v \in Colour : WritePlanes(a, v)
  \/ \E a \in Addr : ReadPlanes(a)

VgaSpec == VgaInit /\ [][VgaNext]_vgaVars

-----------------------------------------------------------------------------
Start == startHi * Radix + startLo

\* From one row to the next, in addresses: twice the register when it is set.
Row == IF rowWidth = 0 THEN RowBytes ELSE 2 * rowWidth

\* vga_frame.
Frame ==
  IF chain4 THEN flat
  ELSE [px \in Pixel |->
          LET off == (Start + px[2] * Row + px[1] \div Planes) % Depth
          IN planes[px[1] % Planes][off]]

VgaTypeOK ==
  /\ planes \in [Plane -> [Addr -> Colour]] /\ flat \in [Pixel -> Colour]
  /\ chain4 \in BOOLEAN /\ mapMask \subseteq Plane
  /\ latch \in [Plane -> Colour] /\ writeMode1 \in BOOLEAN
  /\ startHi \in 0 .. Radix - 1 /\ startLo \in 0 .. Radix - 1
  /\ rowWidth \in 0 .. Radix - 1

\* Display memory as the game thinks of it in Mode X: one long row of
\* pixels, four to an address, the screen a stretch of it that begins at the
\* start address, goes on a row width further for each row, and comes back
\* to the beginning at the end.
PixelNumber(px) ==
  (Planes * Start + px[2] * Planes * Row + px[1]) % (Planes * Depth)

\* A byte written in Mode X paints the pixels of one group and of those only
\* the ones the map mask lets through: all of one colour, or in write mode 1
\* each of the colour the last read found at its place in a group.  Nothing
\* else on the screen moves, and off the screen it changes nothing on it.
OneBytePaints ==
  [][planes' # planes =>
       \E a \in Addr, v \in Colour : \A px \in Pixel :
         LET n == PixelNumber(px)
             p == n % Planes IN
           Frame'[px] = IF n \div Planes = a /\ p \in mapMask
                        THEN IF writeMode1 THEN latch[p] ELSE v
                        ELSE Frame[px]]_vgaVars
=============================================================================
