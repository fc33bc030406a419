-------------------------------- MODULE Clock --------------------------------
(***************************************************************************)
(* The BIOS tick count at 0040:006C: bios_clock in src/boot.c writes it a  *)
(* byte at a time from a thread of its own, and the game reads its low     *)
(* word a byte at a time (mem_read16) with nothing between the two, to     *)
(* wait for it to change.  Only that word is modelled.                     *)
(*                                                                         *)
(* The clock's thread sleeps 55 ms, a tick is 54.9: it wakes to find the   *)
(* count one further, or two.  The guest reads thousands of times in that  *)
(* time; here it reads at least one byte.                                  *)
(***************************************************************************)
EXTENDS Integers

CONSTANT ByteSize  \* 2^8: values of a byte

ASSUME ClockAssumption == ByteSize \in Nat \ {0}

VARIABLES
  ticks,    \* t of bios_clock, its low word
  before,   \* what it was the time before
  low,      \* mem[0x46C]
  high,     \* mem[0x46D]
  todo,     \* bytes the clock's thread still has to write
  half,     \* the low byte of a read that is under way
  reading,  \* the guest is between the two bytes
  during,   \* ghost: the counts it could rightly find
  value,    \* the last value the guest read
  torn,     \* ghost: it was not one of those
  twice,    \* ghost: two torn values followed each other
  rested    \* ghost: the guest has read a byte since the last tick

clockVars ==
  <<ticks, before, low, high, todo, half, reading, during, value, torn, twice,
    rested>>

Count16 == 0 .. ByteSize * ByteSize - 1

LowOf(t) == t % ByteSize
HighOf(t) == t \div ByteSize

ClockInit ==
  /\ ticks \in Count16 /\ before = ticks
  /\ low = LowOf(ticks) /\ high = HighOf(ticks) /\ todo = 0
  /\ half = 0 /\ reading = FALSE /\ during = {}
  /\ value = ticks /\ torn = FALSE /\ twice = FALSE /\ rested = TRUE

\* Until the second byte is stored the old count is as good as the new.
Current == IF todo = 0 THEN {ticks} ELSE {before, ticks}

\* The clock's thread wakes, one tick later or two.
Tick(n) ==
  /\ todo = 0 /\ rested
  /\ before' = ticks
  /\ ticks' = (ticks + n) % (ByteSize * ByteSize)
  /\ todo' = 2 /\ rested' = FALSE
  /\ during' = IF reading THEN during \cup {ticks'} ELSE {}
  /\ UNCHANGED <<low, high, half, reading, value, torn, twice>>

StoreLow ==
  /\ todo = 2 /\ todo' = 1
  /\ low' = LowOf(ticks)
  /\ UNCHANGED <<ticks, before, high, half, reading, during, value, torn,
                 twice, rested>>

\* Mutant: the high byte of the tick before.
StoreHighLate ==
  /\ todo = 1 /\ todo' = 0
  /\ high' = HighOf(before)
  /\ UNCHANGED <<ticks, before, low, half, reading, during, value, torn,
                 twice, rested>>

StoreHigh ==
  /\ todo = 1 /\ todo' = 0
  /\ high' = HighOf(ticks)
  /\ UNCHANGED <<ticks, before, low, half, reading, during, value, torn,
                 twice, rested>>

\* mem_read16 of [46Ch] by the game: mov bx,[si] and cmp bx,[si].
ReadLow ==
  /\ ~reading /\ reading' = TRUE
  /\ half' = low /\ during' = Current /\ rested' = TRUE
  /\ UNCHANGED <<ticks, before, low, high, todo, value, torn, twice>>

ReadHigh ==
  /\ reading /\ reading' = FALSE
  /\ value' = half + ByteSize * high
  /\ torn' = IF value' = value THEN torn ELSE value' \notin during
  /\ twice' = (twice \/ (value' # value /\ torn /\ torn'))
  /\ during' = {} /\ half' = 0 /\ rested' = TRUE
  /\ UNCHANGED <<ticks, before, low, high, todo>>

ClockNext ==
  \/ Tick(1) \/ Tick(2) \/ StoreLow \/ StoreHigh
  \/ ReadLow \/ ReadHigh

ClockSpec == ClockInit /\ [][ClockNext]_clockVars

-----------------------------------------------------------------------------
ClockTypeOK ==
  /\ ticks \in Count16 /\ before \in Count16
  /\ low \in 0 .. ByteSize - 1 /\ high \in 0 .. ByteSize - 1 /\ todo \in 0 .. 2
  /\ half \in 0 .. ByteSize - 1 /\ reading \in BOOLEAN
  /\ during \subseteq Count16 /\ value \in Count16
  /\ torn \in BOOLEAN /\ twice \in BOOLEAN /\ rested \in BOOLEAN

\* What the comment over bios_clock promises: a torn read costs at worst one
\* bad calibration sample.  The game times from one change of the count to
\* the next; a value that is no count of its time can come up once, when the
\* low byte wraps, but the next change it sees is to a true one.
OneBadSample == ~twice
=============================================================================
