----------------------------- MODULE GuestStack -----------------------------
(***************************************************************************)
(* The guest's stack (push16, pop16, push32, pop32 in src/recomp/cpu.h)    *)
(* and the words under it, written a byte at a time (mem_write16 with      *)
(* RECOMP_MEM_HOOK, as every build script defines it).                     *)
(*                                                                         *)
(* SP is a 16-bit offset into SS and so is the address of a word's second  *)
(* byte: both wrap, at an odd SP in the middle of a word.  A dword is its  *)
(* high word with its low word on top.                                     *)
(***************************************************************************)
EXTENDS Integers, Sequences

CONSTANTS
  Offsets,  \* 2^16: offsets in a segment
  Byte  \* what a byte can be

ASSUME StackAssumption == Offsets \in Nat \ {0} /\ Offsets % 2 = 0 /\ 0 \in Byte

VARIABLES
  segment, \* the stack segment
  sp,      \* cpu->sp
  got,     \* the words the last pop returned, low word first
  pushed,  \* ghost: the words on the stack, top first
  due      \* ghost: the words the last pop should have returned

stackVars == <<segment, sp, got, pushed, due>>

Offset == 0 .. Offsets - 1
Word == [lo : Byte, hi : Byte]

\* An offset some bytes further on, or back.
Plus(off, n) == (off + n) % Offsets

\* mem_read16, mem_write16.
Read16(m, off) == [lo |-> m[off], hi |-> m[Plus(off, 1)]]
Write16(m, off, w) == [m EXCEPT ![off] = w.lo, ![Plus(off, 1)] = w.hi]

StackInit ==
  /\ segment = [off \in Offset |-> 0] /\ sp \in Offset
  /\ got = <<>> /\ due = <<>> /\ pushed = <<>>

\* Words there is room for.
Room(n) == 2 * (Len(pushed) + n) <= Offsets

Push16(w) ==
  /\ Room(1)
  /\ sp' = Plus(sp, -2)
  /\ segment' = Write16(segment, sp', w)
  /\ pushed' = <<w>> \o pushed
  /\ UNCHANGED <<got, due>>

Pop16 ==
  /\ pushed # <<>>
  /\ got' = <<Read16(segment, sp)>>
  /\ sp' = Plus(sp, 2)
  /\ due' = <<Head(pushed)>> /\ pushed' = Tail(pushed)
  /\ UNCHANGED segment

\* Mutant: the high word goes where the low word is read.
Push32Swapped(lo, hi) ==
  /\ Room(2)
  /\ sp' = Plus(sp, -4)
  /\ segment' = Write16(Write16(segment, sp', hi), Plus(sp', 2), lo)
  /\ pushed' = <<lo, hi>> \o pushed
  /\ UNCHANGED <<got, due>>

Push32(lo, hi) ==
  /\ Room(2)
  /\ sp' = Plus(sp, -4)
  /\ segment' = Write16(Write16(segment, sp', lo), Plus(sp', 2), hi)
  /\ pushed' = <<lo, hi>> \o pushed
  /\ UNCHANGED <<got, due>>

Pop32 ==
  /\ Len(pushed) >= 2
  /\ got' = <<Read16(segment, sp), Read16(segment, Plus(sp, 2))>>
  /\ sp' = Plus(sp, 4)
  /\ due' = SubSeq(pushed, 1, 2) /\ pushed' = SubSeq(pushed, 3, Len(pushed))
  /\ UNCHANGED segment

\* A byte of the segment that is not on the stack is written.
Elsewhere(n, v) ==
  /\ n \in 2 * Len(pushed) .. Offsets - 1
  /\ segment' = [segment EXCEPT ![Plus(sp, n)] = v]
  /\ UNCHANGED <<sp, got, pushed, due>>

StackNext ==
  \/ \E w \in Word : Push16(w)
  \/ \E lo, hi \in Word : Push32(lo, hi)
  \/ Pop16 \/ Pop32
  \/ \E n \in Offset, v \in Byte : Elsewhere(n, v)

StackSpec == StackInit /\ [][StackNext]_stackVars

-----------------------------------------------------------------------------
StackTypeOK ==
  /\ segment \in [Offset -> Byte] /\ sp \in Offset
  /\ got \in Seq(Word) /\ due \in Seq(Word) /\ pushed \in Seq(Word)

\* The stack gives back what it was given, last first, across the end of
\* the segment and at an odd SP, with words and dwords mixed: a dword comes
\* off as two words and two words as a dword, as long as no more is on it
\* than the segment holds.
StackGivesBack ==
  /\ got = due
  /\ \A i \in DOMAIN pushed : Read16(segment, Plus(sp, 2 * (i - 1))) = pushed[i]
=============================================================================
