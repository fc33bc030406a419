-------------------------------- MODULE Flags --------------------------------
(***************************************************************************)
(* The arithmetic flags and the conditions that read them                  *)
(* (src/recomp/cpu.h): flags_add, flags_sub and flags_cmp, flags_logic,    *)
(* flags_shift and the cc_ tests, each of which the header writes out for  *)
(* 8, 16 and 32 bits.  Here the width is a parameter: Sign is the weight   *)
(* of the sign bit, 80h, 8000h or 80000000h.                               *)
(*                                                                         *)
(* A conditional jump of the lifted game is one of these tests after an    *)
(* operation that set the flags, with any number of instructions between   *)
(* that leave them alone.  Only the operations the header has a function   *)
(* for are here.  What inc, dec, neg, adc, sbb, mul and the rotations do   *)
(* to the flags is up to lift16, which is not in the repository.           *)
(***************************************************************************)
EXTENDS Integers, FiniteSets

CONSTANTS
  Sign,     \* the weight of the sign bit
  Nibble    \* the weight of the bit AF is taken from: 10h

ASSUME FlagsAssumption == Sign \in Nat \ {0} /\ Nibble \in Nat \ {0}

VARIABLES
  flags,   \* cpu->flags, each flag a field
  result,  \* what the operation returned
  op       \* ghost: the last operation, with its operands

flagVars == <<flags, result, op>>

Modulus == 2 * Sign
Number == 0 .. Modulus - 1

\* One bit of a number, given its weight, and the exclusive or of bits.
Bit(v, weight) == (v \div weight) % 2
OddBits(s) == Cardinality({i \in DOMAIN s : s[i] = 1}) % 2 = 1

Negative(v) == v >= Sign

\* parity8, of the low byte.
EvenParity(v) == ~OddBits([k \in 0 .. 7 |-> Bit(v, 2 ^ k)])

\* (a ^ b ^ r) & 10h
HalfCarry(a, b, r) ==
  OddBits(<<Bit(a, Nibble), Bit(b, Nibble), Bit(r, Nibble)>>)

\* set_szp8, set_szp16, set_szp32.
SZP(f, r) == [f EXCEPT !.ZF = (r = 0), !.SF = Negative(r),
                       !.PF = EvenParity(r)]

FlagsInit ==
  /\ flags = [CF |-> FALSE, ZF |-> FALSE, SF |-> FALSE, OF |-> FALSE,
              AF |-> FALSE, PF |-> FALSE]
  /\ result = 0 /\ op = [name |-> "none", a |-> 0, b |-> 0]

\* flags_add8, flags_add16, flags_add32.
Add(a, b) ==
  LET r == (a + b) % Modulus IN
    /\ flags' = SZP([flags EXCEPT
                       !.CF = (a + b >= Modulus),
                       !.OF = /\ Negative(a) = Negative(b)
                              /\ Negative(a) # Negative(r),
                       !.AF = HalfCarry(a, b, r)], r)
    /\ result' = r /\ op' = [name |-> "add", a |-> a, b |-> b]

\* Mutant: a subtraction overflows when an addition would.
SubtractAsAdd(a, b) ==
  LET r == (a - b) % Modulus IN
    /\ flags' = SZP([flags EXCEPT
                       !.CF = (a < b),
                       !.OF = /\ Negative(a) = Negative(b)
                              /\ Negative(a) # Negative(r),
                       !.AF = HalfCarry(a, b, r)], r)
    /\ result' = r /\ op' = [name |-> "sub", a |-> a, b |-> b]

\* flags_sub8, flags_sub16, flags_sub32 and, with the result unused,
\* flags_cmp8, flags_cmp16, flags_cmp32.
Subtract(a, b) ==
  LET r == (a - b) % Modulus IN
    /\ flags' = SZP([flags EXCEPT
                       !.CF = (a < b),
                       !.OF = /\ Negative(a) # Negative(b)
                              /\ Negative(a) # Negative(r),
                       !.AF = HalfCarry(a, b, r)], r)
    /\ result' = r /\ op' = [name |-> "sub", a |-> a, b |-> b]

\* flags_logic8, flags_logic16, flags_logic32: AF stays.
Logic(r) ==
  /\ flags' = SZP([flags EXCEPT !.CF = FALSE, !.OF = FALSE], r)
  /\ result' = r /\ op' = [name |-> "logic", a |-> r, b |-> 0]

\* flags_shift8, flags_shift16, flags_shift32: the caller has put the bit
\* that was shifted out in CF; OF and AF stay.
Shift(r, out) ==
  /\ flags' = SZP([flags EXCEPT !.CF = out], r)
  /\ result' = r /\ op' = [name |-> "shift", a |-> r, b |-> 0]

FlagsNext ==
  \/ \E a, b \in Number : Add(a, b) \/ Subtract(a, b)
  \/ \E r \in Number : Logic(r) \/ \E out \in BOOLEAN : Shift(r, out)

FlagsSpec == FlagsInit /\ [][FlagsNext]_flagVars

-----------------------------------------------------------------------------
(* The conditions: cc_b is cc_ae's opposite, and so on for the others.     *)

cc_o  == flags.OF
cc_b  == flags.CF
cc_e  == flags.ZF
cc_be == flags.CF \/ flags.ZF
cc_s  == flags.SF
cc_l  == flags.SF # flags.OF
cc_le == flags.ZF \/ (flags.SF # flags.OF)

-----------------------------------------------------------------------------
FlagsTypeOK ==
  /\ flags \in [CF : BOOLEAN, ZF : BOOLEAN, SF : BOOLEAN, OF : BOOLEAN,
                AF : BOOLEAN, PF : BOOLEAN]
  /\ result \in Number
  /\ op \in [name : {"none", "add", "sub", "logic", "shift"},
             a : Number, b : Number]

\* A number read as two's complement.
Signed(v) == IF v < Sign THEN v ELSE v - Modulus

\* A signed sum or difference that the width cannot hold.
Overflows(n) == n < -Sign \/ n >= Sign

\* After a comparison the unsigned jumps tell the order of the operands and
\* the signed jumps the order of what they mean, and JO that the difference
\* does not fit, at the sign boundary as anywhere.
ComparisonTold ==
  op.name = "sub" =>
    /\ cc_b = (op.a < op.b) /\ cc_be = (op.a <= op.b)
    /\ cc_e = (op.a = op.b)
    /\ cc_l = (Signed(op.a) < Signed(op.b))
    /\ cc_le = (Signed(op.a) <= Signed(op.b))
    /\ cc_o = Overflows(Signed(op.a) - Signed(op.b))

\* After an addition the carry and the overflow are the true ones, and SF
\* xor OF is still the sign of the true sum.
SumTold ==
  op.name = "add" =>
    /\ cc_b = (op.a + op.b # result)
    /\ cc_o = Overflows(Signed(op.a) + Signed(op.b))
    /\ cc_l = (Signed(op.a) + Signed(op.b) < 0)

\* After an AND, OR, XOR or TEST the same jumps tell the result from zero.
LogicTold ==
  op.name = "logic" =>
    /\ ~cc_b /\ ~cc_o
    /\ cc_e = (result = 0)
    /\ cc_l = (Signed(result) < 0) /\ cc_le = (Signed(result) <= 0)

\* Whatever ran before, a conditional jump goes where it would have gone.
JccTellsOrder == ComparisonTold /\ SumTold /\ LogicTold
=============================================================================
