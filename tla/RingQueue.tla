------------------------------ MODULE RingQueue ------------------------------
(***************************************************************************)
(* The ring of slots that the runtime uses twice: g_keyq in                *)
(* src/recomp/video.c, and the game's own key ring at DGROUP:0144, which   *)
(* key_inject in src/recomp/runtime16.c fills the way the game's INT 9     *)
(* handler does.  head = tail means empty, so one slot is never used.      *)
(* Slots keep what was in them after it has been taken.                    *)
(*                                                                         *)
(* Module Keyboard writes both as sequences.  KeepsQueue is why it may.    *)
(***************************************************************************)
EXTENDS Integers, Sequences

CONSTANTS
  N,       \* slots
  Value,   \* what a slot can hold
  Zero,    \* what is in a slot that was never used
  Nothing  \* the answer when there is nothing to take: -1

ASSUME RingAssumption ==
  /\ N \in Nat \ {0}
  /\ Zero \in Value

VARIABLES slots, head, tail, answer

vars == <<slots, head, tail, answer>>

Slot == 0 .. N - 1

Init ==
  /\ slots = [i \in Slot |-> Zero]
  /\ head = 0 /\ tail = 0
  /\ answer = Nothing

\* Mutant: the ring does not wrap.
AfterNoWrap(i) == i + 1

\* The slot after i.
After(i) == (i + 1) % N

\* Mutant: a full ring is not noticed.
PutAlways(v) ==
  /\ slots' = [slots EXCEPT ![tail] = v] /\ tail' = After(tail)
  /\ UNCHANGED <<head, answer>>

\* push_key, and the second half of key_inject.
Put(v) ==
  /\ IF After(tail) = head THEN UNCHANGED <<slots, tail>>
     ELSE slots' = [slots EXCEPT ![tail] = v] /\ tail' = After(tail)
  /\ UNCHANGED <<head, answer>>

\* vga_window_key.
Take ==
  /\ IF head = tail THEN answer' = Nothing /\ UNCHANGED head
     ELSE answer' = slots[head] /\ head' = After(head)
  /\ UNCHANGED <<slots, tail>>

Next == (\E v \in Value : Put(v)) \/ Take

Spec == Init /\ [][Next]_vars

-----------------------------------------------------------------------------
\* The indices stay inside the array.
TypeOK ==
  /\ slots \in [Slot -> Value]
  /\ head \in Slot /\ tail \in Slot
  /\ answer \in Value \cup {Nothing}

\* How many values are in the ring, and those values, oldest first.
Count == IF head <= tail THEN tail - head ELSE tail + N - head

At(k) == IF head + k < N THEN slots[head + k] ELSE slots[head + k - N]

Contents == [k \in 1 .. Count |-> At(k - 1)]

Queue == INSTANCE BoundedQueue WITH items <- Contents, Capacity <- N - 1

\* The ring is a queue that holds N - 1 values: across the wrap, and when it
\* is full, no value is lost once it is in, none comes out twice, and they
\* come out in the order they went in.
KeepsQueue == Queue!Spec
=============================================================================
