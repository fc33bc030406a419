-------------------------------- MODULE Xmi --------------------------------
(***************************************************************************)
(* The XMI parser of src/recomp/music.c: from the items of an EVNT chunk   *)
(* to the table of timed MIDI messages the player walks.                   *)
(*                                                                         *)
(* An item is what is left of the bytes once they are read: how long to    *)
(* wait since the item before it, and a note with its duration or any      *)
(* other channel message.  Meta and system-exclusive items only add their  *)
(* delay, so they are items of kind "skip"; the end-of-track meta ends the *)
(* sequence.  A note has no off of its own in the stream: the parser       *)
(* makes one.  Channel and pitch together are the note.                    *)
(***************************************************************************)
EXTENDS Integers, Sequences, FiniteSets

CONSTANT MaxEvents  \* MAX_EVENTS: slots of g_ev

\* The tick of item i: every delay up to it, its own included.
Tick(items) ==
  LET tick[i \in 0 .. Len(items)] == IF i = 0 THEN 0 ELSE tick[i - 1] + items[i].delay
  IN  tick

Message(tick, order, kind, note) ==
  [tick |-> tick, order |-> order, kind |-> kind, note |-> note]

\* Mutant: the table is written one message past its end.
EmitPastEnd(table, tick, kind, note) ==
  IF Len(table) > MaxEvents THEN table
  ELSE Append(table, Message(tick, Len(table), kind, note))

\* emit: a message that finds the table full is dropped.
Emit(table, tick, kind, note) ==
  IF Len(table) >= MaxEvents THEN table
  ELSE Append(table, Message(tick, Len(table), kind, note))

\* The messages of one item.
EmitItem(table, tick, item) ==
  CASE item.kind = "skip"  -> table
    [] item.kind = "other" -> Emit(table, tick, "other", item.note)
    [] item.kind = "note"  ->
         Emit(Emit(table, tick, "on", item.note), tick + item.dur, "off", item.note)

\* Mutant: what comes at one tick is left in any order, here the reverse.
BeforeUnstable(x, y) == x.tick < y.tick \/ (x.tick = y.tick /\ x.order > y.order)

\* ev_cmp.
Before(x, y) == x.tick < y.tick \/ (x.tick = y.tick /\ x.order < y.order)

\* The table after the first i items.
Collected(items) ==
  LET table[i \in 0 .. Len(items)] ==
        IF i = 0 THEN <<>> ELSE EmitItem(table[i - 1], Tick(items)[i], items[i])
  IN  table

\* The table before it is sorted.
Collect(items) == Collected(items)[Len(items)]

\* qsort: the message that has i - 1 others before it comes i-th.
Sorted(table) ==
  LET rank(j) == Cardinality({k \in 1 .. Len(table) : Before(table[k], table[j])})
  IN  [i \in 1 .. Len(table) |-> table[CHOOSE j \in 1 .. Len(table) : rank(j) = i - 1]]

-----------------------------------------------------------------------------
(* What the table must be.                                                 *)

Places(table, upto, kind, note) ==
  {i \in 1 .. upto : table[i].kind = kind /\ table[i].note = note}

\* How many messages the first i items make.
Size(items) ==
  LET size(i) == CASE items[i].kind = "skip"  -> 0
                   [] items[i].kind = "other" -> 1
                   [] items[i].kind = "note"  -> 2
      sum[i \in 0 .. Len(items)] == IF i = 0 THEN 0 ELSE sum[i - 1] + size(i)
  IN  sum

\* No message is dropped.
Fits(items) == Size(items)[Len(items)] <= MaxEvents

\* The table's ticks never go back, and no note is let go of more often than
\* it was struck by then.
Playable(table, notes) ==
  /\ \A i \in 2 .. Len(table) : table[i - 1].tick <= table[i].tick
  /\ \A i \in 1 .. Len(table), n \in notes :
       Cardinality(Places(table, i, "off", n)) <= Cardinality(Places(table, i, "on", n))

\* Every note struck is let go of.
Answered(table, notes) ==
  \A n \in notes : Cardinality(Places(table, Len(table), "off", n)) =
                   Cardinality(Places(table, Len(table), "on", n))
=============================================================================
