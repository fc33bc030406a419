---------------------------- MODULE BoundedQueue ----------------------------
(* A queue of at most Capacity values, first in first out.  A value put     *)
(* into a full queue is dropped.  Taking from an empty one answers Nothing. *)
EXTENDS Integers, Sequences

CONSTANTS Value, Capacity, Nothing

VARIABLES items, answer

Init == items = <<>> /\ answer = Nothing

Put(v) ==
  /\ items' = IF Len(items) = Capacity THEN items ELSE Append(items, v)
  /\ UNCHANGED answer

Take ==
  IF items = <<>> THEN answer' = Nothing /\ UNCHANGED items
  ELSE answer' = Head(items) /\ items' = Tail(items)

Next == (\E v \in Value : Put(v)) \/ Take

Spec == Init /\ [][Next]_<<items, answer>>
=============================================================================
