------------------------------ MODULE MCMusic ------------------------------
(* Music for TLC: a table of four messages and tunes that bring out what a *)
(* parser can get wrong.                                                   *)
EXTENDS Music

Item(kind, delay, note, dur) == [kind |-> kind, delay |-> delay, note |-> note, dur |-> dur]

\* A note that lasts into the next one, of the same pitch.
Overlap == <<Item("note", 0, 60, 2), Item("note", 1, 60, 1)>>
\* A note of no length on the tick another ends, with a wait before it.
Touching == <<Item("note", 1, 60, 1), Item("skip", 1, 60, 0), Item("note", 0, 62, 0)>>
\* One message too long: the off of the last note does not fit.
TooLong == <<Item("other", 0, 60, 0), Item("note", 0, 60, 3), Item("note", 1, 62, 1)>>
\* Nothing to play.
Empty == <<Item("skip", 3, 60, 0)>>

MCTunes == {Overlap, Touching, TooLong, Empty}
=============================================================================
