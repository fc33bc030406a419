------------------------------- MODULE Music -------------------------------
(***************************************************************************)
(* The music player of src/recomp/music.c.  The guest's thread registers a *)
(* tune (INT 66h, AX = 0704h, by way of ail_register): it stops the player *)
(* there is, fills the table g_ev with the new tune and starts a thread    *)
(* that sends it.  The two share g_ev, g_ev_n and g_stop with no lock; the *)
(* wait in music_stop is what keeps them apart, and it gives up after two  *)
(* seconds.                                                                *)
(*                                                                         *)
(* The tick a message is due at decides only how long a player sleeps, so  *)
(* the player's next step may come at any time.  A player that reads the   *)
(* table while it is being filled may find any message in it.              *)
(***************************************************************************)
EXTENDS Xmi

CONSTANTS
  Tune,        \* what the guest registers: sequences of items
  NoTune,      \* a registered block with no EVNT chunk in it
  Note,        \* the notes in the tunes
  MaxPlayers,  \* bound on the threads there are at once
  MayTimeOut   \* whether the host may block a player for over two seconds

\* What there is to read of an item.
Items == [kind : {"skip", "other", "note"}, delay : Nat, note : Note, dur : Nat]

ASSUME MusicAssumption ==
  /\ MaxEvents \in Nat /\ MaxPlayers \in Nat
  /\ Tune \subseteq Seq(Items)
  /\ NoTune \notin Tune
  /\ MayTimeOut \in BOOLEAN

Player == 1 .. MaxPlayers

VARIABLES
  table,     \* g_ev, as far as g_ev_n
  g_stop,
  g_thread,  \* the player whose handle the guest holds, or 0
  g_midi,    \* the output is open
  gpc,       \* where music_play_xmi is
  tune,      \* the tune being registered
  ppc,       \* where each player is
  next,      \* i of each player, from 1
  sounding,  \* the notes the device holds on
  timedOut   \* for the properties: a wait has been given up

vars == <<table, g_stop, g_thread, g_midi, gpc, tune, ppc, next, sounding, timedOut>>

guest  == <<g_thread, g_midi, gpc, tune, timedOut>>
player == <<ppc, next>>

Init ==
  /\ table = <<>> /\ g_stop = FALSE /\ g_thread = 0 /\ g_midi = FALSE
  /\ gpc = "game" /\ tune = NoTune
  /\ ppc = [t \in Player |-> "none"] /\ next = [t \in Player |-> 1]
  /\ sounding = {} /\ timedOut = FALSE

Live == {t \in Player : ppc[t] \notin {"none", "ended"}}

-----------------------------------------------------------------------------
(* The guest's thread.                                                     *)

\* music_stop, as far as the wait.
Register(x) ==
  /\ gpc = "game"
  /\ tune' = x
  /\ IF g_thread = 0 THEN gpc' = "quiet" /\ UNCHANGED g_stop
     ELSE gpc' = "wait" /\ g_stop' = TRUE
  /\ UNCHANGED <<table, g_thread, g_midi, player, sounding, timedOut>>

\* Mutant: music_stop does not wait.
WaitNot ==
  /\ gpc = "wait"
  /\ g_thread' = 0 /\ gpc' = "quiet"
  /\ UNCHANGED <<table, g_stop, g_midi, tune, player, sounding, timedOut>>

\* The player it waits for has ended.
WaitOver ==
  /\ gpc = "wait" /\ ppc[g_thread] = "ended"
  /\ g_thread' = 0 /\ gpc' = "quiet"
  /\ UNCHANGED <<table, g_stop, g_midi, tune, player, sounding, timedOut>>

\* Two seconds are over.  The result of the wait is not looked at.
WaitGivenUp ==
  /\ MayTimeOut /\ gpc = "wait" /\ ppc[g_thread] # "ended"
  /\ timedOut' = TRUE
  /\ g_thread' = 0 /\ gpc' = "quiet"
  /\ UNCHANGED <<table, g_stop, g_midi, tune, player, sounding>>

\* all_notes_off, and whether there is an EVNT chunk to parse.
Quiet ==
  /\ gpc = "quiet"
  /\ sounding' = IF g_midi THEN {} ELSE sounding
  /\ IF tune = NoTune THEN gpc' = "game" /\ UNCHANGED table
     ELSE gpc' = "fill" /\ table' = <<>>
  /\ UNCHANGED <<g_stop, g_thread, g_midi, tune, player, timedOut>>

Fill ==
  /\ gpc = "fill"
  /\ table' = Collect(tune)
  /\ gpc' = IF table' = <<>> THEN "game" ELSE "sort"
  /\ UNCHANGED <<g_stop, g_thread, g_midi, tune, player, sounding, timedOut>>

Sort ==
  /\ gpc = "sort"
  /\ table' = Sorted(table)
  /\ gpc' = "start"
  /\ UNCHANGED <<g_stop, g_thread, g_midi, tune, player, sounding, timedOut>>

\* The output cannot be opened, or the thread cannot be made.
StartFails ==
  /\ gpc = "start"
  /\ \/ ~g_midi /\ UNCHANGED <<g_midi, g_stop>>
     \/ g_midi' = TRUE /\ g_stop' = FALSE
  /\ gpc' = "game"
  /\ UNCHANGED <<table, g_thread, tune, player, sounding, timedOut>>

\* A thread that has ended leaves its place to a new one.
Vacant(t) == ppc[t] \in {"none", "ended"}

NewPlayer(t) ==
  /\ Vacant(t) /\ \A u \in Player : u < t => ~Vacant(u)
  /\ g_thread' = t
  /\ ppc' = [ppc EXCEPT ![t] = "look"]
  /\ next' = [next EXCEPT ![t] = 1]

\* Mutant: g_stop is left as music_stop set it.
StartStopped ==
  /\ gpc = "start" /\ g_midi' = TRUE /\ UNCHANGED g_stop
  /\ \E t \in Player : NewPlayer(t)
  /\ gpc' = "game"
  /\ UNCHANGED <<table, tune, sounding, timedOut>>

Start ==
  /\ gpc = "start" /\ g_midi' = TRUE /\ g_stop' = FALSE
  /\ \E t \in Player : NewPlayer(t)
  /\ gpc' = "game"
  /\ UNCHANGED <<table, tune, sounding, timedOut>>

Guest == WaitOver \/ WaitGivenUp \/ Quiet \/ Fill \/ Sort \/ StartFails \/ Start

-----------------------------------------------------------------------------
(* A player's thread.                                                      *)

At(t, place) == ppc[t] = place

Goes(t, place) == ppc' = [ppc EXCEPT ![t] = place]

\* Mutant: the tune is played over and over.
LookAgain(t) ==
  /\ At(t, "look")
  /\ IF next[t] <= Len(table) /\ ~g_stop THEN Goes(t, "due") /\ UNCHANGED next
     ELSE Goes(t, "look") /\ next' = [next EXCEPT ![t] = 1]
  /\ UNCHANGED <<table, g_stop, guest, sounding>>

\* The loop's test.
Look(t) ==
  /\ At(t, "look")
  /\ Goes(t, IF next[t] <= Len(table) /\ ~g_stop THEN "due" ELSE "off")
  /\ UNCHANGED <<table, g_stop, guest, next, sounding>>

\* The sleep is over, and g_stop is looked at once more.
Due(t) ==
  /\ At(t, "due")
  /\ Goes(t, IF g_stop THEN "off" ELSE "send")
  /\ UNCHANGED <<table, g_stop, guest, next, sounding>>

\* What the device does with a message.
Heard(kind, note) ==
  CASE kind = "on"    -> sounding \cup {note}
    [] kind = "off"   -> sounding \ {note}
    [] kind = "other" -> sounding

\* The message is read and sent.  One that another thread is writing, or that
\* is past the end of a table that has become shorter, can be any.
Send(t) ==
  /\ At(t, "send")
  /\ \/ /\ gpc \notin {"fill", "sort"} /\ next[t] <= Len(table)
        /\ sounding' = Heard(table[next[t]].kind, table[next[t]].note)
     \/ /\ gpc \in {"fill", "sort"} \/ next[t] > Len(table)
        /\ \E kind \in {"on", "off", "other"}, n \in Note : sounding' = Heard(kind, n)
  /\ next' = [next EXCEPT ![t] = @ + 1]
  /\ Goes(t, "look")
  /\ UNCHANGED <<table, g_stop, guest>>

\* Mutant: a player leaves without letting its notes go.
LeaveSounding(t) ==
  /\ At(t, "off")
  /\ Goes(t, "ended")
  /\ UNCHANGED <<table, g_stop, guest, next, sounding>>

\* all_notes_off, and the thread is over.
Leave(t) ==
  /\ At(t, "off")
  /\ sounding' = {}
  /\ Goes(t, "ended")
  /\ UNCHANGED <<table, g_stop, guest, next>>

Play(t) == Look(t) \/ Due(t) \/ Send(t) \/ Leave(t)

Next ==
  \/ \E x \in Tune \cup {NoTune} : Register(x)
  \/ Guest
  \/ \E t \in Player : Play(t)

\* The host runs every thread, and a tune is finite.
Fairness == WF_vars(Guest) /\ \A t \in Player : WF_vars(Play(t))

Spec == Init /\ [][Next]_vars /\ Fairness

-----------------------------------------------------------------------------
(* Correctness properties.                                                 *)

\* Every variable has its type, and the table is never longer than g_ev.
TypeOK ==
  /\ Len(table) <= MaxEvents
  /\ \A i \in 1 .. Len(table) :
       /\ table[i].kind \in {"on", "off", "other"}
       /\ table[i].note \in Note /\ table[i].tick \in Nat
  /\ g_stop \in BOOLEAN /\ g_thread \in Player \cup {0} /\ g_midi \in BOOLEAN
  /\ gpc \in {"game", "wait", "quiet", "fill", "sort", "start"}
  /\ tune \in Tune \cup {NoTune}
  /\ ppc \in [Player -> {"none", "look", "due", "send", "off", "ended"}]
  /\ \A t \in Player : next[t] \in 1 .. MaxEvents + 1
  /\ sounding \subseteq Note /\ timedOut \in BOOLEAN

\* What test_xmi.c asserts of a parsed tune: the ticks never go back, no note
\* is let go of before it is struck, and every one is let go of in the end.
\* The last holds only of a tune that fits in the table: one that does not
\* loses messages at its end, and these may be the offs of notes it kept.
ParsedTune ==
  gpc = "start" => Playable(table, Note) /\ (Fits(tune) => Answered(table, Note))

\* "Any sequence already playing is stopped." (music.h, lines 17-18): there is
\* one player at most and it is the one the guest can stop, as long as no
\* player has outlived the two seconds music_stop waits for it.
OnePlayer == ~timedOut => Live \subseteq {g_thread}

\* The table is filled only while no player reads it, with the same proviso.
\* Nothing but the order of the steps in music_play_xmi sees to it.
TableIsStill == [][table' # table => timedOut \/ Live = {}]_vars

\* No note hangs when the last player has gone: not when it was stopped in
\* the middle of a tune, and not when two played at once.
SilentAtRest == Live = {} => sounding = {}

\* A tune that nobody stopped has been played to its end when its player
\* goes: g_stop of an earlier tune never reaches it.
WholeTune ==
  \A t \in Player :
    (t = g_thread /\ gpc = "game" /\ ~timedOut /\ ppc[t] \in {"off", "ended"})
      => next[t] = Len(table) + 1

\* Every player comes to its end, also one that the guest has given up on.
PlayersEnd == \A t \in Player : ppc[t] = "look" ~> ppc[t] = "ended"
=============================================================================
