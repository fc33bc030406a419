------------------------------ MODULE Keyboard ------------------------------
(***************************************************************************)
(* A key press on its way from the window to the game: the window's own    *)
(* queue (src/recomp/video.c), the pump that fills it, key_tick and        *)
(* key_inject (src/recomp/runtime16.c), the game's ring and held flags in  *)
(* its data segment, and the word INT 16h answers with.                    *)
(*                                                                         *)
(* Everything below the person runs on one thread.  int_handler has this   *)
(* order: flush a frame if one is due, and with it pump the window;        *)
(* key_tick; timer_tick, which may run the game's own INT 8 handler and    *)
(* through it one more int_handler; then the service.  A poll of port 3DAh *)
(* flushes a due frame too, and pumps, with no key_tick behind it; that    *)
(* the game's INT 8 handler polls the port itself is left out.  The        *)
(* person acts while the game runs: a message that arrives during the      *)
(* pump is the same as one that arrived just before it, and one that       *)
(* arrives later in the handler waits for the next pump.                   *)
(*                                                                         *)
(* Both queues are rings of slots in the code; that a ring is the bounded  *)
(* queue written here is what module RingQueue is about.  The pacing by    *)
(* the clock (a frame each 16 ms, a scripted key each KEY_PERIOD ticks) is *)
(* a choice.  g_dgroup is set by the loader before the first interrupt.    *)
(***************************************************************************)
EXTENDS Integers, Sequences

CONSTANTS
  Code,         \* scancodes with a key; none is 0
  Typed,        \* the keys the person uses
  HostSize,     \* slots of g_keyq
  RingSize,     \* slots of the game's ring
  NamedScript,  \* the keys of DINO_KEYS, when it names some
  Space,        \* the key of the script there is without DINO_KEYS
  MaxMessages,  \* bound on the messages that wait for a pump
  IsrService    \* the services the game's INT 8 handler asks for

ASSUME KeyboardAssumption ==
  /\ HostSize \in Nat \ {0} /\ RingSize \in Nat \ {0}
  /\ MaxMessages \in Nat
  /\ Typed \subseteq Code /\ Space \in Code /\ 0 \notin Code
  /\ NamedScript \in Seq(Code) /\ NamedScript # <<>>
  /\ IsrService \subseteq {"mode13", "peek", "take", "other"}

\* A message of the window about a key.  Close is the one about the window.
KeyEvent == [code : Code, up : BOOLEAN]
Close    == [code |-> 0, up |-> TRUE]

Service  == {"mode13", "peek", "take", "other"}
Idle     == "none"
Phase    == {"game", "pump", "keys", "timer", "again", "serve"}

VARIABLES
  down,       \* the keys the person holds down
  focus,      \* the window has the keyboard
  win,        \* "none" yet, "open", "closing" once g_closed is set, "closed"
  messages,   \* posted to the window, not yet pumped
  keyq,       \* g_keyq, from head to tail
  held,       \* the game's held flag of each key, DGROUP:0158
  ring,       \* the game's ring, DGROUP:0148, from head to tail
  pending,    \* g_key_pending: the key in it, or 0
  live,       \* g_vga_live
  named,      \* DINO_KEYS is set
  use_script, \* -1 until key_tick decides
  key_i,      \* g_key_i, from 1
  releasing,  \* the scripted key is down
  phase,      \* where int_handler is; a poll of 3DAh is in its pump
  svc,        \* the service it will perform; none at a poll
  outer,      \* the service of the handler its timer ISR interrupted
  \* For the properties.
  lost,       \* the release of a key went elsewhere, or was dropped
  promised    \* INT 16h has said that a key waits

world   == <<down, focus>>
guest   == <<held, ring, pending>>
script  == <<named, use_script, key_i, releasing>>
control == <<phase, svc, outer>>
vars    == <<down, focus, win, messages, keyq, held, ring, pending, live,
             named, use_script, key_i, releasing, phase, svc, outer, lost,
             promised>>

Script == IF named THEN NamedScript ELSE <<Space>>

Init ==
  /\ down = {} /\ focus = FALSE /\ win = "none" /\ messages = <<>>
  /\ keyq = <<>>
  /\ held = [c \in Code |-> FALSE] /\ ring = <<>> /\ pending = 0
  /\ live = FALSE
  /\ named \in BOOLEAN /\ use_script = -1 /\ key_i = 1 /\ releasing = FALSE
  /\ phase = "game" /\ svc = Idle /\ outer = Idle
  /\ lost = [c \in Code |-> FALSE] /\ promised = FALSE

-----------------------------------------------------------------------------
(* The person and the window.                                              *)

InHand == phase = "game" /\ Len(messages) < MaxMessages

Post(e) == messages' = IF focus THEN Append(messages, e) ELSE messages

\* The untouched part when the person acts.
Machine == <<keyq, held, ring, pending, live, named, use_script, key_i,
             releasing, phase, svc, outer, promised>>

\* WM_KEYDOWN, the first one and the ones Windows repeats while it is down.
Press(c) ==
  /\ InHand
  /\ down' = down \cup {c}
  /\ Post([code |-> c, up |-> FALSE])
  /\ lost' = [lost EXCEPT ![c] = FALSE]
  /\ UNCHANGED <<Machine, focus, win>>

\* WM_KEYUP goes to whichever window has the keyboard at the time.
Release(c) ==
  /\ InHand /\ c \in down
  /\ down' = down \ {c}
  /\ Post([code |-> c, up |-> TRUE])
  /\ lost' = [lost EXCEPT ![c] = ~focus]
  /\ UNCHANGED <<Machine, focus, win>>

\* The keyboard goes to another window, or comes back.  wndproc is told and
\* does nothing about it.
FocusChange ==
  /\ InHand /\ win = "open"
  /\ focus' = ~focus
  /\ UNCHANGED <<Machine, down, win, messages, lost>>

CloseWindow ==
  /\ InHand /\ win = "open"
  /\ \A i \in 1 .. Len(messages) : messages[i] # Close
  /\ messages' = Append(messages, Close)
  /\ UNCHANGED <<Machine, down, focus, win, lost>>

\* The game takes a key out of its ring.
ReadRing ==
  /\ phase = "game" /\ ring # <<>>
  /\ ring' = Tail(ring)
  /\ UNCHANGED <<world, win, messages, keyq, held, pending, live, script,
                 control, lost, promised>>

-----------------------------------------------------------------------------
(* int_handler, up to the service.                                         *)

AtRest == UNCHANGED <<world, win, messages, keyq, guest, live, script, lost, promised>>

\* An interrupt; due says whether a frame is due.
Interrupt(s, due) ==
  /\ phase = "game"
  /\ svc' = s
  /\ phase' = IF live /\ due THEN "pump" ELSE "keys"
  /\ UNCHANGED outer /\ AtRest

\* The game polls port 3DAh, and a frame is due.  One that is not due leaves
\* no trace.
RetracePoll ==
  /\ phase = "game" /\ live
  /\ phase' = "pump"
  /\ UNCHANGED <<svc, outer>> /\ AtRest

\* Mutant: the queue is allowed to fill its last slot.
PushToLast(q, e) == IF Len(q) = HostSize THEN q ELSE Append(q, e)

\* push_key: one slot stays empty, and a key that finds no room is dropped.
Push(q, e) == IF Len(q) = HostSize - 1 THEN q ELSE Append(q, e)

\* The release that is being pushed is the last that was heard of the key.
LastHeard(e) ==
  /\ e.up /\ e.code \notin down
  /\ \A i \in 2 .. Len(messages) : messages[i].code # e.code

\* One turn of the pump's loop.  WM_CLOSE only sets g_closed; the messages
\* behind it are still dispatched.
PumpKey ==
  LET e == Head(messages) IN
  /\ phase = "pump" /\ messages # <<>> /\ e # Close
  /\ keyq' = Push(keyq, e)
  /\ lost' = IF keyq' = keyq /\ LastHeard(e)
             THEN [lost EXCEPT ![e.code] = TRUE] ELSE lost
  /\ messages' = Tail(messages)
  /\ UNCHANGED <<world, win, guest, live, script, control, promised>>

PumpClose ==
  /\ phase = "pump" /\ messages # <<>> /\ Head(messages) = Close
  /\ win' = "closing"
  /\ messages' = Tail(messages)
  /\ UNCHANGED <<world, keyq, guest, live, script, control, lost, promised>>

\* The loop is through: a window that was closed is destroyed, once.  After a
\* poll the game goes on, and what was pumped waits for an interrupt.
PumpEnd ==
  /\ phase = "pump" /\ messages = <<>>
  /\ win' = IF win = "closing" THEN "closed" ELSE win
  /\ focus' = (focus /\ win' = "open")
  /\ phase' = IF svc = Idle THEN "game" ELSE "keys"
  /\ UNCHANGED <<down, messages, keyq, guest, live, script, svc, outer, lost, promised>>

-----------------------------------------------------------------------------
(* key_tick.                                                               *)

InKeyTick == phase \in {"keys", "again"}

\* Mutant: the held flag is looked at before the release is.
InjectHeldFirst(c, up) ==
  /\ pending' = IF up THEN pending ELSE c
  /\ IF held[c] THEN UNCHANGED <<held, ring>>
     ELSE /\ held' = [held EXCEPT ![c] = ~up]
          /\ ring' = IF up \/ Len(ring) = RingSize - 1 THEN ring ELSE Append(ring, c)

\* Mutant: a release empties the pending word.
InjectReleaseClears(c, up) ==
  /\ pending' = IF up THEN 0 ELSE c
  /\ held' = [held EXCEPT ![c] = ~up]
  /\ ring' = IF up \/ held[c] \/ Len(ring) = RingSize - 1
             THEN ring ELSE Append(ring, c)

\* key_inject.  A press of a key that is not held is marked held even when
\* the game's ring has no room for it.
Inject(c, up) ==
  /\ pending' = IF up THEN pending ELSE c
  /\ held' = [held EXCEPT ![c] = ~up]
  /\ ring' = IF up \/ held[c] \/ Len(ring) = RingSize - 1
             THEN ring ELSE Append(ring, c)

\* The real keys, as long as there are any.
Drain ==
  /\ InKeyTick /\ keyq # <<>>
  /\ Inject(Head(keyq).code, Head(keyq).up)
  /\ keyq' = Tail(keyq)
  /\ UNCHANGED <<world, win, messages, live, script, control, lost, promised>>

\* Where key_tick returns to.
AfterKeyTick == phase' = IF phase = "keys" THEN "timer" ELSE "serve"

\* use_script, decided by the first key_tick of all and kept.
Decided == IF use_script # -1 THEN use_script
           ELSE IF named \/ ~live THEN 1 ELSE 0

\* No script, or it is not time for its next key.
ScriptIdle ==
  /\ InKeyTick /\ keyq = <<>>
  /\ use_script' = Decided
  /\ AfterKeyTick
  /\ UNCHANGED <<world, win, messages, keyq, guest, live, named, key_i, releasing,
                 svc, outer, lost, promised>>

\* The script's key goes down, or comes up; it stays on its last key.
ScriptTypes ==
  /\ InKeyTick /\ keyq = <<>>
  /\ Decided = 1 /\ use_script' = Decided
  /\ Inject(Script[key_i], releasing)
  /\ key_i' = IF releasing /\ key_i < Len(Script) THEN key_i + 1 ELSE key_i
  /\ releasing' = ~releasing
  /\ AfterKeyTick
  /\ UNCHANGED <<world, win, messages, keyq, live, named, svc, outer, lost, promised>>

-----------------------------------------------------------------------------
(* timer_tick, and the service.                                            *)

\* No tick has gone by, or the game has no INT 8 handler, or it is running.
TimerDone ==
  /\ phase = "timer"
  /\ phase' = IF svc \in {"peek", "take"} THEN "again" ELSE "serve"
  /\ UNCHANGED <<svc, outer>> /\ AtRest

\* The game's INT 8 handler makes an interrupt of its own.  A second tick
\* cannot run it again while it is inside.
TimerIsr(s, due) ==
  /\ phase = "timer" /\ outer = Idle
  /\ outer' = svc
  /\ svc' = s
  /\ phase' = IF live /\ due THEN "pump" ELSE "keys"
  /\ AtRest

\* Back to the game, or to the handler that was interrupted, whose ISR ends.
Return ==
  /\ svc' = outer
  /\ outer' = Idle
  /\ phase' = IF outer = Idle THEN "game"
              ELSE IF outer \in {"peek", "take"} THEN "again" ELSE "serve"

Serving(s) == phase = "serve" /\ svc = s

\* INT 16h, AH = 1: is a key waiting?
Peek ==
  /\ Serving("peek")
  /\ promised' = (promised \/ pending # 0)
  /\ Return
  /\ UNCHANGED <<world, win, messages, keyq, guest, live, script, lost>>

\* INT 16h, AH = 0: take it.  It does not wait for one.
Take ==
  /\ Serving("take")
  /\ pending' = 0 /\ promised' = FALSE
  /\ Return
  /\ UNCHANGED <<world, win, messages, keyq, held, ring, live, script, lost>>

\* INT 10h, AX = 0013h: open the window.  Closed once, it stays closed; the
\* person's keyboard is given to a new window.
Mode13 ==
  /\ Serving("mode13")
  /\ win' = IF win = "none" THEN "open" ELSE win
  /\ focus' = (focus \/ win = "none")
  /\ live' = (win # "closed")
  /\ Return
  /\ UNCHANGED <<down, messages, keyq, guest, script, lost, promised>>

Other ==
  /\ Serving("other")
  /\ Return
  /\ AtRest

-----------------------------------------------------------------------------
Handler ==
  \/ PumpKey \/ PumpClose \/ PumpEnd
  \/ Drain \/ ScriptIdle \/ ScriptTypes
  \/ TimerDone
  \/ Peek \/ Take \/ Mode13 \/ Other

Next ==
  \/ \E c \in Typed : Press(c)
  \/ \E c \in Typed : Release(c)
  \/ FocusChange
  \/ CloseWindow
  \/ ReadRing
  \/ \E s \in Service, due \in BOOLEAN : Interrupt(s, due)
  \/ RetracePoll
  \/ \E s \in IsrService, due \in BOOLEAN : TimerIsr(s, due)
  \/ Handler

\* A frame that is taken while the game runs.
Frame == RetracePoll \/ \E s \in Service : Interrupt(s, TRUE)

\* int_handler runs to its end.  The game keeps making interrupts: its main
\* loop polls the mouse.  Frames fall due with the clock, so they are taken
\* again and again, each by an interrupt or by a poll of 3DAh.
Fairness ==
  /\ WF_vars(Handler)
  /\ SF_vars(\E due \in BOOLEAN : Interrupt("other", due))
  /\ SF_vars(Frame)

Spec == Init /\ [][Next]_vars /\ Fairness

-----------------------------------------------------------------------------
(* Correctness properties.                                                 *)

\* Every variable has its type; the two rings keep one slot empty.
TypeOK ==
  /\ down \subseteq Code /\ focus \in BOOLEAN
  /\ win \in {"none", "open", "closing", "closed"}
  /\ messages \in Seq(KeyEvent \cup {Close}) /\ Len(messages) <= MaxMessages
  /\ keyq \in Seq(KeyEvent) /\ Len(keyq) < HostSize
  /\ held \in [Code -> BOOLEAN] /\ pending \in Code \cup {0}
  /\ ring \in Seq(Code) /\ Len(ring) < RingSize
  /\ live \in BOOLEAN /\ named \in BOOLEAN
  /\ use_script \in -1 .. 1 /\ key_i \in 1 .. Len(Script) /\ releasing \in BOOLEAN
  /\ phase \in Phase
  /\ svc \in Service \cup {Idle} /\ outer \in Service \cup {Idle}
  /\ lost \in [Code -> BOOLEAN] /\ promised \in BOOLEAN

\* What is on its way to the game, oldest first.
Coming == keyq \o messages

\* The script has pressed c and not yet let go of it.
Scripted(c) == releasing /\ Script[key_i] = c

\* A key the person has let go of is let go of in the game too, or its release
\* is on the way as the last thing that is said of the key, unless that
\* release was dropped by the full queue or went to another window.  Held
\* flags block every later press, so one that is forgotten deadens its key.
ReleaseNotForgotten ==
  \A c \in Code \ down :
    LET said == {i \in 1 .. Len(Coming) : Coming[i].code = c}
    IN  ~lost[c] =>
          IF said = {} THEN held[c] => Scripted(c)
          ELSE \E i \in said : Coming[i].up /\ \A j \in said : j <= i

\* A program that was told by INT 16h that a key waits gets one when it takes
\* it, whatever the person, the script and the timer do in between.
PeekedKeyIsThere == promised => pending # 0

\* The game hears of every release in the end, or the person has pressed the
\* key again, or the release was lost, or the script holds the key.
ReleaseArrives ==
  \A c \in Code :
    (c \notin down /\ ~lost[c]) ~> (~held[c] \/ c \in down \/ lost[c] \/ Scripted(c))

\* "The script stays for runs with nobody there -- headless, or when DINO_KEYS
\* names one" (runtime16.c, lines 1082-1083): with a window and no DINO_KEYS
\* the script is off.
ScriptOnlyUnattended == live /\ ~named => use_script # 1
=============================================================================
