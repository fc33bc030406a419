-------------------------------- MODULE Mouse --------------------------------
(***************************************************************************)
(* The mouse: the person's hand, the window's messages (wndproc and        *)
(* note_mouse in src/recomp/video.c), the click script of DINO_CLICK, and  *)
(* INT 33h (mouse33 in src/recomp/runtime16.c).                            *)
(*                                                                         *)
(* The window hears of a button only while the pointer is over it or it    *)
(* holds the capture, and only when the guest's thread pumps messages; the *)
(* guest hears of it only when it polls, and is then told of presses and   *)
(* releases by counts.  Only x is modelled: y is treated the same way,     *)
(* without the doubling.                                                   *)
(***************************************************************************)
EXTENDS Integers, Sequences

CONSTANTS
  Button,       \* 0 (left) and 1 (right)
  Left,         \* the button the script presses
  Width,        \* g_w, in VGA pixels
  Places,       \* where the pointer can be on the desktop, in VGA pixels
  ScriptPlaces, \* the points of DINO_CLICK, empty when it is not set
  Ranges,       \* what the guest sets with function 7: pairs <<low, high>>
  MaxMail,      \* bound: messages waiting
  MaxCount      \* bound: presses or releases not asked for

ASSUME MouseAssumption ==
  /\ Left \in Button
  /\ Width \in Nat \ {0} /\ Places \subseteq Int
  /\ ScriptPlaces \subseteq 0 .. Width - 1
  /\ Ranges \subseteq Int \X Int
  /\ MaxCount \in Nat

VARIABLES
  hand,      \* buttons held down, in fact
  place,     \* where the pointer is
  mail,      \* the window's messages
  pumping,   \* vga_window_pump is running
  captured,  \* SetCapture is in force
  mx, mbtn,  \* g_mx, g_mbtn
  prev,      \* g_m_prev
  press,     \* g_m_press
  rel,       \* g_m_rel
  pressAt,   \* g_m_px
  relAt,     \* g_m_rx
  range,     \* g_m_xmin, g_m_xmax
  lastX,     \* g_m_lastx
  reply,    \* where functions 5 and 6 last said it was, with when it happened
  told,      \* ghost: presses the guest was told of, less releases
  clean      \* ghost: since the last rest, one button at a time

person == <<hand, place>>
window == <<captured, mx, mbtn>>
driver == <<prev, press, rel, pressAt, relAt, range, lastX, reply, told>>
mouseVars == <<person, mail, pumping, window, driver, clean>>

Over == 0 .. Width - 1

NoReply == [x |-> 0, fresh |-> FALSE]

\* x held between low and high.
Clamp(x, low, high) == IF x < low THEN low ELSE IF x > high THEN high ELSE x

Whole == <<0, 2 * Width - 1>>

MouseInit ==
  /\ hand = {} /\ place \in Places
  /\ mail = <<>> /\ pumping = FALSE
  /\ captured = FALSE /\ mx = 0 /\ mbtn = {}
  /\ prev = {}
  /\ press = [b \in Button |-> 0] /\ rel = [b \in Button |-> 0]
  /\ pressAt = [b \in Button |-> 0] /\ relAt = [b \in Button |-> 0]
  /\ range = Whole /\ lastX = 0 /\ reply = NoReply
  /\ told = [b \in Button |-> 0] /\ clean = TRUE

-----------------------------------------------------------------------------
(* The person, at any time.                                                *)

Post(what, b) ==
  /\ Len(mail) < MaxMail
  /\ mail' = Append(mail, [what |-> what, button |-> b, x |-> place])

AtRest == hand = {} /\ mail = <<>> /\ mbtn = {}

PressButton(b) ==
  /\ b \notin hand
  /\ Post("down", b)
  /\ hand' = hand \cup {b}
  /\ clean' = (AtRest \/ (clean /\ hand = {}))
  /\ UNCHANGED <<place, pumping, window, driver>>

ReleaseButton(b) ==
  /\ b \in hand
  /\ Post("up", b)
  /\ hand' = hand \ {b}
  /\ UNCHANGED <<place, pumping, window, driver, clean>>

MovePointer(x) ==
  /\ x # place
  /\ place' = x
  /\ mail' = IF Len(mail) < MaxMail
             THEN Append(mail, [what |-> "move", button |-> Left, x |-> x])
             ELSE mail  \* Windows folds moves together
  /\ UNCHANGED <<hand, pumping, window, driver, clean>>

\* Another window takes the capture: the host's, so it happens or not.
LoseCapture ==
  /\ captured
  /\ captured' = FALSE /\ clean' = FALSE
  /\ UNCHANGED <<person, mail, pumping, mx, mbtn, driver>>

-----------------------------------------------------------------------------
(* The window, when the guest's thread presents a frame.                   *)

StartPump ==
  /\ ~pumping /\ pumping' = TRUE
  /\ UNCHANGED <<person, mail, window, driver, clean>>

\* Mutant: a press does not take the capture.
NoteUncaptured(m) ==
  /\ mx' = Clamp(m.x, 0, Width - 1)
  /\ mbtn' = CASE m.what = "down" -> mbtn \cup {m.button}
               [] m.what = "up"   -> mbtn \ {m.button}
               [] OTHER           -> mbtn
  /\ UNCHANGED captured

\* wndproc and note_mouse: the release of either button lets go.
Note(m) ==
  /\ mx' = Clamp(m.x, 0, Width - 1)
  /\ mbtn' = CASE m.what = "down" -> mbtn \cup {m.button}
               [] m.what = "up"   -> mbtn \ {m.button}
               [] OTHER           -> mbtn
  /\ captured' = CASE m.what = "down" -> TRUE
                   [] m.what = "up"   -> FALSE
                   [] OTHER           -> captured

\* The window is given a message when it is its own.
PumpOne ==
  /\ pumping /\ mail # <<>>
  /\ mail' = Tail(mail)
  /\ IF captured \/ Head(mail).x \in Over THEN Note(Head(mail))
                                          ELSE UNCHANGED window
  /\ UNCHANGED <<person, pumping, driver, clean>>

StopPump ==
  /\ pumping /\ mail = <<>>
  /\ pumping' = FALSE
  /\ UNCHANGED <<person, mail, window, driver, clean>>

-----------------------------------------------------------------------------
(* INT 33h.  Every function first looks at the pointer (vga_window_mouse,  *)
(* click_script) and counts the edges since the last call.                 *)

\* What a call can see: the window's pointer, or the script's.  Before its
\* first point the script changes nothing; at a point it moves the pointer,
\* and for a while it holds the left button in place of the window's.
Seen ==
  {[x |-> mx, buttons |-> mbtn]}
    \cup [x : ScriptPlaces, buttons : {mbtn, {Left}}]

Pressed(v) == [b \in Button |->
                 press[b] + IF b \in v.buttons \ prev THEN 1 ELSE 0]
Released(v) == [b \in Button |->
                  rel[b] + IF b \in prev \ v.buttons THEN 1 ELSE 0]

\* Where each button last went down, and up: doubled, and not clamped.
PressedAt(v) == [b \in Button |->
                   IF b \in v.buttons \ prev THEN 2 * v.x ELSE pressAt[b]]
ReleasedAt(v) == [b \in Button |->
                    IF b \in prev \ v.buttons THEN 2 * v.x ELSE relAt[b]]

Pointer(v) == Clamp(2 * v.x, range[1], range[2])

Edges(v) ==
  /\ ~pumping
  /\ \A b \in Button : Pressed(v)[b] <= MaxCount /\ Released(v)[b] <= MaxCount
  /\ pressAt' = PressedAt(v) /\ relAt' = ReleasedAt(v)
  /\ prev' = v.buttons
  /\ UNCHANGED <<person, mail, pumping, window, clean>>

\* Functions 1 to 4, and any that does nothing: only the edges count.
AskOther(v) ==
  /\ Edges(v)
  /\ press' = Pressed(v) /\ rel' = Released(v) /\ reply' = NoReply
  /\ UNCHANGED <<range, lastX, told>>

\* Functions 0 and 7: 0 sets the whole screen.
SetRange(v, r) ==
  /\ Edges(v)
  /\ press' = Pressed(v) /\ rel' = Released(v) /\ reply' = NoReply
  /\ range' = r
  /\ UNCHANGED <<lastX, told>>

\* Function 0Bh.
AskMotion(v) ==
  /\ Edges(v)
  /\ press' = Pressed(v) /\ rel' = Released(v) /\ reply' = NoReply
  /\ lastX' = Pointer(v)
  /\ UNCHANGED <<range, told>>

\* Mutant: the count is cleared before the call's own edge is added.
AskPressesEarly(v, b) ==
  /\ Edges(v)
  /\ told' = [told EXCEPT ![b] = @ + press[b]]
  /\ press' = [Pressed(v) EXCEPT ![b] = 0] /\ rel' = Released(v)
  /\ reply' = [x |-> PressedAt(v)[b], fresh |-> b \in v.buttons \ prev]
  /\ UNCHANGED <<range, lastX>>

\* Function 5: the presses of a button since this was last asked.
AskPresses(v, b) ==
  /\ Edges(v)
  /\ told' = [told EXCEPT ![b] = @ + Pressed(v)[b]]
  /\ press' = [Pressed(v) EXCEPT ![b] = 0] /\ rel' = Released(v)
  /\ reply' = [x |-> PressedAt(v)[b], fresh |-> b \in v.buttons \ prev]
  /\ UNCHANGED <<range, lastX>>

\* Function 6: its releases.
AskReleases(v, b) ==
  /\ Edges(v)
  /\ told' = [told EXCEPT ![b] = @ - Released(v)[b]]
  /\ rel' = [Released(v) EXCEPT ![b] = 0] /\ press' = Pressed(v)
  /\ reply' = [x |-> ReleasedAt(v)[b], fresh |-> b \in prev \ v.buttons]
  /\ UNCHANGED <<range, lastX>>

MouseNext ==
  \/ \E b \in Button : PressButton(b) \/ ReleaseButton(b)
  \/ \E x \in Places : MovePointer(x)
  \/ LoseCapture \/ StartPump \/ PumpOne \/ StopPump
  \/ \E v \in Seen :
       \/ AskOther(v)
       \/ \E r \in Ranges \cup {Whole} : SetRange(v, r)
       \/ AskMotion(v)
       \/ \E b \in Button : AskPresses(v, b) \/ AskReleases(v, b)

MouseSpec == MouseInit /\ [][MouseNext]_mouseVars

-----------------------------------------------------------------------------
Message == [what : {"down", "up", "move"}, button : Button, x : Places]

MouseTypeOK ==
  /\ hand \subseteq Button /\ place \in Places
  /\ mail \in Seq(Message) /\ pumping \in BOOLEAN
  /\ captured \in BOOLEAN /\ mx \in Over /\ mbtn \subseteq Button
  /\ prev \subseteq Button
  /\ press \in [Button -> Nat] /\ rel \in [Button -> Nat]
  /\ pressAt \in [Button -> Nat] /\ relAt \in [Button -> Nat]
  /\ range \in Int \X Int /\ lastX \in Int
  /\ reply \in [x : Nat, fresh : BOOLEAN]
  /\ told \in [Button -> Int] /\ clean \in BOOLEAN

\* A button let go is let go for the game as soon as the messages are
\* handled, wherever the pointer was dragged meanwhile, as long as only one
\* was held at a time and nobody took the capture: a press takes it and a
\* release is heard (video.c, WM_LBUTTONDOWN).  With two buttons down the
\* first release gives the capture up and the second can be lost.
SingleClickSettles == clean /\ mail = <<>> => mbtn \subseteq hand

\* The presses the guest was told of, less the releases, with those it has
\* not asked for yet, are the button as the last call saw it: whatever the
\* window, the script and the order of the questions did, no press or
\* release is told twice or dropped (mouse33, functions 5 and 6).
CountsAgree ==
  \A b \in Button :
    told[b] + press[b] - rel[b] = IF b \in prev THEN 1 ELSE 0

\* What the comment over mouse33 says: ranges set through functions 7 and 8
\* are honoured.  Stated of the position functions 5 and 6 answer with, when
\* the edge was found by the call itself, with the range in force.
RangeHonoured == reply.fresh => reply.x \in range[1] .. range[2]
=============================================================================
