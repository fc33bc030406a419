------------------------------- MODULE Sampler -------------------------------
(***************************************************************************)
(* Two threads and one buffer.  The guest's thread composes the screen     *)
(* into g_compose to present it (vga_flush_paced, vga_flush) and to sample *)
(* it (vga_sample); the clock's thread of src/boot.c samples it too, every *)
(* 55 ms, with no lock.  vga_frame goes pixel by pixel, from the page the  *)
(* CRTC pointed at when it began.                                          *)
(*                                                                         *)
(* Mode X only: in mode 13h nothing is composed.  What a sampler does with *)
(* the frame afterwards reads the buffer and is left out.  So is the       *)
(* watchdog, which composes one frame more, for a snapshot, right before   *)
(* it ends the process.                                                    *)
(***************************************************************************)
EXTENDS Naturals

CONSTANTS
  Pixels,  \* pixels of the screen
  Page,    \* where in display memory a screen can begin
  Shade    \* colours

ASSUME SamplerAssumption == Pixels \in Nat \ {0} /\ Page # {} /\ Shade # {}

VARIABLES
  vram,     \* the pages, in g_plane
  shown,    \* the page at the CRTC's start address
  compose,  \* g_compose
  next,     \* each thread's next pixel in vga_frame's loop
  from,     \* the page it reads
  screen,   \* what the window shows
  stale,    \* ghost: the guest drew or flipped since the clock's loop began
  spoiled   \* ghost: it was stale when the guest's own loop began

samplerVars ==
  <<vram, shown, compose, next, from, screen, stale, spoiled>>

Thread == {"guest", "clock"}
ScreenPixel == 0 .. Pixels - 1

Composed == Pixels   \* the loop is over, the frame is still to be used
Idle == Pixels + 1   \* not in vga_frame

InLoop(t) == next[t] \in ScreenPixel

Blank == CHOOSE c \in Shade : TRUE

SamplerInit ==
  /\ vram = [g \in Page |-> [i \in ScreenPixel |-> Blank]]
  /\ shown \in Page
  /\ compose = vram[shown] /\ screen = vram[shown]
  /\ next = [t \in Thread |-> Idle]
  /\ from = [t \in Thread |-> shown]
  /\ stale = FALSE /\ spoiled = FALSE

\* The guest draws, and flips, when its thread is not in the runtime.
Draw(g, i, v) ==
  /\ next["guest"] = Idle
  /\ vram' = [vram EXCEPT ![g][i] = v]
  /\ stale' = InLoop("clock")
  /\ UNCHANGED <<shown, compose, next, from, screen, spoiled>>

Flip(g) ==
  /\ next["guest"] = Idle
  /\ shown' = g
  /\ stale' = InLoop("clock")
  /\ UNCHANGED <<vram, compose, next, from, screen, spoiled>>

\* Mutant: the start address is not looked at.
BeginAtZero(t) ==
  /\ next[t] = Idle
  /\ next' = [next EXCEPT ![t] = 0]
  /\ from' = [from EXCEPT ![t] = CHOOSE g \in Page : TRUE]
  /\ stale' = (stale /\ t = "guest")
  /\ spoiled' = IF t = "guest" THEN stale /\ InLoop("clock") ELSE spoiled
  /\ UNCHANGED <<vram, shown, compose, screen>>

\* vga_frame, up to its loop.
Begin(t) ==
  /\ next[t] = Idle
  /\ next' = [next EXCEPT ![t] = 0]
  /\ from' = [from EXCEPT ![t] = shown]
  /\ stale' = (stale /\ t = "guest")
  /\ spoiled' = IF t = "guest" THEN stale /\ InLoop("clock") ELSE spoiled
  /\ UNCHANGED <<vram, shown, compose, screen>>

\* One turn of it.
ComposeOne(t) ==
  /\ InLoop(t)
  /\ compose' = [compose EXCEPT ![next[t]] = vram[from[t]][next[t]]]
  /\ next' = [next EXCEPT ![t] = @ + 1]
  /\ UNCHANGED <<vram, shown, from, screen, stale, spoiled>>

\* vga_window_present.
Present ==
  /\ next["guest"] = Composed
  /\ screen' = compose
  /\ next' = [next EXCEPT !["guest"] = Idle]
  /\ UNCHANGED <<vram, shown, compose, from, stale, spoiled>>

\* vga_sample: the frame is counted, and kept if it is the richest.
Sampled(t) ==
  /\ next[t] = Composed
  /\ next' = [next EXCEPT ![t] = Idle]
  /\ UNCHANGED <<vram, shown, compose, from, screen, stale, spoiled>>

SamplerNext ==
  \/ \E g \in Page : Flip(g) \/ \E i \in ScreenPixel, v \in Shade : Draw(g, i, v)
  \/ \E t \in Thread : Begin(t) \/ ComposeOne(t) \/ Sampled(t)
  \/ Present

SamplerSpec == SamplerInit /\ [][SamplerNext]_samplerVars

-----------------------------------------------------------------------------
Picture == [ScreenPixel -> Shade]

SamplerTypeOK ==
  /\ vram \in [Page -> Picture] /\ shown \in Page
  /\ compose \in Picture /\ screen \in Picture
  /\ next \in [Thread -> 0 .. Idle] /\ from \in [Thread -> Page]
  /\ stale \in BOOLEAN /\ spoiled \in BOOLEAN

\* The frame the guest's thread is about to present is the page on show,
\* pixel for pixel, even when the clock's thread composes into the same
\* buffer at the same time: it writes the same pixels, as long as the guest
\* neither drew nor flipped between the beginning of the clock's loop and
\* the beginning of its own.  When it did, and the clock's loop is not over
\* yet, a frame can be two pages, and nothing in the code prevents it.
WholeFrames ==
  next["guest"] = Composed /\ ~spoiled => compose = vram[shown]
=============================================================================
