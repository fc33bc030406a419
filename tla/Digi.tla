-------------------------------- MODULE Digi --------------------------------
(***************************************************************************)
(* The digital sound effects: AIL call 68Bh (ail_sound in                  *)
(* src/recomp/runtime16.c) and the wave output (src/recomp/digi.c).        *)
(*                                                                         *)
(* DIGPAK had one channel, so a new effect replaces what plays.  The host  *)
(* device has a queue of buffers; the channel is made of it by a reset     *)
(* before every effect.  The buffers are digi.c's, and the device reads    *)
(* one for as long as its header does not say it is done: the device is a  *)
(* thread of the host's, and finishes a buffer whenever it likes.          *)
(*                                                                         *)
(* A sample is a name, not bytes: an address and length (a place), and     *)
(* what the guest keeps there when the effect is asked for.                *)
(***************************************************************************)
EXTENDS Integers, FiniteSets

CONSTANTS
  DigiSlots,  \* DIGI_SLOTS
  Spot,       \* addresses and lengths of samples, as ail_sound compares them
  Sound,      \* what the guest can have there
  Silence     \* no sound, no spot

ASSUME DigiAssumption ==
  DigiSlots \in Nat \ {0} /\ Silence \notin Sound \cup Spot

VARIABLES
  enabled,  \* g_on: FALSE with DINO_SFX=0 or when no device opened
  device,   \* g_wo is open
  header,   \* g_hdr: "none" (lpData is null), "queued", "done" (WHDR_DONE)
  buffer,   \* g_buf: what each holds
  ram,      \* what the guest keeps at each spot
  last,     \* last_at, last_ln
  recent,   \* less than 250 ms since last_ms
  want,     \* ghost: the sound of the guest's last call for an effect
  excused   \* ghost: the last call was refused, or its sample changed since

host == <<enabled, device, header, buffer>>
digiVars == <<host, ram, last, recent, want, excused>>

WaveSlot == 1 .. DigiSlots

DigiInit ==
  /\ enabled \in BOOLEAN /\ device = FALSE
  /\ header = [s \in WaveSlot |-> "none"]
  /\ buffer = [s \in WaveSlot |-> Silence]
  /\ ram = [p \in Spot |-> Silence]
  /\ last = Silence /\ recent = FALSE
  /\ want = Silence /\ excused = FALSE

\* waveOutReset: every queued buffer comes back, marked done.
Returned == [s \in WaveSlot |-> IF header[s] = "queued" THEN "done"
                                                        ELSE header[s]]

\* free_slot: the first that was never used, or that is done.
Free(h) == {s \in WaveSlot : h[s] # "queued"}
First(t) == CHOOSE s \in t : \A r \in t : s <= r

-----------------------------------------------------------------------------
(* The guest asks for an effect: what ail_sound does with it.              *)

\* The second of the two calls that arrive for an effect.
Repeat(p) ==
  /\ p = last /\ recent
  /\ want' = ram[p]
  /\ UNCHANGED <<host, ram, last, recent, excused>>

\* Any other call, whatever becomes of it.
Asked(p) ==
  /\ ~(p = last /\ recent)
  /\ last' = p /\ recent' = TRUE

\* digi_play gives up before the device is touched: effects are off, the
\* struct is no SNDSTRUC, or the device does not open.
Refused(p) ==
  /\ Asked(p)
  /\ \/ UNCHANGED enabled
     \/ enabled /\ ~device /\ enabled' = FALSE
  /\ excused' = TRUE
  /\ UNCHANGED <<device, header, buffer, ram, want>>

\* Mutant: nothing gives way.
PlayOver(p) ==
  /\ Asked(p) /\ enabled /\ device' = TRUE
  /\ Free(header) # {}
  /\ LET s == First(Free(header)) IN
       /\ header' = [header EXCEPT ![s] = "queued"]
       /\ buffer' = [buffer EXCEPT ![s] = ram[p]]
  /\ want' = ram[p] /\ excused' = FALSE
  /\ UNCHANGED <<enabled, ram>>

\* The device is open, whatever plays gives way, and the sample is copied
\* into a free slot and queued.
Play(p) ==
  /\ Asked(p) /\ enabled /\ device' = TRUE
  /\ LET s == First(Free(Returned)) IN
       /\ header' = [Returned EXCEPT ![s] = "queued"]
       /\ buffer' = [buffer EXCEPT ![s] = ram[p]]
  /\ want' = ram[p] /\ excused' = FALSE
  /\ UNCHANGED <<enabled, ram>>

\* The same, until memory, the header or the device fails: nothing plays.
\* Before realloc the buffer is the old one, after it the sample's.
PlayFails(p) ==
  /\ Asked(p) /\ enabled /\ device' = TRUE
  /\ LET s == First(Free(Returned)) IN
       /\ header' = [Returned EXCEPT ![s] = "none"]
       /\ buffer' \in {buffer, [buffer EXCEPT ![s] = ram[p]]}
  /\ want' = ram[p] /\ excused' = FALSE
  /\ UNCHANGED <<enabled, ram>>

-----------------------------------------------------------------------------
(* Everything else.                                                        *)

\* The device finishes a buffer.
Finish(s) ==
  /\ header[s] = "queued"
  /\ header' = [header EXCEPT ![s] = "done"]
  /\ UNCHANGED <<enabled, device, buffer, ram, last, recent, want, excused>>

\* 250 ms since the last effect.
Forget ==
  /\ recent /\ recent' = FALSE
  /\ UNCHANGED <<host, ram, last, want, excused>>

\* The guest puts another sample where one was.
Load(p, v) ==
  /\ ram' = [ram EXCEPT ![p] = v]
  /\ excused' = (excused \/ (p = last /\ v # ram[p]))
  /\ UNCHANGED <<host, last, recent, want>>

DigiNext ==
  \/ \E p \in Spot : Repeat(p) \/ Refused(p) \/ Play(p) \/ PlayFails(p)
  \/ \E s \in WaveSlot : Finish(s)
  \/ Forget
  \/ \E p \in Spot, v \in Sound : Load(p, v)

DigiSpec == DigiInit /\ [][DigiNext]_digiVars

-----------------------------------------------------------------------------
DigiTypeOK ==
  /\ enabled \in BOOLEAN /\ device \in BOOLEAN
  /\ header \in [WaveSlot -> {"none", "queued", "done"}]
  /\ buffer \in [WaveSlot -> Sound \cup {Silence}]
  /\ ram \in [Spot -> Sound \cup {Silence}]
  /\ last \in Spot \cup {Silence} /\ recent \in BOOLEAN
  /\ want \in Sound \cup {Silence} /\ excused \in BOOLEAN

Queued == {s \in WaveSlot : header[s] = "queued"}

\* One sound at a time (digi.c:22): whatever is queued and whenever the
\* device finishes, at most one buffer plays, and it is the effect the guest
\* asked for last.  Two exceptions: a call that is refused does not stop what
\* plays, and an effect asked for again within 250 ms from memory that holds
\* another sample by then is taken for the repeat it looks like.
OneChannel ==
  /\ Cardinality(Queued) <= 1
  /\ \A s \in Queued : buffer[s] = want \/ excused
=============================================================================
