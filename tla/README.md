# DinoPark runtime: specifications

The program is a static recompilation of a 16-bit DOS game. `tools/lift_full.py`
turns the game's code into C functions; `src/recomp/` is the machine they run
on: a CPU structure, guest memory, and the DOS, BIOS and driver services the
game calls by software interrupt. These specifications are about that machine.
The game is not in the repository; where a model needs it, it is an environment
that makes any legal call, and what is assumed beyond that is said below.

Everything runs on one thread, the guest's, except: the music player
(`music.c`), the BIOS clock and the watchdog (`boot.c`), the wave device, and
the person at the keyboard, whose messages wait until the guest's thread pumps
the window.

## Inventory

| Part | State | Operations | Reached by |
|---|---|---|---|
| Expanded memory, `ems.c` | page store, free count, size and use of each handle, the store page in each physical page | INT 67h 40h-46h; the guest writes the frame directly | `int_handler` |
| Window and its queue, `video.c` | `g_keyq`, mouse position and buttons, `g_closed` | open, present, pump, window procedure | INT 10h; each due frame |
| Keyboard, `runtime16.c` 985-1110 | script and its place, `g_key_pending`; in guest memory the ring and the held flags | `key_tick`, `key_inject`, INT 16h | every interrupt |
| Timer, `runtime16.c` 1764-1797 | last tick seen, `inside` | run the guest's INT 8 handler and restore the registers | every interrupt |
| DOS files, `runtime16.c` 1368-1548 | `g_fh` and the C streams | create, open, close, read, write, seek, attributes, exit | INT 21h |
| DOS search, memory, vectors | `g_find`, the DTA in guest memory; `g_heap_next`; vector table | 4Eh, 4Fh, 48h-4Ah, 25h, 35h | INT 21h |
| Music, `music.c` | table of events, `g_stop`, thread and device handles | register a tune; the player thread | INT 66h 0704h |
| Sound effects, `digi.c` | four wave headers and their buffers | play | INT 66h 068Bh |
| Mouse, `runtime16.c` 1555-1735 | previous buttons, press and release counts, range | INT 33h; click script | `int_handler` |
| VGA, `runtime16.c` 66-979 | planes, latches, sequencer, graphics, CRTC and DAC registers | port and memory hooks, frame composition, snapshots | the guest's stores and OUTs; presentation; the clock thread |
| CPU, `cpu.h` | registers, flags, memory | arithmetic with flags, push and pop, segment arithmetic | lifted code |
| Recompiler, `lift_full.py`, `converge.ps1` | the lists of misses and vectors, the set of functions | lift, build, run, collect; the generated dispatcher | offline; indirect calls |
| Boot, `boot.c` | none of its own | main, watchdog, BIOS clock | the host |
| Overrides, `dino_impl.c` | guest stack and registers | formatted output, `int86x` | lifted code |

How they interact. Every software interrupt goes through `int_handler`. It
flushes a frame if 16 ms have gone by, and with the frame pumps the window's
messages; calls `key_tick`, which moves keys from the window's queue into the
guest's data segment and then perhaps types a scripted one; calls `timer_tick`,
which may run the guest's own INT 8 handler, and with it one more
`int_handler`, on the guest's stack; and only then performs the service. The
music player and the guest's thread share the table of events and a stop flag.

What is hard: the nested handler; queues that fill; a latch set too early;
state derived anew from other state that changes (the place of EMS pages);
streams that buffer when the process may be ended with `_exit`; two threads on
one table with a wait that gives up. PROJECT.json lists each hazard at its line
and the properties that would catch it.

What makes each part correct: a page holds what was last written to it, and no
two handles share one; a release of a key reaches the game, and a key that INT
16h announced is there; no stream leaks and a closed file is safe; searches do
not continue each other and blocks of memory do not overlap; one player at a
time, a parsed tune is playable, no note hangs; one sound effect at a time, the
last one asked for; a click is told once and a button let go is let go; a
planar write paints the pixels it should, a frame is one page, a torn tick
count costs one sample; a conditional jump goes where the original's would, the
guest's stack gives back what it was given, and a lifted function finds it where
it left it, whatever it called and whatever handler ran meanwhile; the list of
misses only grows.

## Modules

### Expanded memory: `EMS`, `PagedMemory`, `EMSGuest`, `EMSProofs`

`EMS` has a variable for each static of `ems.c` and one for the guest's memory
under the window, and an action for each function of INT 67h. The place of page
`l` of handle `h` is `Abs(h, l)`: the number of pages held by lower handles,
plus `l`. The sum the code computes in a loop is written as the size of a set
of (handle, page) pairs, which is the same number and can be reasoned about.
`WriteBack` is `unmap` on several physical pages in ascending order. Functions
that only report (40h, 41h, 42h, 46h) are one action; the unknown ones and the
driver switched off are another. Copying 16K is one step: the guest runs on the
same thread.

`PagedMemory` is what the comment at the head of `ems.c` promises: pages belong
to handles, a page keeps what was last written to it in the window. It says
nothing about places. `EMSGuest` adds a guest and what it asked to have in each
physical page. `TidySpec` is a guest with two habits the driver relies on and
never states: handles are freed in reverse order of allocation, and a page is in
one physical page at a time. `AnySpec` has neither.

- run `ems`: the driver under any guest. 3 pages, 2 usable handles, 2 physical
  pages, two contents: the smallest sizes at which a handle can be freed
  under another, a request can fail for pages and for handles, and two physical
  pages can hold the same store page. `Accounting`, `LivePagesInStore`,
  `RunsDisjoint` hold of every state; `WrittenBack` and `LowerRunsStay` of
  every step.
- run `ems_guest`: for the tidy guest the driver implements `PagedMemory`
  (`KeepsPages`, under the mapping `Visible`), because the record of what is
  mapped stays true (`WindowAgrees`).
- run `ems_aliasing` (violation): without the habits two handles share a store
  page, against the comment in `ems.c` 143-144. The code comment is true of
  places at one moment (`RunsDisjoint`) and false across a change of sizes.

### The dispatcher: `Dispatch`, `DispatchProofs`

Lifted functions are C functions, and the guest's stack lives beside the host's.
A call site pushes the return words the original pushed; the callee's return
takes them off, or, when there is no callee, something else must. `Dispatch` has
SP, the depth, budget and misses of `recomp_dispatch`, the state of
`run_guest_isr`, and one record (`frames`) for each lifted function that is
running: how it was reached, the level it began at, what it has pushed for
itself, whether it returns through BP. `CallIndirect` is `dispatch_near` and
`dispatch_far` with the repair after a refusal, for each reason to refuse
(address 0, budget, depth, not in the table). `CallDirect` and `CallStub` are
calls resolved when lifting and calls to the stub of a target that never was.
`JumpIndirect` is a tail jump: the callee's return is the caller's own. `Tick`
is the timer's handler, `ChainOld` its pushf and far call of the old one.

In three cases nothing takes the words off: a tail jump that is refused, a
function whose lifting failed (its body is empty), and the chain in a handler.
The model lets them happen, marks the frame (`off`), and a function that
restores SP from BP hides them from its caller, a handler from everybody.
Not in the model: `ret N`, where a callee takes arguments off; the wrap of SP
at 16 bits; a negative budget.

- run `dispatch`: one address of each shape (with a frame, without, empty,
  missing, out of range, null), a budget of one dispatch, a cap at depth 2.
  `Level`, `DepthCounts` and `OneHandler` are for every interleaving of calls,
  jumps, refusals and handlers. Three functions and 14 bytes (`MaxFrames`,
  `MaxStack`) are what a handler that chains needs, and reach the cap;
  a function pushes one word of its own (`MaxOwn`). A function loses
  bytes once: it is off from then on, and how far does not matter.

### Keyboard: `Keyboard`, `MCKeyboard`, `KeyboardProofs`

The path of a key. The person presses, repeats, releases, moves the focus and
closes the window; messages wait for a pump. `phase` is where `int_handler` is:
`pump` (the loop of `vga_window_pump`, one message a step), `keys`, `timer`,
`again` (the second `key_tick` of INT 16h), `serve`. `TimerIsr` starts the
nested handler, `outer` is the service it interrupted, and it cannot nest again
(`inside`). `Inject` is `key_inject`: the pending word, the held flag, then the
ring if it has room. Time is a choice: whether a frame is due, a tick has gone
by, or the script's half second is over.

A frame is also flushed, and the window pumped, when the game polls port 3DAh
(`RetracePoll`), with no `key_tick` behind it: what was pumped waits in `g_keyq`
while the game runs, and the queue fills across several polls. That the game's
INT 8 handler polls the port itself is left out. No scancode is 0: the word
`bios_key_word` makes of it is 0, which INT 16h takes for no key.

Three variables are for the properties only: `down` is the person's hand,
`lost` marks a release that was dropped or went to another window (until the
next press), `promised` that INT 16h has reported a key.

- run `keyboard`: two keys, one of them the space of the default script; queues
  of one usable slot each, so that both fill; two messages between pumps; the
  timer handler asks for a plain service. `ReleaseNotForgotten` says that a key
  the person has let go of is let go of in the game, or its release is on its
  way and nothing behind it speaks of the key. `PeekedKeyIsThere` says that INT
  16h keeps its word across everything that happens inside the next interrupt.
  `ReleaseArrives` is its liveness.
- run `keyboard_script` (violation): with a window and no `DINO_KEYS` the
  default script types anyway; see the findings.

Fairness: `int_handler` runs to its end (weak, the thread is never blocked
there); the game makes interrupts without end (strong: its main loop polls the
mouse by INT 33h); and frames are taken again and again, each by an interrupt or
by a poll (`Frame`, strong: the clock moves, and both flush a frame that is
due). Which of the two takes a frame is left open, so a game whose frames are
all taken by the poll is covered. Nothing is assumed of the person.

### The rings: `RingQueue`, `BoundedQueue`, `RingQueueProofs`

`Keyboard` writes both rings as sequences. `RingQueue` is the ring with its
array and indices, `BoundedQueue` the queue; `KeepsQueue` is the refinement,
checked in run `services` with four slots and three values: it wraps, fills and
empties.

### Files: `DosFiles`, `MCDosFiles`, `DosFilesProofs`

Three things are kept apart: `g_fh` holds pointers, `stream` is what the C
library has behind them, `disk` is what is in the files. A stream that no slot
points to any more is still there, so a leak is a state and not the absence of
one. A stream keeps what was written in a buffer until the library flushes: at
any time (`LibraryFlush`), on seek, close and `exit`, and not on the watchdog's
`_exit`. `exit` is a phase (`process`): the library flushes the streams in its
own order, and the watchdog may strike in the middle. The library is external;
the model takes from it only that, and that `fwrite` and `fclose` succeed. A read
or a write moves a chunk. Where 3Ch makes a file is one of the places it tries
(`Attempts`: the working directory, then `original/`), any of which the host may
refuse. 43h, 44h and the default reply are included, as is the EMS
pseudo-handle.

- run `dos_files`: one name, bare or with a path, two handles, the upper of
  which has the number of the EMS pseudo-handle, three streams, files of up to
  two chunks: enough for two streams on one file, a hole left by a seek, all
  handles in use, and room for a stream that neither leads to. `NoStreamLeaks`:
  every open stream is in one slot, every slot leads to an open stream, and the
  guest still has the handle. `ClosedFileIsSafe`: what was written and closed
  stays, unless two streams wrote the file at once. The last part of the one and
  all of the other leave out the pseudo-handle's number, because of the next
  run. Streams are only compared, so they are symmetric. Instances with three
  handles pass too (files of one chunk, or names of one spelling).
- run `dos_ems_handle` (violation): a file is given handle `EMS_FH`.

### Music: `Xmi`, `Music`, `MCMusic`, `MusicProofs`

`Xmi` is `parse_evnt` from the items of an EVNT chunk to the table: `Collect`
fills it item by item, and a message that finds it full is dropped (`Emit`);
`Sorted` is the `qsort` with `ev_cmp`, each message at its rank. Reading bytes,
lengths and chunk headers is abstracted to the items. `Music` is the two
threads: `gpc` is where the guest is in `music_play_xmi`, with the filling and
the sorting as two steps of their own, and `ppc[t]` where each player is. Each
access to shared state (the loop test, the wait, the message, the flag) is a
step of its own. A player that reads the table while it is filled or sorted may
find anything there.
`WaitGivenUp` is the two-second timeout, whose result the code ignores. After
it the players may overlap, and `timedOut` says so; `OnePlayer`, `TableIsStill`
and `WholeTune` hold until then, `ParsedTune`, `SilentAtRest` and `PlayersEnd`
always.

- run `music`: a table of four messages and four tunes: overlapping notes of
  one pitch, several messages on one tick, a tune that does not fit, an empty
  one; two players.

Fairness: each thread takes its steps (weak). The host schedules threads, and a
sleep ends. Sound for `PlayersEnd` because tunes are finite.

### The mouse: `Mouse`, `MCMouse`

A click passes three gates. The person's hand (`hand`, `place`) posts messages;
the window hears of them when the guest's thread pumps (`PumpOne`), and only if
the pointer is over it or it has the capture (`Note` is `wndproc` with
`note_mouse`); the guest hears of them when it polls. Every function of INT 33h
first looks at the pointer and counts edges (`Edges`: `prev`, `press`, `rel`,
`pressAt`, `relAt`), then does its own part: `AskPresses` and `AskReleases` are
functions 5 and 6, `AskMotion` 0Bh, `SetRange` 0 and 7, `AskOther` the rest.
`Seen` is what a call can find: the window's pointer, or a point of
`DINO_CLICK`. The script's time is a choice. Only x is modelled.

`SingleClickSettles` is about the way from the hand to `mbtn`, `CountsAgree`
about the way from there to the game's answers: two ghosts, `told` (what the
game has been told) and `clean` (one button at a time since the last rest).
Neither speaks of a click that falls between two polls: the counts are of edges
the polls found, and such a click is no edge.

- in run `services`: two buttons, a window one pixel wide and a place outside
  of it, two messages, counts up to one.
- run `mouse_ranges` (violation): a game that keeps the pointer to the right
  half of a screen of two pixels is told of a press in the left half.

### Searches and memory: `DosSearch`, `DosMemory`

The host keeps a search's handle in a slot, the guest's transfer area keeps the
slot's number in its first byte (`mark`). `FindFirst`, `FindNext` and their
failures are the branches of `find_first` and `find_next`; `Reuse` is the guest
writing over its area. Who follows which search is ghost state (`going`,
`owner`, `abandoned`). `SearchKept` holds until `stray`: the guest asks for the
next match in an area that has no search, and the code cannot tell.

`DosMemory` is 48h, 49h and 4Ah: `heapNext` only moves up, in 16 bits; 4Ah is
granted unseen, which `grown` marks.

- in run `services`: three slots and two areas, so that slots are abandoned and
  run out; an arena of two paragraphs in 16 bits with requests of 0, 1, 2 and
  one that would wrap.

### Sound effects: `Digi`

`Play` is `ail_sound` into `digi_play` to its end, with the reset that returns
every buffer, `PlayFails` and `Refused` the ways it stops short, `Repeat` the
guard against a second call within 250 ms (`Forget` ends them). The wave device
is an actor that finishes a buffer whenever it likes (`Finish`). What the guest
keeps at an address changes under it (`Load`). `OneChannel` says that at most
one effect is queued and which; `excused` names its two exceptions.

- in run `services`: two slots, two addresses, two sounds.

### The processor: `Flags`, `GuestStack`

`cpu.h` writes each flag operation out for 8, 16 and 32 bits; `Flags` has the
width as a parameter. `Add`, `Subtract` (and compare), `Logic`, `Shift` set the
flags as the code does, bit by bit and mask by mask; the `cc_` operators are the
tests. `JccTellsOrder` is the reference: what the operands are as numbers,
unsigned and in two's complement. Shifts are steps only, because OF and AF are
left and no test after them is promised. Only what the header has a function for
is here: what `inc`, `dec`, `neg`, `adc`, `sbb`, `mul` and the rotations do to the
flags is up to `lift16`, which is not in the repository.

`GuestStack` writes words a byte at a time, because with the hook every build
defines that is what `mem_write16` does. Offsets wrap, also inside a word. The
stack is not assumed to begin anywhere, and bytes outside it change
(`Elsewhere`). `Room` keeps what is on it within the segment.

- in run `services`: four-bit numbers, with the nibble bit below the sign bit; a
  segment of six bytes from any SP, which holds three words, so that a dword
  wraps at each of its bytes.

### Services together: `MCServices`, `ServicesProofs`

These seven (`RingQueue` with them) share no state in the code, so a step of
one cannot disturb the others, and it is enough to let each run alone: `unit`
says which from the first state. Run `services` asks one question of all
of them, whether the small services keep what they promise; the initial states
of those that stand still are fixed, or they would only be multiplied.

### Display, clock and list: `Vga`, `Sampler`, `Clock`, `Converge`, `MCHost`, `HostProofs`

`Vga` is display memory in both modes: `WritePlanes` and `ReadPlanes` are
`recomp_mem_write8` and `recomp_mem_read8` unchained, `WriteFlat` and
`HostStore` what goes to guest memory, and a register written through its index
and data port is one action. `Frame` is `vga_frame`. `OneBytePaints` compares
two pictures, before and after, with display memory seen the way the game
thinks of it, one long row of pixels: `Frame` finds a pixel by plane and
offset, `PixelNumber` by its number. Mode 13h clears the window and leaves the
registers, as the code does. The palette, the timer chip and the byte a read
answers are left out.

`Sampler` is `vga_frame` as a loop, run by two threads in one buffer. The
guest's thread draws and flips between frames only, the clock's thread samples
whenever it likes. In Mode X only: in mode 13h nothing is composed. The two
ghosts say when the promise ends: `stale`, the guest drew or flipped while the
clock's thread was in its loop, and `spoiled`, it began its own loop then. The
watchdog is a third thread that composes, once, for the snapshot it takes before
it ends the process; it is left out.

`Clock` is the tick count, written a byte at a time (`StoreLow`, `StoreHigh`) and
read a byte at a time (`ReadLow`, `ReadHigh`). `rested` is the one assumption
about pace: the guest reads at least one byte between two ticks, where in fact
it reads thousands. `ByteSize` stands for 256 and is 8 in the run: what the
property needs of it is that a count moves by less than the worth of a byte
between a change and the next, and a tick is one or two.

`Converge` is the loop of `converge.ps1` with the threads of a run. `Look` and
`Store` are the two halves of `note_miss`; a dump is `StartDump`, `Merge` for
each line of the file, `Truncate`, `WriteLine` for each address, `Close`;
`NextRound` is the script's, and may come at any moment: the script kills a run
that does not end. A build's code ends at its highest function (`InRange`,
CODE_TOP), and `note_miss` drops what lies above it. The lifter also reads the
list of interrupt handlers, which each run writes anew: a handler that was the
highest function may be gone from the next build, and the code then ends lower.
Of that list the model has what it may be (`Handlers`). `ListGrows` holds but
for five accidents, which `disturbed` marks where they happen.

- run `host`: as with `services`, one of the four at a time. Two planes of four
  bytes, a screen of two by two pixels whose start address and row width move
  it across the end of memory; a frame of two pixels, two pages, two shades;
  any count of two bytes; five addresses, one of which is code from the first
  build on and two more can be lifted, the highest of them an interrupt handler
  too; and a list of two, so that it fills.

## Proofs

Every safety property of the passing runs is a theorem, for every value of the
constants that the named assumptions allow.

`EMSProofs` proves every property of run `ems` for any number of pages, handles
and physical pages. The assumptions are those of `EMSAssumption`. The
inductive invariant is `IInv`: `TypeOK`, `Accounting`, and that a driver that
is off has no handle in use. `TypeOK` alone is not inductive, because
`Free` adds a handle's size to the free count and only `Accounting` says that
the sum stays within the store. The lemmas count sets of pages: allocating `n`
pages adds exactly `n` pairs to `Held`, freeing takes them away, and a set of
pairs below a handle together with that handle's own pages is no larger than
`Held`. From this `LivePagesInStore` follows, `RunsDisjoint` from the order of
the runs, and the two step properties from the action that changes the state
they speak of.

Of the tidy guest it proves what run `ems_guest` checks: `WindowAgrees`, and
that the driver implements `PagedMemory` (`PagesAreKept`). The invariant `GInv`
adds to `IInv` that what the guest asked for is held by a handle and nothing
twice (`WindowHeld`), and that the handles in use are the first ones
(`UsedFirst`). That is what the first habit is for: a new handle then lies
above all others and a freed one is the highest, so no page in use changes its
place. The second habit makes `WriteBack` write each store page once at most.
Then each action of the driver is an action of `PagedMemory` or a stutter under
`Visible`.

`DispatchProofs` proves `TypeOK`, `Level`, `DepthCounts` and `OneHandler` for
any code, cap, budget and bounds. The invariant is their conjunction with
`Widths`: a return takes off exactly what the site pushed, and nothing for a
handler and what it chains to. `Level` needs it when a
function returns, because only the widths relate where the callee leaves SP to
where its caller looks for it. It needs `OneHandler` when a handler ends, because
SP is then put back to `save.sp`, and only `OneHandler` says that this is the
level of the function interrupted. The steps have three shapes (a function
begins, stays, leaves); there is one lemma for each shape and one for each
action, which reduces the action to its shapes.

`RingQueueProofs` proves that a ring of any size is a queue of one less, by
the effect of each action on `Contents`: `Put` into a ring that is not full
appends, `Take` removes the head, and a full ring has N-1 values.

`KeyboardProofs` proves `TypeOK`, `PeekedKeyIsThere` and `ReleaseNotForgotten`,
for any sizes of the queues, any script and any services of the INT 8 handler.
The last one is its own inductive invariant with the types. The way of a key,
the window's queue and then the messages that wait, is one sequence (`Coming`),
and the property speaks of the last word on a key in it. A hop takes a word
from its front or moves it within, which leaves the last word on every key
except, when it was the only one, the one that is delivered, and that goes to
the held flag. A full queue loses a word from the middle: if it was the last
and a release, `lost` says so, and a press is never the last word on a key that
the person has let go of.

`DosFilesProofs` proves `TypeOK`, `NoStreamLeaks` and `ClosedFileIsSafe`, for any
number of handles and of streams. `NoStreamLeaks` is inductive with the types:
that no two slots share a stream is what lets a close empty one slot and leave no
other pointing at a stream that is gone, and a call that needs a stream takes one
that is not open. What is said of files is said stream by stream. Beside the two
the invariant says that an open stream leads to a file (`StreamsLead`), and
of each path (`PathKept`) that, unless two streams have written it at once, it
has one writer at most, and the disk with what is still to be flushed is what
that writer has written. So a flush of any part at any time keeps it, and a
close leaves all of it on the disk. `DosFilesAssumption` asks that the first
handle is not beyond the table (the code's are 5 and 32).

`MusicProofs` proves `TypeOK`, `ParsedTune`, `OnePlayer`, `SilentAtRest`,
`WholeTune` and `TableIsStill`, for tables of any size, any tunes and any number
of players. Of the parser it shows, by induction over the items of a tune of
any length, that in what `Collect` gives each off stands right behind its on,
and that in a tune that fits every on has its off. The order of `ev_cmp` is
strict and total, so there is one message of each rank and `Sorted` loses none;
it keeps an on before its off, since the off's tick is no smaller and its
number is larger. Pairing the two gives a map one to one from the offs so far
to the ons so far, and that is `ParsedTune`. Of the two threads the invariant
says where the table is in being made (`Registering`), and that the player of a
tune is not told to stop while the guest is in the game, and then ends only
when it has played the table (`Unstopped`). Ticks are natural numbers in the
model: the code's wrap at 32 bits, at 120 a second after more than a year.

`ServicesProofs` has one theorem for each service of run `services` except the
rings, for any sizes its assumptions allow, and one for their types together
(`ServicesTypeCorrect`). The types of each service rest on its own lemmas, since
those of the search and of the effects need its invariant.

- `MemoryIsDisjoint`: `BlocksDisjoint` is inductive with the types. The
  arithmetic is that what is left (`Avail`) never wraps, since `heapNext` stays
  in the arena, so a request that is granted fits.
- `SearchesAreKept`: `SearchKept` needs one more fact (`OwnersGo`): a slot is
  owned only by an area that is in the middle of a search, and whose byte names
  it. Without it a slot could be freed under a search nobody counted.
- `CountsAreRight`: each action adds the edges the call found to the counts and
  moves a count to what was told; what `Seen` offers does not matter.
- `ClicksSettle`: `SingleClickSettles` speaks of the moment when no message is
  left. `Explained` says what leads there, of every message on the way: a
  button that the window has down is the only one, with the capture, and either
  held still or its release is the next message about a button; and so for
  every press in the queue.
- `OneEffectPlays`: that the sound of the last call plays or is excused
  (`WantedPlays`) has to be said of the guest's memory too, because a repeat is
  dropped on the strength of an address: while nothing is excused, what is
  queued is what is now at that address.
- `JumpsTellOrder`: a sum or difference of two numbers of one width is brought
  back into it by the modulus once (`OneWidth`); what is left is linear, by the
  signs of the operands and of the result.
- `StackIsStack`: offsets that differ by less than the segment are different
  bytes (`Apart`), so a push leaves what is on the stack alone. A dword is two
  words (`PushOne`, `PopOne` twice).

`HostProofs` has one theorem for each part of run `host`, and one for their types
together (`HostTypeCorrect`):

- `PlanarWritePaints`: the number of a pixel is its group times the planes plus
  its plane, also after the wrap at the end of memory (`Interleaved`: quotient
  and remainder are unique). Then a write changes the byte of one group.
- `FramesAreWhole`: the invariant says which page each loop reads, and that
  behind the guest's loop the buffer is the page on show as long as the
  clock's loop, if there is one, reads the same page.
- `TornReadsAreSingle`: after a torn value either the clock is still between its
  two bytes, and the next read finds the same (`Halfway`), or the low byte has
  just wrapped and is too small to wrap again before the next value is read,
  which is then a right one (`Settled`). The theorem asks that a byte has eight
  values or more (in the code it has 256). With four it is false: two
  wraps can fall within two reads.
- `ListOnlyGrows`: while no accident has happened one thread dumps at a time;
  while it merges, each line of the file is in its list, unread, or in its
  hands, and while it writes, the file is the beginning of a list that has
  everything a finished list had. Only with this is the truncated file in the
  middle harmless.

Only model-checked: the two liveness properties, `ReleaseArrives` and
`PlayersEnd`, since the prover has no fairness or ENABLED; and the four
violations, which TLC finds. The parity and half-carry flags are in `Flags`, but
no property speaks of them.

## Findings

Four comments of the code are not true of it: two handles can land on one EMS
page (`ems.c` 143), the scripted keys are not only for unattended runs
(`runtime16.c` 1082), a real file can be given the handle of the EMS driver
(`runtime16.c` 28), and a range set for the mouse does not hold of the positions
functions 5 and 6 answer with (`runtime16.c` 1565). Each has a run that shows it.

## Plan

What is left: the palette, the DAC's three-step write and the reader that
converts it, beside `Vga`.

## Not modelled

- The overrides (`dino_impl.c`): formatted output, packed strings, long
  division. They convert data in guest memory and keep nothing between calls.
- The heap walker, histograms, snapshots and dumps: they read and report.
- The decoders, harnesses and analysis scripts: conversions of files.
- Decoding x86 and telling valid addresses in the lifter: data. `Converge` has
  the outcome, the set `Valid`.
- Loading the image: one step before anything else runs.
- Segment arithmetic and the accessors of the data segment in `cpu.h`: one
  addition each.
- The handle of a registered sequence, which wraps after 65535: one line, and a
  model would say what the line says. Of the list of noted vectors, which each
  run writes anew and which holds 32, only what it does to the list of misses is
  in `Converge`.
- The build that `converge.ps1` starts. The model takes it to succeed. As
  committed the script's list of sources leaves out files the program needs to
  link, so a build has to be given them.
- `fwrite` and `fclose` that fail (a full disk): 40h reports all bytes and 3Eh
  success whatever they return.
- The registers `run_guest_isr` saves, other than SP: they are copied as one
  structure, which leaves no order to get wrong.
