------------------------------ MODULE DosFiles ------------------------------
(***************************************************************************)
(* The file calls of INT 21h (src/recomp/runtime16.c): handles, the        *)
(* streams behind them, and what is on the disk when the process ends, by  *)
(* itself or by the watchdog.                                              *)
(*                                                                         *)
(* A file is a sequence of chunks; a read or a write moves one chunk.  The *)
(* C library keeps written chunks in the stream until it flushes: when it  *)
(* likes, at fclose and at exit, but not at _exit.  A name is tried in the *)
(* working directory and then in original/; one spelled with a drive or a  *)
(* directory cannot be opened as it stands and goes to original/ at once.  *)
(*                                                                         *)
(* g_fh holds pointers.  The streams they point to are the C library's,    *)
(* and one that nothing points to any more is still there.  They are       *)
(* external: what fopen, fread, fwrite, fseek and fclose do is taken from  *)
(* how the code relies on them, and that fwrite and fclose succeed.        *)
(***************************************************************************)
EXTENDS Integers, Sequences, FiniteSets

CONSTANTS
  Name,     \* file names without a path
  Spelling, \* how the guest spells them: "bare", "full"
  Chunk,    \* what the guest writes
  Hole,     \* what a seek past the end leaves in between
  First,    \* the first handle a file may get: 5
  MaxFh,    \* MAXFH
  EmsFh,    \* EMS_FH
  File,     \* the streams the C library has: FILE *
  Null,     \* the null pointer
  MaxSize   \* bound on the length of a file, in chunks

ASSUME DosFilesAssumption ==
  /\ First \in Nat /\ MaxFh \in Nat /\ First <= MaxFh /\ EmsFh \in Nat
  /\ Spelling \subseteq {"bare", "full"}
  /\ Hole \notin Chunk /\ Null \notin File
  /\ MaxSize \in Nat

Handle   == First .. MaxFh - 1
AnyFh    == First .. MaxFh        \* BX of a call: MaxFh stands for the rest
Path     == {"cwd", "original"} \X Name
Content  == UNION {[1 .. n -> Chunk \cup {Hole}] : n \in 0 .. MaxSize}
Absent   == <<"absent">>
Nowhere  == <<"nowhere", "none">>

\* What a FILE * leads to.  mode is "none" when it is not open.  image is what
\* the file is to be, dirty the places of it that have not been flushed.
Stream == [path : Path \cup {Nowhere}, mode : {"none", "r", "w"},
           pos : 0 .. MaxSize, image : Content, dirty : SUBSET (1 .. MaxSize)]

Fresh(p, m) == [path |-> p, mode |-> m, pos |-> 0, image |-> <<>>, dirty |-> {}]
NoStream    == Fresh(Nowhere, "none")

VARIABLES
  disk,     \* what each path holds
  stream,   \* what each stream is
  g_fh,     \* the pointer of each handle
  process,  \* "up", "exiting" while exit closes the streams, "down"
  carry,    \* the carry flag the last call left: it failed
  \* For the properties.
  mine,     \* handles the guest was given and has not closed
  crowded,  \* paths with two streams for writing since they were last made
  saved     \* what the guest wrote to a file it has since closed

vars == <<disk, stream, g_fh, process, carry, mine, crowded, saved>>

Unknown == <<"unknown">>

Init ==
  /\ disk \in [Path -> {Absent, <<>>}]
  /\ stream = [f \in File |-> NoStream]
  /\ g_fh = [h \in Handle |-> Null]
  /\ process = "up"
  /\ carry = FALSE
  /\ mine = {}
  /\ crowded = {}
  /\ saved = [p \in Path |-> Unknown]

-----------------------------------------------------------------------------
(* The C library.                                                          *)

Longer(i, j) == IF i > j THEN i ELSE j

\* Content c with the chunks of image at the places in at.
Overlay(c, image, at) ==
  LET size == IF at = {} THEN Len(c)
              ELSE Longer(Len(c), CHOOSE i \in at : \A j \in at : j <= i)
  IN  [i \in 1 .. size |-> IF i \in at THEN image[i]
                           ELSE IF i <= Len(c) THEN c[i] ELSE Hole]

\* The disk after stream s has been flushed.
Flushed(d, s) ==
  IF s.mode = "r" THEN d
  ELSE [d EXCEPT ![s.path] = Overlay(@, s.image, s.dirty)]

Clean(s) == [s EXCEPT !.dirty = {}]

Live(f)    == f \in File /\ stream[f] # NoStream
Writers(p) == {f \in File : Live(f) /\ stream[f].mode = "w" /\ stream[f].path = p}

\* The library writes a buffer out, also while the process exits.
LibraryFlush(f) ==
  /\ process # "down" /\ Live(f) /\ stream[f].dirty # {}
  /\ disk' = Flushed(disk, stream[f])
  /\ stream' = [stream EXCEPT ![f] = Clean(@)]
  /\ UNCHANGED <<g_fh, process, carry, mine, crowded, saved>>

-----------------------------------------------------------------------------
(* The calls.                                                              *)

Open(h) == h \in Handle /\ g_fh[h] # Null

\* The stream of an open handle.
Of(h) == stream[g_fh[h]]

\* Where open_game_file finds a name for reading, in its order.
Found(n, how) ==
  IF how = "bare" /\ disk[<<"cwd", n>>] # Absent THEN <<"cwd", n>>
  ELSE <<"original", n>>

\* Whether fopen(p, "rb") succeeds.
Opens(p) == disk[p] # Absent /\ \E f \in File : ~Live(f)

\* Where 3Ch may make a name.  It tries them in order, working directory
\* first, and the host may refuse any of them.
Attempts(n, how) ==
  {<<"original", n>>} \cup (IF how = "bare" THEN {<<"cwd", n>>} ELSE {})

NoFreeHandle == \A h \in Handle : g_fh[h] # Null

\* Mutant: the last handle is given out without a look.
FirstFreeOrLast(h) ==
  /\ h \in Handle /\ (g_fh[h] = Null \/ h = MaxFh - 1)
  /\ \A i \in Handle : i < h => g_fh[i] # Null

FirstFree(h) ==
  /\ h \in Handle /\ g_fh[h] = Null
  /\ \A i \in Handle : i < h => g_fh[i] # Null

Fails ==
  /\ carry' = TRUE
  /\ UNCHANGED <<disk, stream, g_fh, process, mine, crowded, saved>>

\* fopen makes a stream, and handle h is given it.
Gives(h, f, s) ==
  /\ ~Live(f)
  /\ stream' = [stream EXCEPT ![f] = s]
  /\ g_fh' = [g_fh EXCEPT ![h] = f]
  /\ mine' = mine \cup {h}
  /\ carry' = FALSE
  /\ UNCHANGED process

\* 3Ch.
Create(n, how) ==
  /\ process = "up"
  /\ \/ Fails
     \/ \E h \in Handle, f \in File, p \in Attempts(n, how) :
          /\ FirstFree(h)
          /\ disk' = [disk EXCEPT ![p] = <<>>]
          /\ Gives(h, f, Fresh(p, "w"))
          /\ saved' = [saved EXCEPT ![p] = Unknown]
          /\ crowded' = IF Writers(p) = {} THEN crowded \ {p} ELSE crowded \cup {p}

\* 3Dh of a file: for reading, whatever access the guest asks for.
OpenFile(n, how) ==
  /\ process = "up"
  /\ LET p == Found(n, how) IN
       \/ (~Opens(p) \/ NoFreeHandle) /\ Fails
       \/ \E h \in Handle, f \in File :
            /\ Opens(p)
            /\ FirstFree(h)
            /\ Gives(h, f, Fresh(p, "r"))
            /\ UNCHANGED <<disk, crowded, saved>>

\* 3Dh of EMMXXXX0: a handle that stands for the driver, with no stream.
OpenEms ==
  /\ process = "up"
  /\ carry' = FALSE
  /\ UNCHANGED <<disk, stream, g_fh, process, mine, crowded, saved>>

\* Mutant: the stream is forgotten and not closed.
CloseStreamForgotten(h) ==
  /\ g_fh' = [g_fh EXCEPT ![h] = Null]
  /\ UNCHANGED <<disk, stream>>

\* fclose, and the handle is free again.
CloseStream(h) ==
  /\ disk' = Flushed(disk, Of(h))
  /\ stream' = [stream EXCEPT ![g_fh[h]] = NoStream]
  /\ g_fh' = [g_fh EXCEPT ![h] = Null]

\* What a guest that closes h may take to be in the file from now on.
SavedBy(h) ==
  IF h \in mine /\ Open(h) /\ Of(h).mode = "w" /\ Of(h).path \notin crowded
  THEN [saved EXCEPT ![Of(h).path] = Of(h).image]
  ELSE saved

\* 3Eh.  It never fails.  The handle of the EMS driver has nothing to close,
\* and neither has one that no file has.
Close(h) ==
  /\ process = "up"
  /\ IF h # EmsFh /\ Open(h) THEN CloseStream(h)
     ELSE UNCHANGED <<disk, stream, g_fh>>
  /\ mine' = mine \ {h}
  /\ saved' = IF h # EmsFh THEN SavedBy(h) ELSE saved
  /\ carry' = FALSE
  /\ UNCHANGED <<process, crowded>>

\* 3Fh: one chunk, or none at the end of the file, on a stream for writing
\* and on a handle no file has.  It never fails.
Read(h) ==
  /\ process = "up"
  /\ LET some == Open(h) /\ Of(h).mode = "r" /\ Of(h).pos < Len(disk[Of(h).path])
     IN  stream' = IF some THEN [stream EXCEPT ![g_fh[h]].pos = @ + 1] ELSE stream
  /\ carry' = FALSE
  /\ UNCHANGED <<disk, g_fh, process, mine, crowded, saved>>

\* Mutant: the position moves on twice.
WroteTwoOn(s, v) ==
  [s EXCEPT !.image = Overlay(s.image, [i \in 1 .. s.pos + 1 |-> v], {s.pos + 1}),
            !.dirty = @ \cup {s.pos + 1},
            !.pos = @ + 2]

\* The stream after one chunk has been written at its position.
Wrote(s, v) ==
  [s EXCEPT !.image = Overlay(s.image, [i \in 1 .. s.pos + 1 |-> v], {s.pos + 1}),
            !.dirty = @ \cup {s.pos + 1},
            !.pos = @ + 1]

\* 40h to a handle above the standard ones.  It reports that all was written
\* although a stream for reading, and no stream at all, take nothing.
Write(h, v) ==
  /\ process = "up"
  /\ Open(h) /\ Of(h).mode = "w" => Of(h).pos < MaxSize
  /\ stream' = IF Open(h) /\ Of(h).mode = "w"
               THEN [stream EXCEPT ![g_fh[h]] = Wrote(@, v)] ELSE stream
  /\ carry' = FALSE
  /\ UNCHANGED <<disk, g_fh, process, mine, crowded, saved>>

\* 42h, to any place a file can have.  fseek flushes what was written.
Seek(h, to) ==
  /\ process = "up"
  /\ IF Open(h)
     THEN /\ disk' = Flushed(disk, Of(h))
          /\ stream' = [stream EXCEPT ![g_fh[h]] = [Clean(@) EXCEPT !.pos = to]]
     ELSE UNCHANGED <<disk, stream>>
  /\ carry' = FALSE
  /\ UNCHANGED <<g_fh, process, mine, crowded, saved>>

\* 43h, AL = 0: is the file there?  The stream that finds out is closed again.
Attributes(n, how) ==
  /\ process = "up"
  /\ IF ~Opens(Found(n, how)) THEN Fails
     ELSE /\ carry' = FALSE
          /\ UNCHANGED <<disk, stream, g_fh, process, mine, crowded, saved>>

\* 44h on the driver's handle and on any other, and every call int21 does not
\* know: success, and nothing done.  Deleting and renaming are among these.
Nothing ==
  /\ process = "up"
  /\ carry' = FALSE
  /\ UNCHANGED <<disk, stream, g_fh, process, mine, crowded, saved>>

-----------------------------------------------------------------------------
(* The end of the process, and the next one.                               *)

\* 4Ch, and main returning: exit() has the library flush every stream, in its
\* own order.
Exit ==
  /\ process = "up"
  /\ process' = "exiting"
  /\ UNCHANGED <<disk, stream, g_fh, carry, mine, crowded, saved>>

\* Its streams and its pointers go with the process.
Ends ==
  /\ process' = "down"
  /\ stream' = [f \in File |-> NoStream]
  /\ g_fh' = [h \in Handle |-> Null]
  /\ mine' = {}
  /\ UNCHANGED <<disk, carry, crowded, saved>>

\* exit() is through.
ExitEnds ==
  /\ process = "exiting"
  /\ \A f \in File : stream[f].dirty = {}
  /\ Ends

\* The watchdog ends the process with _exit, whatever the guest's thread is
\* doing: nothing is flushed.
WatchdogKill ==
  /\ process # "down"
  /\ Ends

NextRun ==
  /\ process = "down"
  /\ process' = "up"
  /\ UNCHANGED <<disk, stream, g_fh, carry, mine, crowded, saved>>

Next ==
  \/ \E f \in File : LibraryFlush(f)
  \/ \E n \in Name, how \in Spelling : Create(n, how)
  \/ \E n \in Name, how \in Spelling : OpenFile(n, how)
  \/ OpenEms
  \/ \E h \in AnyFh : Close(h)
  \/ \E h \in AnyFh : Read(h)
  \/ \E h \in AnyFh, v \in Chunk : Write(h, v)
  \/ \E h \in AnyFh, to \in 0 .. MaxSize : Seek(h, to)
  \/ \E n \in Name, how \in Spelling : Attributes(n, how)
  \/ Nothing
  \/ Exit
  \/ ExitEnds
  \/ WatchdogKill
  \/ NextRun

Spec == Init /\ [][Next]_vars

-----------------------------------------------------------------------------
(* Correctness properties.                                                 *)

\* Every variable has its type.
TypeOK ==
  /\ disk \in [Path -> Content \cup {Absent}]
  /\ stream \in [File -> Stream]
  /\ g_fh \in [Handle -> File \cup {Null}]
  /\ process \in {"up", "exiting", "down"}
  /\ mine \subseteq Handle /\ crowded \subseteq Path
  /\ saved \in [Path -> Content \cup {Unknown}]

\* Every handle with a pointer leads to a stream that is open, and every stream
\* that is open can be reached through one handle, which the guest still has:
\* none is leaked by a slot that is used again or emptied, and none is closed
\* and still in its slot, however files are opened and closed and the process
\* ends.  That the guest still has the handle is not said of EmsFh: it cannot
\* close a file that has this number.
NoStreamLeaks ==
  /\ \A h \in Handle : Open(h) => Live(g_fh[h])
  /\ \A f \in File : Live(f) => \E h \in Handle : g_fh[h] = f
  /\ \A h, k \in Handle : Open(h) /\ g_fh[h] = g_fh[k] => h = k
  /\ \A h \in Handle \ {EmsFh} : Open(h) <=> h \in mine

\* A file the guest has created, written and closed holds what it wrote,
\* whatever happens to other handles and however the process ends, until it
\* is created again.  A handle with the number of EmsFh is left out.
ClosedFileIsSafe == \A p \in Path : saved[p] # Unknown => disk[p] = saved[p]

\* "A handle for the EMS driver that no real file can be given." (runtime16.c,
\* line 28)
EmsHandleIsNoFile == EmsFh \in Handle => g_fh[EmsFh] = Null
=============================================================================
