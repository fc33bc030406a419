---------------------------- MODULE PagedMemory ----------------------------
(***************************************************************************)
(* What a guest may rely on from expanded memory: handles own pages, a     *)
(* page keeps what was last written to it while it was in the window, and  *)
(* no call on one handle touches the pages of another.  Nothing is said    *)
(* about where pages lie, and nothing about what a new page holds.         *)
(*                                                                         *)
(* This is the promise of the comment at the head of src/recomp/ems.c,     *)
(* that copying pages in and out looks to the program like a board that    *)
(* switches them.                                                          *)
(***************************************************************************)
EXTENDS Integers

CONSTANTS
  Handle, Phys,
  PageNo,    \* logical page numbers
  Contents,
  Blank      \* what is written here for a page no handle owns

VARIABLES
  size,      \* pages each handle owns, 0 when it is not in use
  data,      \* what each page holds
  window,    \* the page in each physical page, or Nothing
  frame      \* what the guest sees in each physical page

vars == <<size, data, window, frame>>

Slot    == Handle \X PageNo
Nothing == <<0, 0>>

Owned(s) == s[2] < size[s[1]]

Init ==
  /\ size = [h \in Handle |-> 0]
  /\ data = [s \in Slot |-> Blank]
  /\ window = [p \in Phys |-> Nothing]
  /\ frame = [p \in Phys |-> Blank]

\* A handle not in use gets n pages, with any contents.
Allocate(h, n) ==
  /\ size[h] = 0
  /\ size' = [size EXCEPT ![h] = n]
  /\ data' \in [Slot -> Contents]
  /\ \A s \in Slot : ~(s[1] = h /\ s[2] < n) => data'[s] = data[s]
  /\ UNCHANGED <<window, frame>>

\* A page comes into the window; it is in no other physical page.
Map(p, s) ==
  /\ Owned(s)
  /\ \A q \in Phys \ {p} : window[q] # s
  /\ window' = [window EXCEPT ![p] = s]
  /\ frame' = [frame EXCEPT ![p] = data[s]]
  /\ UNCHANGED <<size, data>>

Unmap(p) ==
  /\ window' = [window EXCEPT ![p] = Nothing]
  /\ UNCHANGED <<size, data, frame>>

\* Freeing a handle empties the whole window.
Free(h) ==
  /\ size' = [size EXCEPT ![h] = 0]
  /\ data' = [s \in Slot |-> IF s[1] = h THEN Blank ELSE data[s]]
  /\ window' = [p \in Phys |-> Nothing]
  /\ UNCHANGED frame

\* The guest writes the window, and with it the page that is there.
Write(p, c) ==
  /\ frame' = [frame EXCEPT ![p] = c]
  /\ data' = [s \in Slot |-> IF s = window[p] THEN c ELSE data[s]]
  /\ UNCHANGED <<size, window>>

Next ==
  \/ \E h \in Handle, n \in PageNo : Allocate(h, n + 1)
  \/ \E p \in Phys, s \in Slot : Map(p, s)
  \/ \E p \in Phys : Unmap(p)
  \/ \E h \in Handle : Free(h)
  \/ \E p \in Phys, c \in Contents : Write(p, c)

Spec == Init /\ [][Next]_vars
=============================================================================
