-------------------------------- MODULE EMS --------------------------------
(***************************************************************************)
(* Expanded memory, as src/recomp/ems.c answers it on INT 67h.             *)
(*                                                                         *)
(* The driver keeps every page on the host side (g_store) and lends the    *)
(* guest a window of NPhys physical pages in its own memory (the frame).   *)
(* Mapping is a copy: the page that was in the window is copied back to    *)
(* the store and the wanted one is copied in.  Where a handle's pages lie  *)
(* in the store is never recorded.  It is worked out at each map call from *)
(* the sizes of the lower handles that are in use at that moment.          *)
(*                                                                         *)
(* The frame is ordinary guest memory, so the guest may write it at any    *)
(* time, mapped or not (GuestWrites).  The contents of a page are one      *)
(* value out of Contents: a 16K copy is indivisible for the guest, which   *)
(* runs on the same thread.  The map counter and the log lines are left    *)
(* out.  The code's first call initialises the driver; nothing can see the *)
(* driver before that, so Init is the state after ems_enabled.             *)
(***************************************************************************)
EXTENDS Integers, FiniteSets

CONSTANTS
  Total,     \* g_total: how many pages there are
  NHandles,  \* EMS_HANDLES: handle 0 is never given out
  NPhys,     \* EMS_PHYS: physical pages in the frame
  Contents,  \* what a page can hold
  Blank      \* what calloc leaves in it

ASSUME EMSAssumption ==
  /\ Total \in Nat
  /\ NHandles \in Nat \ {0}
  /\ NPhys \in Nat \ {0}
  /\ Blank \in Contents

Handle == 1 .. NHandles - 1
Phys   == 0 .. NPhys - 1
Page   == 0 .. Total - 1

NoPage == -1     \* g_mapped[] of a physical page that holds nothing

\* The arguments a guest can pass, as far as the code tells them apart: every
\* value above the largest legal one takes the same path as the next one up.
AnyWant   == 0 .. Total + 1
AnyPhys   == 0 .. NPhys
AnyHandle == 0 .. NHandles
AnyLog    == -2 .. Total

\* What the driver puts in AH.  Hexadecimal codes of ems.c.
Status == {"00", "83", "84", "85", "88", "89", "8A", "8B"}

VARIABLES
  on,      \* g_on once decided: off when DINO_EMS=0 or calloc failed
  store,   \* g_store
  free,    \* g_free
  mapped,  \* g_mapped: the store page each physical page holds
  pages,   \* g_handle_pages
  used,    \* g_handle_used
  frame,   \* the guest's memory under the window
  ah,      \* status of the last call
  dx       \* handle returned by the last successful allocation

vars == <<on, store, free, mapped, pages, used, frame, ah, dx>>

-----------------------------------------------------------------------------
(* Where a handle's pages are.                                             *)

\* One pair per page that some handle holds.
Held == {s \in Handle \X Page : used[s[1]] /\ s[2] < pages[s[1]]}

\* The pages of the handles below h.  ems.c adds up their sizes.
Below(h) == {s \in Held : s[1] < h}

\* Mutant: the whole table is counted, not the handles below.
AbsCountsAll(h, l) == Cardinality({s \in Held : s[1] # h}) + l
\* Mutant: the base starts one page too high.
AbsOffByOne(h, l) == Cardinality(Below(h)) + l + 1

\* The store page behind logical page l of handle h.
Abs(h, l) == Cardinality(Below(h)) + l

-----------------------------------------------------------------------------
(* Copying the window back.                                                *)

Holders(ps, a) == {p \in ps : mapped[p] = a}

LastOf(ps) == CHOOSE p \in ps : \A q \in ps : q <= p

\* Mutant: nothing is copied back.
WriteBackNothing(ps) == store

\* The store after the physical pages ps have been unmapped in ascending
\* order: of two that hold the same page, the later one is what remains.
WriteBack(ps) ==
  [a \in Page |-> IF Holders(ps, a) = {} THEN store[a]
                  ELSE frame[LastOf(Holders(ps, a))]]

-----------------------------------------------------------------------------
Init ==
  /\ on \in BOOLEAN
  /\ store = [a \in Page |-> Blank]
  /\ free = IF on THEN Total ELSE 0
  /\ mapped = [p \in Phys |-> NoPage]
  /\ pages = [h \in Handle |-> 0]
  /\ used = [h \in Handle |-> FALSE]
  /\ frame = [p \in Phys |-> Blank]
  /\ ah = "00"
  /\ dx = 0

Answer(status) ==
  /\ ah' = status
  /\ UNCHANGED <<on, store, free, mapped, pages, used, frame, dx>>

\* ems_int67 when the driver is off, and any function number it does not know.
Unsupported == Answer("84")

\* 40h status, 41h page frame, 42h page counts, 46h version: g_free is all of
\* the state they report, and they change none of it.
Query == on /\ Answer("00")

\* Mutant: a handle is taken without a look at whether it is in use.
FirstRegardless(h) == \A i \in Handle : h <= i

\* The search for a handle in 43h.
FirstUnused(h) == ~used[h] /\ \A i \in Handle : i < h => used[i]

\* Mutant: one page more than is left is granted.
FitsOneMore(want) == want <= free + 1

Fits(want) == want <= free

\* 43h.
Allocate(want) ==
  /\ on
  /\ \/ want = 0 /\ Answer("89")
     \/ want # 0 /\ ~Fits(want) /\ Answer("88")
     \/ /\ want # 0 /\ Fits(want)
        /\ \A h \in Handle : used[h]
        /\ Answer("85")
     \/ \E h \in Handle :
          /\ want # 0 /\ Fits(want)
          /\ FirstUnused(h)
          /\ used' = [used EXCEPT ![h] = TRUE]
          /\ pages' = [pages EXCEPT ![h] = want]
          /\ free' = free - want
          /\ dx' = h
          /\ ah' = "00"
          /\ UNCHANGED <<on, store, mapped, frame>>

ValidHandle(h) == h \in Handle /\ used[h]

\* Mutant: g_mapped is not brought up to date.
LoadUnrecorded(p, a) ==
  /\ store' = WriteBack({p})
  /\ frame' = [frame EXCEPT ![p] = store'[a]]
  /\ mapped' = mapped

\* Copy store page a into physical page p, the page that was there going back
\* first.
Load(p, a) ==
  /\ store' = WriteBack({p})
  /\ frame' = [frame EXCEPT ![p] = store'[a]]
  /\ mapped' = [mapped EXCEPT ![p] = a]

\* 44h with a page to map.  abs >= g_total is tested by the code last.
MapPage(p, h, l) ==
  /\ p \in Phys /\ ValidHandle(h) /\ l \in 0 .. pages[h] - 1
  /\ \/ Abs(h, l) >= Total /\ Answer("8A")
     \/ mapped[p] = Abs(h, l) /\ Abs(h, l) < Total /\ Answer("00")
     \/ /\ Abs(h, l) < Total
        /\ mapped[p] # Abs(h, l)
        /\ Load(p, Abs(h, l))
        /\ ah' = "00"
        /\ UNCHANGED <<on, free, pages, used, dx>>

\* 44h with BX = FFFFh.
UnmapPage(p, h) ==
  /\ p \in Phys /\ ValidHandle(h)
  /\ store' = WriteBack({p})
  /\ mapped' = [mapped EXCEPT ![p] = NoPage]
  /\ ah' = "00"
  /\ UNCHANGED <<on, free, pages, used, frame, dx>>

Map(p, h, l) ==
  /\ on
  /\ \/ p \notin Phys /\ Answer("8B")
     \/ p \in Phys /\ ~ValidHandle(h) /\ Answer("83")
     \/ l = -1 /\ UnmapPage(p, h)
     \/ /\ p \in Phys /\ ValidHandle(h)
        /\ l # -1 /\ l \notin 0 .. pages[h] - 1
        /\ Answer("8A")
     \/ MapPage(p, h, l)

\* 45h.  Every physical page is unmapped, whichever handle it belongs to.
Free(h) ==
  /\ on
  /\ \/ ~ValidHandle(h) /\ Answer("83")
     \/ /\ ValidHandle(h)
        /\ store' = WriteBack(Phys)
        /\ mapped' = [p \in Phys |-> NoPage]
        /\ free' = free + pages[h]
        /\ used' = [used EXCEPT ![h] = FALSE]
        /\ pages' = [pages EXCEPT ![h] = 0]
        /\ ah' = "00"
        /\ UNCHANGED <<on, frame, dx>>

\* The guest stores into the window: no call, no check.
GuestWrites(p, c) ==
  /\ frame' = [frame EXCEPT ![p] = c]
  /\ UNCHANGED <<on, store, free, mapped, pages, used, ah, dx>>

Next ==
  \/ Unsupported
  \/ Query
  \/ \E want \in AnyWant : Allocate(want)
  \/ \E p \in AnyPhys, h \in AnyHandle, l \in AnyLog : Map(p, h, l)
  \/ \E h \in AnyHandle : Free(h)
  \/ \E p \in Phys, c \in Contents : GuestWrites(p, c)

Spec == Init /\ [][Next]_vars

-----------------------------------------------------------------------------
(* Correctness properties.                                                 *)

\* Every variable has its type, and the pages a handle holds are its own.
TypeOK ==
  /\ on \in BOOLEAN
  /\ store \in [Page -> Contents]
  /\ free \in 0 .. Total
  /\ mapped \in [Phys -> Page \cup {NoPage}]
  /\ pages \in [Handle -> 0 .. Total]
  /\ used \in [Handle -> BOOLEAN]
  /\ frame \in [Phys -> Contents]
  /\ ah \in Status
  /\ dx \in 0 .. NHandles - 1

\* No page is lost and none is handed out twice: after any sequence of
\* allocations and frees, the free count and the pages of the handles add up
\* to the whole store.  It is what makes the answer of 42h worth anything.
Accounting == on => free + Cardinality(Held) = Total

\* A page a handle holds always lies in the store, although its place is
\* worked out from what the other handles hold: the copy in 44h never leaves
\* g_store, and the refusal "abs >= g_total" is never the guest's fault.
LivePagesInStore == \A s \in Held : Abs(s[1], s[2]) \in Page

\* At any one moment no two pages that handles hold have the same place.
RunsDisjoint ==
  \A s, t \in Held : Abs(s[1], s[2]) = Abs(t[1], t[2]) => s = t

\* A store page that leaves the window has had a copy of the window written
\* back to it: neither a map over it nor the unmapping that a free does drops
\* what the guest wrote there.
WrittenBack ==
  [][\A a \in Page :
       LET before == {p \in Phys : mapped[p] = a}
       IN  (before # {} /\ \A p \in Phys : mapped'[p] # a)
             => \E p \in before : store'[a] = frame[p]]_vars

\* Allocating or freeing a handle never moves the pages of a lower one.
LowerRunsStay ==
  [][\A h, k \in Handle :
       (h < k /\ used[h] /\ used'[h] /\ \A i \in Handle : i # k => used'[i] = used[i])
         => \A l \in 0 .. pages[h] - 1 : Abs(h, l)' = Abs(h, l)]_vars
=============================================================================
