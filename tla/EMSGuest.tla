------------------------------ MODULE EMSGuest ------------------------------
(***************************************************************************)
(* A guest of the expanded-memory driver, and what it may rely on.         *)
(*                                                                         *)
(* The game is not part of the sources; what they say of it (ems.c, lines  *)
(* 10-17) is that it pages cold assets out and back and maps one physical  *)
(* page at a time.  TidySpec is a guest that keeps to two rules the driver *)
(* never states but depends on:                                            *)
(*   - handles are freed in the reverse order of their allocation;         *)
(*   - no page is in two physical pages at once.                           *)
(* AnySpec is a guest that makes any legal call at any time.               *)
(*                                                                         *)
(* window is what the guest asked for, kept here for the properties; the   *)
(* driver records only a store page for each physical page.                *)
(***************************************************************************)
EXTENDS EMS

VARIABLE window

gvars == <<on, store, free, mapped, pages, used, frame, ah, dx, window>>

Slot    == Handle \X Page
Nothing == <<0, 0>>

GuestInit == Init /\ window = [p \in Phys |-> Nothing]

\* A call or a write that leaves the guest's view of the window alone.
Other ==
  /\ \/ Unsupported
     \/ Query
     \/ \E p \in Phys, c \in Contents : GuestWrites(p, c)
  /\ UNCHANGED window

GuestAllocate(want) == Allocate(want) /\ UNCHANGED window

GuestMap(p, h, l) ==
  /\ Map(p, h, l)
  /\ window' = IF ah' # "00" THEN window
               ELSE [window EXCEPT ![p] = IF l = -1 THEN Nothing ELSE <<h, l>>]

GuestFree(h) ==
  /\ Free(h)
  /\ window' = IF ah' # "00" THEN window ELSE [p \in Phys |-> Nothing]

AnyNext ==
  \/ Other
  \/ \E want \in AnyWant : GuestAllocate(want)
  \/ \E p \in AnyPhys, h \in AnyHandle, l \in AnyLog : GuestMap(p, h, l)
  \/ \E h \in AnyHandle : GuestFree(h)

AnySpec == GuestInit /\ [][AnyNext]_gvars

-----------------------------------------------------------------------------
\* h is the handle allocated last of those in use.
Newest(h) == \A i \in Handle : used[i] => i <= h

NowhereElse(p, s) == \A q \in Phys \ {p} : window[q] # s

TidyNext ==
  \/ Other
  \/ \E want \in AnyWant : GuestAllocate(want)
  \/ \E p \in AnyPhys, h \in AnyHandle, l \in AnyLog :
       NowhereElse(p, <<h, l>>) /\ GuestMap(p, h, l)
  \/ \E h \in AnyHandle : (ValidHandle(h) => Newest(h)) /\ GuestFree(h)

TidySpec == GuestInit /\ [][TidyNext]_gvars

-----------------------------------------------------------------------------
\* What a page holds as the guest sees it: the window's copy while it is
\* there, the store's otherwise.
Visible ==
  [s \in Slot |->
     IF s \notin Held THEN Blank
     ELSE IF \E p \in Phys : window[p] = s
       THEN frame[CHOOSE p \in Phys : window[p] = s]
       ELSE store[Abs(s[1], s[2])]]

Promise == INSTANCE PagedMemory
             WITH PageNo <- Page, size <- pages, data <- Visible

\* To a tidy guest the driver is a memory of pages: every page reads back what
\* was last written to it, through any sequence of allocations, maps, window
\* writes and frees, whatever else is paged in and out between.
KeepsPages == Promise!Spec

\* For a tidy guest the store page the driver recorded for a physical page is
\* still where the page the guest asked for lies.  The driver never corrects
\* the record, so this fails as soon as the pages move.
WindowAgrees ==
  \A p \in Phys :
    /\ window[p] = Nothing <=> mapped[p] = NoPage
    /\ window[p] # Nothing =>
         /\ window[p] \in Held
         /\ mapped[p] = Abs(window[p][1], window[p][2])

\* "give each handle its own run so two handles cannot land on the same
\* backing page" (ems.c, lines 143-144): two physical pages that were asked
\* for on behalf of different handles hold different store pages.
HandlesShareNoPage ==
  \A p, q \in Phys :
    (window[p] # Nothing /\ window[q] # Nothing /\ window[p][1] # window[q][1])
      => mapped[p] # mapped[q]
=============================================================================
