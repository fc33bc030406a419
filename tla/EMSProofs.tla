----------------------------- MODULE EMSProofs -----------------------------
(***************************************************************************)
(* Proofs about EMS.tla and EMSGuest.tla, for any number of pages, handles *)
(* and physical pages and any set of page contents.                        *)
(*                                                                         *)
(* The inductive invariant is TypeOK together with Accounting: that the    *)
(* free count stays within the store needs the accounting (a free adds the *)
(* pages of a handle to it), and the accounting needs the types.  A driver *)
(* that is off holds nothing: only that is said of it.                     *)
(*                                                                         *)
(* Of a tidy guest more holds, by a larger invariant (GInv): the record of *)
(* each physical page is right, and the refinement of PagedMemory follows. *)
(***************************************************************************)
EXTENDS EMSGuest, FiniteSetTheorems, WellFoundedInduction, TLAPS

EmptyWhenOff == on \/ \A h \in Handle : ~used[h]

IInv == TypeOK /\ Accounting /\ EmptyWhenOff

-----------------------------------------------------------------------------
(* Facts about finite sets.                                                *)

\* A non-empty set of numbers below n has a largest element.
LEMMA LargestExists ==
  ASSUME NEW n \in Nat, NEW S \in SUBSET (0 .. n - 1), S # {}
  PROVE  \E p \in S : \A q \in S : q <= p
<1> DEFINE T == {n - p : p \in S}
<1>1. T \subseteq Nat /\ T # {}
  OBVIOUS
<1>2. PICK x \in T : \A y \in T : ~ (<<y, x>> \in OpToRel(<, Nat))
  <2> HIDE DEF T
  <2> QED BY <1>1, NatLessThanWellFounded, WFMin
<1>3. \A y \in T : ~(y < x)
  BY <1>1, <1>2 DEF OpToRel
<1>4. PICK p \in S : x = n - p
  BY <1>2
<1>5. ASSUME NEW q \in S PROVE q <= p
  <2>1. n - q \in T
    OBVIOUS
  <2>2. ~(n - q < n - p)
    BY <2>1, <1>3, <1>4
  <2>3. p \in Int /\ q \in Int
    OBVIOUS
  <2> HIDE DEF T
  <2> QED BY <2>2, <2>3
<1> QED BY <1>5

\* A run of n pages of handle h has n pages.
LEMMA RunSize ==
  ASSUME NEW h, NEW n \in Nat
  PROVE  /\ IsFiniteSet({h} \X (0 .. n - 1))
         /\ Cardinality({h} \X (0 .. n - 1)) = n
<1>1. IsFiniteSet({h}) /\ Cardinality({h}) = 1
  BY FS_Singleton
<1>2. IsFiniteSet(0 .. n - 1) /\ Cardinality(0 .. n - 1) = n
  BY FS_Interval
<1>3. Cardinality({h} \X (0 .. n - 1)) = 1 * n
  BY <1>1, <1>2, FS_Product
<1> QED BY <1>1, <1>2, <1>3, FS_Product

\* There are finitely many pages that handles could hold.
LEMMA SlotsFinite == IsFiniteSet(Handle \X Page)
<1>1. IsFiniteSet(Handle)
  BY EMSAssumption, FS_Interval DEF Handle
<1>2. IsFiniteSet(Page)
  BY EMSAssumption, FS_Interval DEF Page
<1> QED BY <1>1, <1>2, FS_Product

\* Any set of slots is finite, so the counts below are numbers.
LEMMA CountIsNat ==
  ASSUME NEW S \in SUBSET (Handle \X Page)
  PROVE  IsFiniteSet(S) /\ Cardinality(S) \in Nat
<1>1. IsFiniteSet(S)
  BY SlotsFinite, FS_Subset
<1> QED BY <1>1, FS_CardinalityType

\* Two disjoint sets of slots count together.
LEMMA CountDisjoint ==
  ASSUME NEW S \in SUBSET (Handle \X Page), NEW T \in SUBSET (Handle \X Page),
         S \cap T = {}
  PROVE  Cardinality(S \cup T) = Cardinality(S) + Cardinality(T)
<1>1. /\ IsFiniteSet(S) /\ IsFiniteSet(T)
      /\ Cardinality(S) \in Nat /\ Cardinality(T) \in Nat
  BY CountIsNat
<1>2. Cardinality(S \cap T) = 0
  BY FS_EmptySet
<1>3. Cardinality(S \cup T) = Cardinality(S) + Cardinality(T) - Cardinality(S \cap T)
  BY <1>1, FS_Union
<1> QED BY <1>1, <1>2, <1>3

-----------------------------------------------------------------------------
(* Where pages are.                                                        *)

\* What is held is a set of slots.
LEMMA HeldIsSlots ==
  /\ Held \in SUBSET (Handle \X Page)
  /\ \A h : Below(h) \in SUBSET (Handle \X Page)
  BY DEF Held, Below

\* The pages of h are those from (h, 0) on, pages[h] of them.
LEMMA RunHeld ==
  ASSUME TypeOK, NEW h \in Handle, used[h], NEW n \in 0 .. pages[h]
  PROVE  {h} \X (0 .. n - 1) \subseteq Held
<1>1. pages[h] \in 0 .. Total
  BY DEF TypeOK
<1> QED BY <1>1, EMSAssumption DEF Held, Page

\* With the run of h up to page l added, the pages below h are still no more
\* than all that are held: this bounds the place of every page.
LEMMA PlaceBound ==
  ASSUME TypeOK, NEW h \in Handle, used[h], NEW n \in 0 .. pages[h]
  PROVE  /\ Cardinality(Below(h)) \in Nat
         /\ Cardinality(Held) \in Nat
         /\ Cardinality(Below(h)) + n <= Cardinality(Held)
<1> DEFINE Run == {h} \X (0 .. n - 1)
<1>1. n \in Nat
  BY EMSAssumption DEF TypeOK
<1>2. Run \subseteq Held
  BY RunHeld
<1>3. Run \cap Below(h) = {}
  BY EMSAssumption DEF Below, Handle
<1>4. Cardinality(Below(h) \cup Run) = Cardinality(Below(h)) + n
  <2>1. Cardinality(Run) = n
    BY <1>1, RunSize
  <2>2. Run \in SUBSET (Handle \X Page)
    BY <1>2, HeldIsSlots
  <2> HIDE DEF Run
  <2> QED BY <1>3, <2>1, <2>2, HeldIsSlots, CountDisjoint
<1>5. Below(h) \cup Run \in SUBSET Held
  BY <1>2 DEF Below
<1>6. Cardinality(Below(h) \cup Run) <= Cardinality(Held)
  BY <1>5, HeldIsSlots, CountIsNat, FS_Subset
<1> QED BY <1>4, <1>6, HeldIsSlots, CountIsNat

-----------------------------------------------------------------------------
(* Types.                                                                  *)

\* Copying any physical pages back leaves a store of page contents.
LEMMA WriteBackType ==
  ASSUME TypeOK, NEW ps \in SUBSET Phys
  PROVE  WriteBack(ps) \in [Page -> Contents]
<1> SUFFICES ASSUME NEW a \in Page
             PROVE  (IF Holders(ps, a) = {} THEN store[a]
                     ELSE frame[LastOf(Holders(ps, a))]) \in Contents
  BY DEF WriteBack
<1>1. CASE Holders(ps, a) = {}
  BY <1>1 DEF TypeOK
<1>2. CASE Holders(ps, a) # {}
  <2>1. Holders(ps, a) \in SUBSET (0 .. NPhys - 1)
    BY DEF Holders, Phys
  <2>2. \E p \in Holders(ps, a) : \A q \in Holders(ps, a) : q <= p
    BY <1>2, <2>1, EMSAssumption, LargestExists
  <2>3. LastOf(Holders(ps, a)) \in Holders(ps, a)
    BY <2>2 DEF LastOf
  <2>4. LastOf(Holders(ps, a)) \in Phys
    BY <2>3 DEF Holders
  <2> QED BY <1>2, <2>4 DEF TypeOK
<1> QED BY <1>1, <1>2

\* A step on one page of the window.
LEMMA MapType ==
  ASSUME IInv, NEW p \in AnyPhys, NEW h \in AnyHandle, NEW l \in AnyLog, Map(p, h, l)
  PROVE  IInv'
<1> USE DEF IInv, EmptyWhenOff
<1>1. CASE UNCHANGED <<on, store, free, mapped, pages, used, frame, dx>> /\ ah' \in Status
  BY <1>1 DEF TypeOK, Accounting, Held
<1>2. CASE l = -1 /\ UnmapPage(p, h)
  <2>1. p \in Phys /\ {p} \in SUBSET Phys
    BY <1>2 DEF UnmapPage
  <2>2. store' \in [Page -> Contents]
    BY <1>2, <2>1, WriteBackType DEF UnmapPage
  <2>3. mapped' \in [Phys -> Page \cup {NoPage}]
    BY <1>2, <2>1 DEF UnmapPage, TypeOK
  <2> QED BY <1>2, <2>2, <2>3 DEF UnmapPage, TypeOK, Status, Accounting, Held
<1>3. CASE /\ p \in Phys /\ ValidHandle(h) /\ l \in 0 .. pages[h] - 1
           /\ Abs(h, l) < Total
           /\ Load(p, Abs(h, l))
           /\ ah' = "00"
           /\ UNCHANGED <<on, free, pages, used, dx>>
  <2>1. {p} \in SUBSET Phys
    BY <1>3
  <2>2. store' \in [Page -> Contents]
    BY <1>3, <2>1, WriteBackType DEF Load
  <2>3. h \in Handle /\ used[h] /\ l + 1 \in 0 .. pages[h] /\ l \in Nat
    BY <1>3, EMSAssumption DEF ValidHandle, TypeOK
  <2>4. Cardinality(Below(h)) \in Nat
    BY <2>3, PlaceBound
  <2>5. Abs(h, l) \in Page
    BY <1>3, <2>3, <2>4, EMSAssumption DEF Abs, Page
  <2>6. mapped' \in [Phys -> Page \cup {NoPage}]
    BY <1>3, <2>5 DEF Load, TypeOK
  <2>7. frame' \in [Phys -> Contents]
    BY <1>3, <2>2, <2>5 DEF Load, TypeOK
  <2> QED BY <1>3, <2>2, <2>6, <2>7 DEF TypeOK, Status, Accounting, Held
<1> QED BY <1>1, <1>2, <1>3 DEF Map, MapPage, Answer, Status

\* Allocation moves pages from the free count to a handle that held none.
LEMMA AllocateCounts ==
  ASSUME IInv, NEW want \in AnyWant, Allocate(want)
  PROVE  IInv'
<1> USE DEF IInv, EmptyWhenOff
<1>1. CASE UNCHANGED <<on, store, free, mapped, pages, used, frame, dx>> /\ ah' \in Status
  BY <1>1 DEF TypeOK, Accounting, Held
<1>2. CASE \E h \in Handle :
             /\ want # 0 /\ Fits(want)
             /\ FirstUnused(h)
             /\ used' = [used EXCEPT ![h] = TRUE]
             /\ pages' = [pages EXCEPT ![h] = want]
             /\ free' = free - want
             /\ dx' = h
             /\ ah' = "00"
             /\ UNCHANGED <<on, store, mapped, frame>>
  <2>1. PICK h \in Handle :
             /\ want <= free
             /\ ~used[h]
             /\ used' = [used EXCEPT ![h] = TRUE]
             /\ pages' = [pages EXCEPT ![h] = want]
             /\ free' = free - want
             /\ dx' = h
             /\ ah' = "00"
             /\ UNCHANGED <<on, store, mapped, frame>>
    BY <1>2 DEF Fits, FirstUnused
  <2>2. want \in Nat /\ want <= Total
    BY <2>1, EMSAssumption DEF TypeOK, AnyWant
  <2>3. TypeOK'
    BY <2>1, <2>2, EMSAssumption DEF TypeOK, Status, Handle
  <2> DEFINE Run == {h} \X (0 .. want - 1)
  <2>4. Held' = Held \cup Run
    BY <2>1, <2>2, EMSAssumption DEF Held, TypeOK, Page
  <2>5. Held \cap Run = {}
    BY <2>1 DEF Held
  <2>6. Run \in SUBSET (Handle \X Page)
    BY <2>2, EMSAssumption DEF Page
  <2>7. Cardinality(Run) = want
    BY <2>2, RunSize
  <2>8. Cardinality(Held') = Cardinality(Held) + want
    <3> HIDE DEF Run
    <3> QED BY <2>4, <2>5, <2>6, <2>7, HeldIsSlots, CountDisjoint
  <2>9. Cardinality(Held)' = Cardinality(Held')
    OBVIOUS
  <2>10. Accounting'
    BY <2>1, <2>2, <2>8, HeldIsSlots, CountIsNat, EMSAssumption DEF Accounting, TypeOK
  <2>11. EmptyWhenOff'
    BY <2>1 DEF Allocate
  <2> QED BY <2>3, <2>10, <2>11
<1> QED BY <1>1, <1>2 DEF Allocate, Answer, Status

\* Freeing gives back what the handle held, no more and no less.
LEMMA FreeCounts ==
  ASSUME IInv, NEW h \in AnyHandle, Free(h)
  PROVE  IInv'
<1> USE DEF IInv, EmptyWhenOff
<1>1. CASE ~ValidHandle(h)
  BY <1>1 DEF Free, Answer, TypeOK, Status, Accounting, Held
<1>2. CASE ValidHandle(h)
  <2>1. h \in Handle /\ used[h] /\ pages[h] \in 0 .. Total /\ free \in 0 .. Total
    BY <1>2 DEF ValidHandle, TypeOK
  <2>2. /\ on
        /\ store' = WriteBack(Phys)
        /\ mapped' = [p \in Phys |-> NoPage]
        /\ free' = free + pages[h]
        /\ used' = [used EXCEPT ![h] = FALSE]
        /\ pages' = [pages EXCEPT ![h] = 0]
        /\ ah' = "00"
        /\ UNCHANGED <<on, frame, dx>>
    BY <1>2 DEF Free
  <2> DEFINE Run == {h} \X (0 .. pages[h] - 1)
  <2>3. Held = Held' \cup Run
    BY <2>1, <2>2, EMSAssumption DEF Held, TypeOK, Page
  <2>4. Held' \cap Run = {}
    BY <2>1, <2>2 DEF Held, TypeOK
  <2>5. Run \in SUBSET (Handle \X Page) /\ Held' \in SUBSET (Handle \X Page)
    BY <2>3, HeldIsSlots
  <2>6. Cardinality(Run) = pages[h]
    <3>1. pages[h] \in Nat
      BY <2>1, EMSAssumption
    <3> QED BY <3>1, RunSize
  <2>7. Cardinality(Held) = Cardinality(Held') + pages[h] /\ Cardinality(Held') \in Nat
    <3> HIDE DEF Run
    <3> QED BY <2>3, <2>4, <2>5, <2>6, CountDisjoint, CountIsNat
  <2>8. Accounting'
    BY <2>1, <2>2, <2>7, EMSAssumption DEF Accounting
  <2>9. free' \in 0 .. Total
    BY <2>1, <2>2, <2>7, EMSAssumption DEF Accounting
  <2>10. store' \in [Page -> Contents]
    BY <2>2, WriteBackType
  <2>11. TypeOK'
    BY <2>1, <2>2, <2>9, <2>10, EMSAssumption DEF TypeOK, Status
  <2>12. EmptyWhenOff'
    BY <2>2
  <2> QED BY <2>8, <2>11, <2>12
<1> QED BY <1>1, <1>2

\* The driver starts in the invariant.
LEMMA InitInv == Init => IInv
<1> SUFFICES ASSUME Init PROVE IInv
  OBVIOUS
<1>1. TypeOK
  BY EMSAssumption DEF Init, TypeOK, Status
<1>2. Held = {}
  BY DEF Init, Held
<1>3. Cardinality(Held) = 0
  BY <1>2, FS_EmptySet
<1> QED BY <1>1, <1>3, EMSAssumption DEF Init, IInv, EmptyWhenOff, Accounting

\* Every step keeps the invariant.
LEMMA NextInv == IInv /\ [Next]_vars => IInv'
<1> SUFFICES ASSUME IInv, [Next]_vars PROVE IInv'
  OBVIOUS
<1>1. CASE Unsupported
  BY <1>1 DEF Unsupported, Answer, IInv, EmptyWhenOff, TypeOK, Status, Accounting, Held
<1>2. CASE Query
  BY <1>2 DEF Query, Answer, IInv, EmptyWhenOff, TypeOK, Status, Accounting, Held
<1>3. ASSUME NEW want \in AnyWant, Allocate(want) PROVE IInv'
  BY <1>3, AllocateCounts
<1>4. ASSUME NEW p \in AnyPhys, NEW h \in AnyHandle, NEW l \in AnyLog, Map(p, h, l)
      PROVE  IInv'
  BY <1>4, MapType
<1>5. ASSUME NEW h \in AnyHandle, Free(h) PROVE IInv'
  BY <1>5, FreeCounts
<1>6. ASSUME NEW p \in Phys, NEW c \in Contents, GuestWrites(p, c) PROVE IInv'
  BY <1>6 DEF GuestWrites, IInv, EmptyWhenOff, TypeOK, Accounting, Held
<1>7. CASE UNCHANGED vars
  BY <1>7 DEF vars, IInv, EmptyWhenOff, TypeOK, Accounting, Held
<1> QED BY <1>1, <1>2, <1>3, <1>4, <1>5, <1>6, <1>7 DEF Next

-----------------------------------------------------------------------------
(* The theorems.                                                           *)

\* The invariant holds throughout.
LEMMA InvAlways == Spec => []IInv
<1> QED BY InitInv, NextInv, PTL DEF Spec

\* Every variable keeps its type: in particular g_free never goes below zero
\* or above the store, and g_mapped never names a page outside it.
THEOREM TypeCorrect == Spec => []TypeOK
<1>1. IInv => TypeOK
  BY DEF IInv
<1> QED BY <1>1, InvAlways, PTL

\* Whatever the guest allocates and frees, in whatever order, the free count
\* of 42h and the pages of the handles add up to the store.
THEOREM AccountingCorrect == Spec => []Accounting
<1>1. IInv => Accounting
  BY DEF IInv
<1> QED BY <1>1, InvAlways, PTL

-----------------------------------------------------------------------------
(* Places: disjoint, inside the store, and steady for the lower handles.   *)

\* All that a handle holds lies below the place of any higher one.
LEMMA RunsInOrder ==
  ASSUME TypeOK, NEW h \in Handle, NEW k \in Handle, h < k, used[h]
  PROVE  /\ Cardinality(Below(h)) \in Nat
         /\ Cardinality(Below(k)) \in Nat
         /\ Cardinality(Below(h)) + pages[h] <= Cardinality(Below(k))
<1> DEFINE Run == {h} \X (0 .. pages[h] - 1)
<1>1. pages[h] \in Nat /\ pages[h] \in 0 .. pages[h]
  BY EMSAssumption DEF TypeOK
<1>2. Run \subseteq Held
  BY <1>1, RunHeld
<1>3. Run \cap Below(h) = {}
  BY EMSAssumption DEF Below, Handle
<1>4. Below(h) \cup Run \in SUBSET Below(k)
  BY <1>2, EMSAssumption DEF Below, Held, Handle
<1>5. Cardinality(Below(h) \cup Run) = Cardinality(Below(h)) + pages[h]
  <2>1. Cardinality(Run) = pages[h]
    BY <1>1, RunSize
  <2>2. Run \in SUBSET (Handle \X Page)
    BY <1>2, HeldIsSlots
  <2> HIDE DEF Run
  <2> QED BY <1>3, <2>1, <2>2, HeldIsSlots, CountDisjoint
<1>6. Cardinality(Below(h) \cup Run) <= Cardinality(Below(k))
  BY <1>4, HeldIsSlots, CountIsNat, FS_Subset
<1> QED BY <1>5, <1>6, HeldIsSlots, CountIsNat

\* The invariant puts every held page inside the store.
LEMMA PlacesInStore == IInv => LivePagesInStore
<1> SUFFICES ASSUME IInv, NEW s \in Held PROVE Abs(s[1], s[2]) \in Page
  BY DEF LivePagesInStore
<1>1. /\ s[1] \in Handle /\ used[s[1]] /\ s[2] \in Page
      /\ s[2] < pages[s[1]] /\ pages[s[1]] \in 0 .. Total /\ TypeOK
  BY DEF IInv, Held, TypeOK
<1>2. s[2] \in Nat /\ s[2] + 1 \in 0 .. pages[s[1]]
  BY <1>1, EMSAssumption DEF Page
<1>3. /\ Cardinality(Below(s[1])) \in Nat
      /\ Cardinality(Held) \in Nat
      /\ Cardinality(Below(s[1])) + (s[2] + 1) <= Cardinality(Held)
  BY <1>1, <1>2, PlaceBound
<1>4. free \in Nat /\ free + Cardinality(Held) = Total
  BY <1>1, EMSAssumption DEF IInv, EmptyWhenOff, Accounting, TypeOK
<1> QED BY <1>2, <1>3, <1>4, EMSAssumption DEF Abs, Page

\* The invariant keeps the runs of the handles apart.
LEMMA PlacesDiffer == IInv => RunsDisjoint
<1>1. ASSUME IInv, NEW s \in Held, NEW t \in Held, s[1] < t[1]
      PROVE  Abs(s[1], s[2]) < Abs(t[1], t[2])
  <2>1. /\ s[1] \in Handle /\ used[s[1]] /\ t[1] \in Handle /\ TypeOK
        /\ s[2] \in Nat /\ t[2] \in Nat /\ s[2] < pages[s[1]] /\ pages[s[1]] \in Nat
    BY <1>1, EMSAssumption DEF IInv, Held, Page, TypeOK
  <2>2. /\ Cardinality(Below(s[1])) \in Nat
        /\ Cardinality(Below(t[1])) \in Nat
        /\ Cardinality(Below(s[1])) + pages[s[1]] <= Cardinality(Below(t[1]))
    BY <1>1, <2>1, RunsInOrder
  <2> QED BY <2>1, <2>2 DEF Abs
<1>2. ASSUME IInv, NEW s \in Held PROVE /\ Abs(s[1], s[2]) \in Int
                                       /\ Cardinality(Below(s[1])) \in Nat
                                       /\ s[2] \in Nat /\ s[1] \in Int
                                       /\ s = <<s[1], s[2]>>
  <2>1. s[2] \in Nat /\ s[1] \in Int /\ s = <<s[1], s[2]>>
    BY EMSAssumption DEF Held, Page, Handle
  <2>2. Cardinality(Below(s[1])) \in Nat
    BY HeldIsSlots, CountIsNat
  <2> QED BY <2>1, <2>2 DEF Abs
<1> SUFFICES ASSUME IInv, NEW s \in Held, NEW t \in Held,
                    Abs(s[1], s[2]) = Abs(t[1], t[2])
             PROVE  s = t
  BY DEF RunsDisjoint
<1>3. s[1] = t[1]
  BY <1>1, <1>2
<1>4. s[2] = t[2]
  BY <1>2, <1>3 DEF Abs
<1> QED BY <1>2, <1>3, <1>4

\* The copy in 44h stays inside g_store for any number of handles and pages,
\* and the driver never refuses a page that its handle owns.
THEOREM LivePagesInStoreCorrect == Spec => []LivePagesInStore
<1> QED BY PlacesInStore, InvAlways, PTL

\* At no moment do two pages that handles hold have the same place.
THEOREM RunsDisjointCorrect == Spec => []RunsDisjoint
<1> QED BY PlacesDiffer, InvAlways, PTL

-----------------------------------------------------------------------------
(* What a step may do to the store and to the places.                      *)

\* Unmapping ps copies each page that one of them holds.
LEMMA CopiesHolder ==
  ASSUME NEW ps \in SUBSET Phys, NEW a \in Page, Holders(ps, a) # {}
  PROVE  \E p \in Holders(ps, a) : WriteBack(ps)[a] = frame[p]
<1>1. Holders(ps, a) \in SUBSET (0 .. NPhys - 1)
  BY DEF Holders, Phys
<1>2. \E p \in Holders(ps, a) : \A q \in Holders(ps, a) : q <= p
  BY <1>1, EMSAssumption, LargestExists
<1>3. LastOf(Holders(ps, a)) \in Holders(ps, a)
  BY <1>2 DEF LastOf
<1> QED BY <1>3 DEF WriteBack

\* A step that takes a store page out of the window writes a copy of it.
LEMMA StepWritesBack ==
  ASSUME IInv, [Next]_vars, NEW a \in Page,
         {p \in Phys : mapped[p] = a} # {}, \A p \in Phys : mapped'[p] # a
  PROVE  \E p \in {q \in Phys : mapped[q] = a} : store'[a] = frame[p]
<1> DEFINE Gone == \E p \in {q \in Phys : mapped[q] = a} : store'[a] = frame[p]
<1>1. CASE UNCHANGED mapped
  BY <1>1
<1>2. ASSUME NEW p \in Phys, NEW b, store' = WriteBack({p}), mapped' = [mapped EXCEPT ![p] = b]
      PROVE  Gone
  <2>1. mapped[p] = a
    BY <1>2 DEF IInv, TypeOK
  <2>2. Holders({p}, a) = {p}
    BY <2>1 DEF Holders
  <2>3. \E q \in Holders({p}, a) : WriteBack({p})[a] = frame[q]
    BY <2>2, CopiesHolder
  <2> QED BY <1>2, <2>1, <2>2, <2>3
<1>3. CASE store' = WriteBack(Phys)
  <2>1. \E q \in Holders(Phys, a) : WriteBack(Phys)[a] = frame[q]
    BY CopiesHolder DEF Holders
  <2> QED BY <1>3, <2>1 DEF Holders
<1>4. ASSUME NEW p \in AnyPhys, NEW h \in AnyHandle, NEW l \in AnyLog, Map(p, h, l)
      PROVE  \/ UNCHANGED mapped
             \/ \E b : /\ p \in Phys
                      /\ store' = WriteBack({p})
                      /\ mapped' = [mapped EXCEPT ![p] = b]
  BY <1>4 DEF Map, MapPage, UnmapPage, Load, Answer
<1>5. ASSUME NEW want \in AnyWant, Allocate(want) PROVE UNCHANGED mapped
  BY <1>5 DEF Allocate, Answer
<1>6. ASSUME NEW h \in AnyHandle, Free(h)
      PROVE  UNCHANGED mapped \/ store' = WriteBack(Phys)
  BY <1>6 DEF Free, Answer
<1> QED
  BY <1>1, <1>2, <1>3, <1>4, <1>5, <1>6 DEF Next, Unsupported, Query, Answer, GuestWrites, vars

\* A store page never leaves the window without one of the window's copies of
\* it having been written to the store, whatever the step.
THEOREM WrittenBackCorrect == Spec => WrittenBack
<1>1. IInv /\ [Next]_vars =>
        \A a \in Page :
          LET before == {p \in Phys : mapped[p] = a}
          IN  (before # {} /\ \A p \in Phys : mapped'[p] # a)
                => \E p \in before : store'[a] = frame[p]
  BY StepWritesBack
<1> QED BY <1>1, InvAlways, PTL DEF Spec, WrittenBack

\* Which handles a step can touch.
LEMMA StepTouches ==
  ASSUME IInv, [Next]_vars
  PROVE  \/ UNCHANGED <<used, pages>>
         \/ \E k \in Handle :
              /\ used' = [used EXCEPT ![k] = ~used[k]]
              /\ \A i \in Handle : i # k => pages'[i] = pages[i]
<1>1. ASSUME NEW p \in AnyPhys, NEW h \in AnyHandle, NEW l \in AnyLog, Map(p, h, l)
      PROVE  UNCHANGED <<used, pages>>
  BY <1>1 DEF Map, MapPage, UnmapPage, Load, Answer
<1>2. ASSUME NEW want \in AnyWant, Allocate(want)
      PROVE  \/ UNCHANGED <<used, pages>>
             \/ \E k \in Handle :
                  /\ used' = [used EXCEPT ![k] = ~used[k]]
                  /\ \A i \in Handle : i # k => pages'[i] = pages[i]
  BY <1>2 DEF Allocate, Answer, FirstUnused, IInv, TypeOK
<1>3. ASSUME NEW h \in AnyHandle, Free(h)
      PROVE  \/ UNCHANGED <<used, pages>>
             \/ \E k \in Handle :
                  /\ used' = [used EXCEPT ![k] = ~used[k]]
                  /\ \A i \in Handle : i # k => pages'[i] = pages[i]
  BY <1>3 DEF Free, ValidHandle, Answer, IInv, TypeOK
<1> QED
  BY <1>1, <1>2, <1>3 DEF Next, Unsupported, Query, Answer, GuestWrites, vars

\* An allocation or a free of handle k leaves every page of the handles below
\* k where it is.  (Of the handles above k nothing of the kind can be said.)
THEOREM LowerRunsStayCorrect == Spec => LowerRunsStay
<1>1. ASSUME IInv, [Next]_vars, NEW h \in Handle, NEW k \in Handle,
             h < k, used[h], used'[h],
             \A i \in Handle : i # k => used'[i] = used[i]
      PROVE  Below(h)' = Below(h)
  <2>1. \A i \in Handle : i < h => used'[i] = used[i] /\ pages'[i] = pages[i]
    BY <1>1, StepTouches, EMSAssumption DEF IInv, TypeOK, Handle
  <2> QED BY <2>1, EMSAssumption DEF Below, Held, Handle
<1>2. IInv /\ [Next]_vars =>
        \A h, k \in Handle :
          (h < k /\ used[h] /\ used'[h] /\ \A i \in Handle : i # k => used'[i] = used[i])
            => \A l \in 0 .. pages[h] - 1 : Abs(h, l)' = Abs(h, l)
  BY <1>1 DEF Abs
<1> QED BY <1>2, InvAlways, PTL DEF Spec, LowerRunsStay

-----------------------------------------------------------------------------
(* A tidy guest: the window agrees with what was asked for, and the driver *)
(* keeps every page.                                                       *)

\* What the guest asked for is there: pages that handles hold, no page twice.
WindowHeld ==
  /\ window \in [Phys -> Held \cup {Nothing}]
  /\ \A p, q \in Phys : (p # q /\ window[p] # Nothing) => window[p] # window[q]

\* Handles in use come before those that are not: the next one given out is
\* above all of them, and its pages lie after theirs.
UsedFirst ==
  /\ \A h \in Handle : ~used[h] => pages[h] = 0
  /\ \A h, i \in Handle : (used[h] /\ i < h) => used[i]

GInv == IInv /\ WindowHeld /\ WindowAgrees /\ UsedFirst

\* A page that no handle holds has no name of a page.
LEMMA NothingIsNoSlot ==
  /\ Nothing \notin Held
  /\ NoPage \notin Page
<1>1. 0 \notin Handle
  BY EMSAssumption DEF Handle
<1>2. -1 \notin Page
  BY EMSAssumption DEF Page
<1> QED BY <1>1, <1>2 DEF Nothing, Held, NoPage

\* The driver's record leads back to one page, and to one physical page.
LEMMA RecordIsOne ==
  ASSUME GInv, NEW p \in Phys, NEW t \in Held, mapped[p] = Abs(t[1], t[2])
  PROVE  /\ window[p] = t
         /\ \A q \in Phys : mapped[q] = mapped[p] => q = p
<1>1. Abs(t[1], t[2]) \in Page
  BY PlacesInStore DEF GInv, LivePagesInStore
<1>2. ASSUME NEW q \in Phys, mapped[q] = Abs(t[1], t[2])
      PROVE  window[q] = t /\ t # Nothing
  <2>1. mapped[q] # NoPage
    BY <1>1, <1>2, NothingIsNoSlot
  <2>2. /\ window[q] \in Held /\ window[q] # Nothing
        /\ mapped[q] = Abs(window[q][1], window[q][2])
    BY <2>1 DEF GInv, WindowAgrees
  <2>3. RunsDisjoint
    BY PlacesDiffer DEF GInv
  <2> HIDE DEF GInv
  <2> QED BY <1>2, <2>2, <2>3 DEF RunsDisjoint
<1>3. window[p] = t
  BY <1>2
<1>4. ASSUME NEW q \in Phys, mapped[q] = mapped[p] PROVE q = p
  BY <1>2, <1>4, <1>3 DEF GInv, WindowHeld
<1> QED BY <1>3, <1>4

\* What the guest sees of a page: the window's copy if it is there, the
\* store's if it is not, and nothing if no handle holds it.
LEMMA VisibleIs ==
  ASSUME WindowHeld, NEW t \in Slot
  PROVE  /\ t \notin Held => Visible[t] = Blank
         /\ \A p \in Phys : (t \in Held /\ window[p] = t) => Visible[t] = frame[p]
         /\ (t \in Held /\ \A p \in Phys : window[p] # t)
              => Visible[t] = store[Abs(t[1], t[2])]
<1>1. Visible[t] = IF t \notin Held THEN Blank
                   ELSE IF \E p \in Phys : window[p] = t
                     THEN frame[CHOOSE p \in Phys : window[p] = t]
                     ELSE store[Abs(t[1], t[2])]
  BY DEF Visible
<1>2. ASSUME NEW p \in Phys, t \in Held, window[p] = t PROVE Visible[t] = frame[p]
  <2>1. t # Nothing
    BY <1>2, NothingIsNoSlot
  <2>2. (CHOOSE q \in Phys : window[q] = t) = p
    BY <1>2, <2>1 DEF WindowHeld
  <2> QED BY <1>1, <1>2, <2>2
<1>3. t \notin Held => Visible[t] = Blank
  BY <1>1
<1>4. (t \in Held /\ \A p \in Phys : window[p] # t)
        => Visible[t] = store[Abs(t[1], t[2])]
  BY <1>1
<1> QED BY <1>2, <1>3, <1>4

\* The same, in the state after a step.
LEMMA VisibleNext ==
  (WindowHeld =>
    \A t \in Slot :
         /\ t \notin Held => Visible[t] = Blank
         /\ \A p \in Phys : (t \in Held /\ window[p] = t) => Visible[t] = frame[p]
         /\ (t \in Held /\ \A p \in Phys : window[p] # t)
              => Visible[t] = store[Abs(t[1], t[2])])'
<1>1. WindowHeld =>
        \A t \in Slot :
         /\ t \notin Held => Visible[t] = Blank
         /\ \A p \in Phys : (t \in Held /\ window[p] = t) => Visible[t] = frame[p]
         /\ (t \in Held /\ \A p \in Phys : window[p] # t)
              => Visible[t] = store[Abs(t[1], t[2])]
  BY VisibleIs
<1> QED BY <1>1, PTL

-----------------------------------------------------------------------------
(* What a step of a tidy guest does, one operator for each effect.         *)

\* A query, a refusal, or a map of the page that is there already.
Quiet == UNCHANGED <<store, mapped, pages, used, frame, window>>

Took(h, n) ==
  /\ FirstUnused(h) /\ n \in 1 .. Total
  /\ used' = [used EXCEPT ![h] = TRUE]
  /\ pages' = [pages EXCEPT ![h] = n]
  /\ UNCHANGED <<store, mapped, frame, window>>

Loaded(p, s) ==
  /\ s \in Held /\ NowhereElse(p, s) /\ mapped[p] # Abs(s[1], s[2])
  /\ Load(p, Abs(s[1], s[2]))
  /\ window' = [window EXCEPT ![p] = s]
  /\ UNCHANGED <<pages, used>>

Emptied(p) ==
  /\ store' = WriteBack({p})
  /\ mapped' = [mapped EXCEPT ![p] = NoPage]
  /\ window' = [window EXCEPT ![p] = Nothing]
  /\ UNCHANGED <<pages, used, frame>>

Freed(h) ==
  /\ used[h] /\ Newest(h)
  /\ store' = WriteBack(Phys)
  /\ mapped' = [p \in Phys |-> NoPage]
  /\ window' = [p \in Phys |-> Nothing]
  /\ used' = [used EXCEPT ![h] = FALSE]
  /\ pages' = [pages EXCEPT ![h] = 0]
  /\ UNCHANGED frame

Wrote(p, c) ==
  /\ frame' = [frame EXCEPT ![p] = c]
  /\ UNCHANGED <<store, mapped, pages, used, window>>

\* A map call of a tidy guest.
LEMMA MapEffect ==
  ASSUME GInv, NEW p \in AnyPhys, NEW h \in AnyHandle, NEW l \in AnyLog,
         NowhereElse(p, <<h, l>>), GuestMap(p, h, l)
  PROVE  \/ Quiet
         \/ p \in Phys /\ (Emptied(p) \/ Loaded(p, <<h, l>>))
<1>1. TypeOK
  BY DEF GInv, IInv
<1>2. ASSUME NEW st \in {"84", "8B", "83", "8A"}, Answer(st) PROVE Quiet
  BY <1>2 DEF Answer, GuestMap, Quiet
<1>3. CASE l = -1 /\ UnmapPage(p, h)
  BY <1>3 DEF UnmapPage, GuestMap, Emptied
<1>4. CASE MapPage(p, h, l) /\ ah' = "00"
  <2>1. /\ p \in Phys /\ h \in Handle /\ used[h] /\ l \in 0 .. pages[h] - 1
        /\ pages[h] \in 0 .. Total
    BY <1>1, <1>4 DEF MapPage, ValidHandle, TypeOK
  <2>2. <<h, l>> \in Held /\ l # -1
    BY <2>1, EMSAssumption DEF Held, Page
  <2>3. window' = [window EXCEPT ![p] = <<h, l>>]
    BY <1>4, <2>2 DEF GuestMap
  <2>4. CASE mapped[p] = Abs(h, l) /\ Answer("00")
    <3>1. window[p] = <<h, l>>
      <4> DEFINE t == <<h, l>>
      <4>1. mapped[p] = Abs(t[1], t[2])
        BY <2>4
      <4>2. t \in Held
        BY <2>2
      <4> HIDE DEF t
      <4>3. window[p] = t
        BY <2>1, <4>1, <4>2, RecordIsOne
      <4> QED BY <4>3 DEF t
    <3>2. window' = window
      BY <2>3, <3>1, <2>1 DEF GInv, WindowHeld
    <3> QED BY <2>4, <3>2 DEF Quiet, Answer
  <2>5. CASE mapped[p] # Abs(h, l) /\ Load(p, Abs(h, l)) /\ UNCHANGED <<pages, used>>
    BY <2>1, <2>2, <2>3, <2>5 DEF Loaded
  <2>6. ~Answer("8A")
    BY <1>4 DEF Answer
  <2> QED BY <1>4, <2>4, <2>5, <2>6 DEF MapPage
<1>5. CASE MapPage(p, h, l) /\ ah' # "00"
  BY <1>2, <1>5 DEF MapPage, Answer
<1> QED BY <1>2, <1>3, <1>4, <1>5 DEF GuestMap, Map

\* Every step of a tidy guest has one of the effects above.
LEMMA TidyEffects ==
  ASSUME GInv, [TidyNext]_gvars
  PROVE  \/ Quiet
         \/ \E h \in Handle, n \in 1 .. Total : Took(h, n)
         \/ \E p \in Phys, s \in Held : Loaded(p, s)
         \/ \E p \in Phys : Emptied(p)
         \/ \E h \in Handle : Freed(h)
         \/ \E p \in Phys, c \in Contents : Wrote(p, c)
<1>1. CASE Other
  BY <1>1 DEF Other, Unsupported, Query, Answer, GuestWrites, Quiet, Wrote
<1>2. ASSUME NEW want \in AnyWant, GuestAllocate(want)
      PROVE  Quiet \/ \E h \in Handle, n \in 1 .. Total : Took(h, n)
  <2>1. TypeOK
    BY DEF GInv, IInv
  <2>2. (want # 0 /\ Fits(want)) => want \in 1 .. Total
    BY <2>1, EMSAssumption DEF AnyWant, Fits, TypeOK
  <2> QED BY <1>2, <2>2 DEF GuestAllocate, Allocate, Answer, Quiet, Took
<1>3. ASSUME NEW p \in AnyPhys, NEW h \in AnyHandle, NEW l \in AnyLog,
             NowhereElse(p, <<h, l>>), GuestMap(p, h, l)
      PROVE  \/ Quiet
             \/ \E q \in Phys : Emptied(q)
             \/ \E q \in Phys, s \in Held : Loaded(q, s)
  BY <1>3, MapEffect DEF Loaded
<1>4. ASSUME NEW h \in AnyHandle, ValidHandle(h) => Newest(h), GuestFree(h)
      PROVE  Quiet \/ \E k \in Handle : Freed(k)
  BY <1>4 DEF GuestFree, Free, Answer, ValidHandle, Quiet, Freed
<1>5. CASE UNCHANGED gvars
  BY <1>5 DEF gvars, Quiet
<1> QED BY <1>1, <1>2, <1>3, <1>4, <1>5 DEF TidyNext

\* The driver's own invariant does not care who calls it.
LEMMA TidyIsNext ==
  ASSUME [TidyNext]_gvars
  PROVE  [Next]_vars
BY DEF TidyNext, gvars, vars, Next, Other, GuestAllocate, GuestMap, GuestFree

-----------------------------------------------------------------------------
(* No effect moves the page of a handle that keeps it.                     *)

\* Only handles above those in use are given out.
LEMMA TookPlaces ==
  ASSUME GInv, NEW h \in Handle, NEW n \in 1 .. Total, Took(h, n)
  PROVE  /\ Held' = Held \cup ({h} \X (0 .. n - 1))
         /\ \A t \in Held : t[1] # h /\ t \in Held' /\ Abs(t[1], t[2])' = Abs(t[1], t[2])
<1>1. TypeOK /\ UsedFirst
  BY DEF GInv, IInv
<1>2. Held' = Held \cup ({h} \X (0 .. n - 1))
  BY <1>1, EMSAssumption DEF Took, FirstUnused, Held, TypeOK, Page
<1>3. ASSUME NEW t \in Held PROVE t[1] # h /\ Below(t[1])' = Below(t[1])
  <2>1. t[1] \in Handle /\ used[t[1]]
    BY DEF Held
  <2>2. t[1] # h /\ ~(h < t[1])
    BY <1>1, <2>1 DEF Took, FirstUnused, UsedFirst
  <2>3. \A s \in {h} \X (0 .. n - 1) : ~(s[1] < t[1])
    BY <2>2
  <2> QED BY <1>2, <2>2, <2>3 DEF Below
<1> QED BY <1>2, <1>3 DEF Abs

\* Only the handle above all others is freed.
LEMMA FreedPlaces ==
  ASSUME GInv, NEW h \in Handle, Freed(h)
  PROVE  /\ Held' = {t \in Held : t[1] # h}
         /\ \A t \in Held' : Abs(t[1], t[2])' = Abs(t[1], t[2])
<1>1. TypeOK
  BY DEF GInv, IInv
<1>2. Held' = {t \in Held : t[1] # h}
  BY <1>1 DEF Freed, Held, TypeOK
<1>3. ASSUME NEW t \in Held' PROVE Below(t[1])' = Below(t[1])
  <2>1. t[1] \in Handle /\ used[t[1]] /\ t[1] # h
    BY <1>2 DEF Held
  <2>2. t[1] < h
    BY <2>1, EMSAssumption DEF Freed, Newest, Handle
  <2>3. \A s \in Held : s[1] < t[1] => s[1] # h
    BY <2>2, EMSAssumption DEF Held, Handle
  <2> QED BY <1>2, <2>3 DEF Below
<1> QED BY <1>2, <1>3 DEF Abs

\* Places depend on the handles alone.
LEMMA SamePlaces ==
  ASSUME UNCHANGED <<pages, used>>
  PROVE  Held' = Held /\ \A t \in Held : Abs(t[1], t[2])' = Abs(t[1], t[2])
BY DEF Held, Below, Abs

\* What the guest relies on survives every step.
LEMMA GuestNextInv ==
  ASSUME GInv, [TidyNext]_gvars
  PROVE  GInv'
<1> DEFINE Good == (WindowHeld /\ WindowAgrees /\ UsedFirst)'
<1>1. IInv'
  BY TidyIsNext, NextInv DEF GInv
<1>2. /\ TypeOK /\ WindowHeld /\ WindowAgrees /\ UsedFirst
      /\ window \in [Phys -> Held \cup {Nothing}]
      /\ mapped \in [Phys -> Page \cup {NoPage}]
      /\ used \in [Handle -> BOOLEAN]
      /\ pages \in [Handle -> 0 .. Total]
  BY DEF GInv, IInv, WindowHeld, TypeOK
<1> SUFFICES Good
  BY <1>1 DEF GInv
<1>3. CASE Quiet
  <2>1. Held' = Held /\ \A t \in Held : Abs(t[1], t[2])' = Abs(t[1], t[2])
    BY <1>3, SamePlaces DEF Quiet
  <2>2. WindowHeld'
    BY <1>2, <1>3, <2>1 DEF Quiet, WindowHeld
  <2>3. WindowAgrees'
    BY <1>2, <1>3, <2>1 DEF Quiet, WindowAgrees
  <2>4. UsedFirst'
    BY <1>2, <1>3 DEF Quiet, UsedFirst
  <2> QED BY <2>2, <2>3, <2>4
<1>4. ASSUME NEW h \in Handle, NEW n \in 1 .. Total, Took(h, n) PROVE Good
  <2>1. \A t \in Held : t \in Held' /\ Abs(t[1], t[2])' = Abs(t[1], t[2])
    BY <1>4, TookPlaces
  <2>2. window' = window /\ mapped' = mapped
    BY <1>4 DEF Took
  <2>3. WindowHeld'
    BY <1>2, <2>1, <2>2 DEF WindowHeld
  <2>4. WindowAgrees'
    BY <1>2, <2>1, <2>2 DEF WindowAgrees
  <2>5. UsedFirst'
    BY <1>2, <1>4, EMSAssumption DEF UsedFirst, Took, FirstUnused, Handle
  <2> QED BY <2>3, <2>4, <2>5
<1>5. ASSUME NEW p \in Phys, NEW s \in Held, Loaded(p, s) PROVE Good
  <2>1. Held' = Held /\ \A t \in Held : Abs(t[1], t[2])' = Abs(t[1], t[2])
    BY <1>5, SamePlaces DEF Loaded
  <2>2. \A q \in Phys : /\ window'[q] = IF q = p THEN s ELSE window[q]
                        /\ mapped'[q] = IF q = p THEN Abs(s[1], s[2]) ELSE mapped[q]
    BY <1>2, <1>5 DEF Loaded, Load
  <2>3. window' \in [Phys -> Held \cup {Nothing}]
    BY <1>2, <1>5 DEF Loaded
  <2>4. s # Nothing /\ Abs(s[1], s[2]) # NoPage
    BY NothingIsNoSlot, PlacesInStore DEF GInv, LivePagesInStore
  <2>5. WindowHeld'
    BY <1>2, <1>5, <2>1, <2>2, <2>3, <2>4 DEF WindowHeld, Loaded, NowhereElse
  <2>6. WindowAgrees'
    BY <1>2, <2>1, <2>2, <2>4 DEF WindowAgrees
  <2>7. UsedFirst'
    BY <1>2, <1>5 DEF Loaded, UsedFirst
  <2> QED BY <2>5, <2>6, <2>7
<1>6. ASSUME NEW p \in Phys, Emptied(p) PROVE Good
  <2>1. Held' = Held /\ \A t \in Held : Abs(t[1], t[2])' = Abs(t[1], t[2])
    BY <1>6, SamePlaces DEF Emptied
  <2>2. \A q \in Phys : /\ window'[q] = IF q = p THEN Nothing ELSE window[q]
                        /\ mapped'[q] = IF q = p THEN NoPage ELSE mapped[q]
    BY <1>2, <1>6 DEF Emptied
  <2>3. window' \in [Phys -> Held \cup {Nothing}]
    BY <1>2, <1>6 DEF Emptied
  <2>4. WindowHeld'
    BY <1>2, <2>1, <2>2, <2>3 DEF WindowHeld
  <2>5. WindowAgrees'
    BY <1>2, <2>1, <2>2 DEF WindowAgrees
  <2>6. UsedFirst'
    BY <1>2, <1>6 DEF Emptied, UsedFirst
  <2> QED BY <2>4, <2>5, <2>6
<1>7. ASSUME NEW h \in Handle, Freed(h) PROVE Good
  <2>1. window' = [p \in Phys |-> Nothing] /\ mapped' = [p \in Phys |-> NoPage]
    BY <1>7 DEF Freed
  <2>2. WindowHeld' /\ WindowAgrees'
    BY <2>1 DEF WindowHeld, WindowAgrees
  <2>3. UsedFirst'
    BY <1>2, <1>7, EMSAssumption DEF UsedFirst, Freed, Newest, Handle
  <2> QED BY <2>2, <2>3
<1>8. ASSUME NEW p \in Phys, NEW c \in Contents, Wrote(p, c) PROVE Good
  <2>1. Held' = Held /\ \A t \in Held : Abs(t[1], t[2])' = Abs(t[1], t[2])
    BY <1>8, SamePlaces DEF Wrote
  <2> QED BY <1>2, <1>8, <2>1 DEF Wrote, WindowHeld, WindowAgrees, UsedFirst
<1>9. \/ Quiet
      \/ \E h \in Handle, n \in 1 .. Total : Took(h, n)
      \/ \E p \in Phys, s \in Held : Loaded(p, s)
      \/ \E p \in Phys : Emptied(p)
      \/ \E h \in Handle : Freed(h)
      \/ \E p \in Phys, c \in Contents : Wrote(p, c)
  BY TidyEffects
<1> HIDE DEF Good
<1> QED BY <1>3, <1>4, <1>5, <1>6, <1>7, <1>8, <1>9

\* A guest starts with an empty window.
LEMMA GuestInitInv == GuestInit => GInv
<1> SUFFICES ASSUME GuestInit PROVE GInv
  OBVIOUS
<1>1. IInv
  BY InitInv DEF GuestInit
<1>2. /\ window = [p \in Phys |-> Nothing] /\ mapped = [p \in Phys |-> NoPage]
      /\ pages = [h \in Handle |-> 0] /\ used = [h \in Handle |-> FALSE]
  BY DEF GuestInit, Init
<1> QED BY <1>1, <1>2 DEF GInv, WindowHeld, WindowAgrees, UsedFirst

\* What the guest relies on holds throughout.
LEMMA GuestInvAlways == TidySpec => []GInv
<1> QED BY GuestInitInv, GuestNextInv, PTL DEF TidySpec

\* The store page the driver recorded for a physical page is where the page
\* the guest asked for lies, for a guest that frees in reverse order.
THEOREM WindowAgreesCorrect == TidySpec => []WindowAgrees
<1>1. GInv => WindowAgrees
  BY DEF GInv
<1> QED BY <1>1, GuestInvAlways, PTL

-----------------------------------------------------------------------------
(* The driver implements a memory of pages.                                *)

\* What the guest sees is always a page's contents.
LEMMA VisibleType == GInv => Visible \in [Slot -> Contents]
<1> SUFFICES ASSUME GInv, NEW t \in Slot PROVE Visible[t] \in Contents
  BY DEF Visible
<1>1. TypeOK /\ WindowHeld
  BY DEF GInv, IInv
<1>2. CASE t \notin Held
  BY <1>1, <1>2, VisibleIs, EMSAssumption
<1>3. ASSUME t \in Held, NEW p \in Phys, window[p] = t PROVE Visible[t] \in Contents
  BY <1>1, <1>3, VisibleIs DEF TypeOK
<1>4. CASE t \in Held /\ \A p \in Phys : window[p] # t
  <2>1. Abs(t[1], t[2]) \in Page
    BY <1>4, PlacesInStore DEF GInv, LivePagesInStore
  <2> QED BY <1>1, <1>4, <2>1, VisibleIs DEF TypeOK
<1> QED BY <1>2, <1>3, <1>4

\* A store page keeps its contents when no unmapped physical page holds it,
\* and takes the window's copy when just one does.
LEMMA WriteBackOf ==
  ASSUME NEW ps \in SUBSET Phys, NEW a \in Page
  PROVE  /\ (\A q \in ps : mapped[q] # a) => WriteBack(ps)[a] = store[a]
         /\ \A p \in ps : (mapped[p] = a /\ \A q \in ps : mapped[q] = a => q = p)
                            => WriteBack(ps)[a] = frame[p]
<1>1. (\A q \in ps : mapped[q] # a) => WriteBack(ps)[a] = store[a]
  BY DEF WriteBack, Holders
<1>2. ASSUME NEW p \in ps, mapped[p] = a, \A q \in ps : mapped[q] = a => q = p
      PROVE  WriteBack(ps)[a] = frame[p]
  <2>1. Holders(ps, a) = {p}
    BY <1>2 DEF Holders
  <2>2. \E q \in Holders(ps, a) : WriteBack(ps)[a] = frame[q]
    BY <2>1, CopiesHolder
  <2> QED BY <2>1, <2>2
<1> QED BY <1>1, <1>2

\* When physical pages are unmapped, what they held is in the store and the
\* rest of the store is as it was: the guest sees the same.
LEMMA KeptInStore ==
  ASSUME GInv, NEW t \in Held, NEW ps \in SUBSET Phys,
         \A q \in Phys : window[q] = t => q \in ps
  PROVE  WriteBack(ps)[Abs(t[1], t[2])] = Visible[t]
<1>1. WindowHeld /\ WindowAgrees /\ Abs(t[1], t[2]) \in Page /\ t \in Slot
  BY PlacesInStore, HeldIsSlots DEF GInv, LivePagesInStore, Slot
<1>2. ASSUME NEW q \in Phys, mapped[q] = Abs(t[1], t[2])
      PROVE window[q] = t /\ \A r \in Phys : mapped[r] = mapped[q] => r = q
  BY <1>2, RecordIsOne
<1>3. ASSUME NEW p \in Phys, window[p] = t
      PROVE  WriteBack(ps)[Abs(t[1], t[2])] = Visible[t]
  <2>1. mapped[p] = Abs(t[1], t[2]) /\ p \in ps
    BY <1>1, <1>3, NothingIsNoSlot DEF WindowAgrees
  <2>2. WriteBack(ps)[Abs(t[1], t[2])] = frame[p]
    BY <1>1, <1>2, <2>1, WriteBackOf
  <2> QED BY <1>1, <1>3, <2>2, VisibleIs
<1>4. CASE \A p \in Phys : window[p] # t
  <2>1. \A q \in ps : mapped[q] # Abs(t[1], t[2])
    BY <1>2, <1>4
  <2>2. WriteBack(ps)[Abs(t[1], t[2])] = store[Abs(t[1], t[2])]
    BY <1>1, <2>1, WriteBackOf
  <2> QED BY <1>1, <1>4, <2>2, VisibleIs
<1> QED BY <1>3, <1>4

\* A function on the pages is what it is at each page.
LEMMA VisibleFun ==
  /\ Visible = [t \in Slot |-> Visible[t]]
  /\ Visible' = [t \in Slot |-> Visible'[t]]
BY DEF Visible

\* A page stays as it is when it is in the same physical pages as before and
\* neither they nor the store have changed.
LEMMA SeenThere ==
  ASSUME GInv, GInv', NEW t \in Held, t \in Held', NEW p \in Phys,
         window'[p] = t
  PROVE  Visible'[t] = frame'[p]
<1>1. t \in Slot /\ WindowHeld'
  BY HeldIsSlots DEF GInv, Slot
<1> QED BY <1>1, VisibleNext

\* The guest sees the same pages when some are unmapped by copying.
LEMMA SeenAfterUnmap ==
  ASSUME GInv, GInv', NEW t \in Held, t \in Held',
         Abs(t[1], t[2])' = Abs(t[1], t[2]),
         NEW ps \in SUBSET Phys, store' = WriteBack(ps), UNCHANGED frame,
         \A q \in Phys : q \notin ps => window'[q] = window[q],
         \A q \in ps : window'[q] # t
  PROVE  Visible'[t] = Visible[t]
<1>1. t \in Slot /\ WindowHeld /\ WindowHeld'
  BY HeldIsSlots DEF GInv, Slot
<1>2. ASSUME NEW p \in Phys, window'[p] = t PROVE Visible'[t] = Visible[t]
  <2>1. window[p] = t
    BY <1>2
  <2>2. Visible'[t] = frame'[p]
    BY <1>2, SeenThere
  <2> QED BY <1>1, <2>1, <2>2, VisibleIs
<1>3. CASE \A p \in Phys : window'[p] # t
  <2>1. Visible'[t] = store'[Abs(t[1], t[2])']
    BY <1>1, <1>3, VisibleNext
  <2>2. WriteBack(ps)[Abs(t[1], t[2])] = Visible[t]
    BY <1>3, KeptInStore
  <2> QED BY <2>1, <2>2
<1> QED BY <1>2, <1>3

\* Giving pages out changes only what the new pages show.
LEMMA TookSeen ==
  ASSUME GInv, GInv', NEW h \in Handle, NEW n \in 1 .. Total, Took(h, n)
  PROVE  Promise!Allocate(h, (n - 1) + 1)
<1>1. /\ TypeOK /\ WindowHeld /\ WindowHeld' /\ UsedFirst
      /\ n \in Nat /\ n <= Total
  BY EMSAssumption DEF GInv, IInv
<1>2. /\ Held' = Held \cup ({h} \X (0 .. n - 1))
      /\ \A t \in Held : t[1] # h /\ t \in Held' /\ Abs(t[1], t[2])' = Abs(t[1], t[2])
  BY TookPlaces
<1>3. /\ pages[h] = 0 /\ pages' = [pages EXCEPT ![h] = n]
      /\ UNCHANGED <<store, mapped, frame, window>>
  BY <1>1 DEF Took, FirstUnused, UsedFirst
<1>4. Visible' \in [Slot -> Contents]
  <2>1. (GInv => Visible \in [Slot -> Contents])'
    BY VisibleType, PTL
  <2> QED BY <2>1 DEF Slot
<1>5. ASSUME NEW t \in Slot, ~(t[1] = h /\ t[2] < n) PROVE Visible'[t] = Visible[t]
  <2>1. CASE t \in Held
    <3>1. ASSUME NEW p \in Phys, window[p] = t PROVE Visible'[t] = Visible[t]
      BY <1>1, <1>2, <1>3, <2>1, <3>1, SeenThere, VisibleIs
    <3>2. CASE \A p \in Phys : window[p] # t
      <4>1. Visible[t] = store[Abs(t[1], t[2])]
        BY <1>1, <2>1, <3>2, VisibleIs
      <4>2. Visible'[t] = store'[Abs(t[1], t[2])']
        BY <1>1, <1>2, <1>3, <2>1, <3>2, VisibleNext
      <4> QED BY <1>2, <1>3, <2>1, <4>1, <4>2
    <3> QED BY <3>1, <3>2
  <2>2. CASE t \notin Held
    <3>1. t[2] \in Nat
      BY EMSAssumption DEF Slot, Page
    <3>2. t \notin {h} \X (0 .. n - 1)
      BY <1>1, <1>5, <3>1
    <3>3. t \notin Held'
      BY <1>2, <2>2, <3>2
    <3> QED BY <1>1, <2>2, <3>3, VisibleIs, VisibleNext
  <2> QED BY <2>1, <2>2
<1>6. (n - 1) + 1 = n
  BY <1>1
<1> QED BY <1>3, <1>4, <1>5, <1>6 DEF Promise!Allocate, Promise!Slot, Slot

\* A map brings one page in and lets one go, and the guest sees both as before.
LEMMA LoadedSeen ==
  ASSUME GInv, GInv', NEW p \in Phys, NEW s \in Held, Loaded(p, s)
  PROVE  Promise!Map(p, s)
<1>1. /\ TypeOK /\ WindowHeld /\ WindowHeld' /\ WindowAgrees
      /\ s \in Slot /\ s[2] < pages[s[1]]
  BY HeldIsSlots DEF GInv, IInv, Slot, Held
<1>2. Held' = Held /\ \A t \in Held : Abs(t[1], t[2])' = Abs(t[1], t[2])
  BY SamePlaces DEF Loaded
<1>3. /\ store' = WriteBack({p})
      /\ frame' = [frame EXCEPT ![p] = store'[Abs(s[1], s[2])]]
      /\ window' = [window EXCEPT ![p] = s]
      /\ UNCHANGED <<pages, used>>
      /\ \A q \in Phys \ {p} : window[q] # s
      /\ mapped[p] # Abs(s[1], s[2])
  BY DEF Loaded, Load, NowhereElse
<1>4. \A q \in Phys : window[q] # s
  <2>1. window[p] # s
    BY <1>1, <1>3, NothingIsNoSlot DEF WindowAgrees
  <2> QED BY <1>3, <2>1
<1>5. \A q \in Phys : window'[q] = IF q = p THEN s ELSE window[q]
  BY <1>1, <1>3 DEF WindowHeld
<1>6. /\ \A q \in Phys : q # p => frame'[q] = frame[q]
      /\ frame'[p] = store'[Abs(s[1], s[2])]
  BY <1>1, <1>3 DEF TypeOK
<1>7. frame'[p] = Visible[s]
  <2>1. WriteBack({p})[Abs(s[1], s[2])] = Visible[s]
    BY <1>4, KeptInStore
  <2> QED BY <1>3, <1>6, <2>1
<1>8. ASSUME NEW t \in Slot PROVE Visible'[t] = Visible[t]
  <2>1. CASE t \notin Held
    BY <1>1, <1>2, <2>1, VisibleIs, VisibleNext
  <2>2. CASE t = s
    <3>1. Visible'[s] = frame'[p]
      BY <1>2, <1>5, SeenThere
    <3> QED BY <1>7, <2>2, <3>1
  <2>3. ASSUME t \in Held, t # s, NEW q \in Phys, q # p, window[q] = t
        PROVE  Visible'[t] = Visible[t]
    <3>1. Visible'[t] = frame'[q]
      BY <1>2, <1>5, <2>3, SeenThere
    <3> QED BY <1>1, <1>6, <2>3, <3>1, VisibleIs
  <2>4. CASE t \in Held /\ t # s /\ \A q \in Phys : q # p => window[q] # t
    <3>1. \A q \in Phys : window'[q] # t
      BY <1>5, <2>4
    <3>2. Visible'[t] = store'[Abs(t[1], t[2])']
      BY <1>1, <1>2, <2>4, <3>1, VisibleNext
    <3>3. WriteBack({p})[Abs(t[1], t[2])] = Visible[t]
      BY <2>4, KeptInStore
    <3> QED BY <1>2, <1>3, <2>4, <3>2, <3>3
  <2> QED BY <2>1, <2>2, <2>3, <2>4
<1>9. Visible' = Visible
  BY <1>8, VisibleFun
<1>10. Promise!Owned(s)
  BY <1>1 DEF Promise!Owned
<1> QED BY <1>3, <1>6, <1>7, <1>9, <1>10 DEF Promise!Map

\* Unmapping takes a page out of the window and loses nothing of it.
LEMMA EmptiedSeen ==
  ASSUME GInv, GInv', NEW p \in Phys, Emptied(p)
  PROVE  Promise!Unmap(p)
<1>1. /\ WindowHeld /\ WindowHeld'
      /\ Held' = Held /\ \A t \in Held : Abs(t[1], t[2])' = Abs(t[1], t[2])
  BY SamePlaces DEF GInv, Emptied
<1>2. \A q \in Phys : window'[q] = IF q = p THEN Nothing ELSE window[q]
  BY <1>1 DEF Emptied, WindowHeld
<1>3. ASSUME NEW t \in Slot PROVE Visible'[t] = Visible[t]
  <2>1. CASE t \notin Held
    BY <1>1, <2>1, VisibleIs, VisibleNext
  <2>2. CASE t \in Held
    <3>1. /\ store' = WriteBack({p}) /\ UNCHANGED frame
          /\ \A q \in Phys : q \notin {p} => window'[q] = window[q]
          /\ \A q \in {p} : window'[q] # t
          /\ {p} \in SUBSET Phys
      BY <1>2, <2>2, NothingIsNoSlot DEF Emptied
    <3> QED BY <1>1, <2>2, <3>1, SeenAfterUnmap
  <2> QED BY <2>1, <2>2
<1>4. Visible' = Visible
  BY <1>3, VisibleFun
<1> QED BY <1>4 DEF Emptied, Promise!Unmap, Promise!Nothing, Nothing

\* Freeing a handle takes its pages away and leaves those of the others.
LEMMA FreedSeen ==
  ASSUME GInv, GInv', NEW h \in Handle, Freed(h)
  PROVE  Promise!Free(h)
<1>1. /\ WindowHeld /\ WindowHeld'
      /\ Held' = {t \in Held : t[1] # h}
      /\ \A t \in Held' : Abs(t[1], t[2])' = Abs(t[1], t[2])
  BY FreedPlaces DEF GInv
<1>2. ASSUME NEW t \in Slot
      PROVE  Visible'[t] = IF t[1] = h THEN Blank ELSE Visible[t]
  <2>1. CASE t[1] = h
    BY <1>1, <2>1, VisibleNext
  <2>2. CASE t[1] # h /\ t \notin Held
    BY <1>1, <2>2, VisibleIs, VisibleNext
  <2>3. CASE t[1] # h /\ t \in Held
    <3>1. /\ store' = WriteBack(Phys) /\ UNCHANGED frame
          /\ \A q \in Phys : q \notin Phys => window'[q] = window[q]
          /\ \A q \in Phys : window'[q] # t
          /\ Phys \in SUBSET Phys
      BY <2>3, NothingIsNoSlot DEF Freed
    <3>2. Visible'[t] = Visible[t]
      BY <1>1, <2>3, <3>1, SeenAfterUnmap
    <3> QED BY <2>3, <3>2
  <2> QED BY <2>1, <2>2, <2>3
<1>3. Visible' = [t \in Slot |-> IF t[1] = h THEN Blank ELSE Visible[t]]
  BY <1>2, VisibleFun
<1> QED BY <1>3 DEF Freed, Promise!Free, Promise!Nothing, Promise!Slot, Nothing, Slot

\* What the guest writes in the window it reads in the page that is there.
LEMMA WroteSeen ==
  ASSUME GInv, GInv', NEW p \in Phys, NEW c \in Contents, Wrote(p, c)
  PROVE  Promise!Write(p, c)
<1>1. /\ TypeOK /\ WindowHeld /\ WindowHeld'
      /\ Held' = Held /\ \A t \in Held : Abs(t[1], t[2])' = Abs(t[1], t[2])
      /\ frame' = [frame EXCEPT ![p] = c]
      /\ UNCHANGED <<store, pages, window>>
  BY SamePlaces DEF GInv, IInv, Wrote
<1>2. \A q \in Phys : frame'[q] = IF q = p THEN c ELSE frame[q]
  BY <1>1 DEF TypeOK
<1>3. ASSUME NEW t \in Slot
      PROVE  Visible'[t] = IF t = window[p] THEN c ELSE Visible[t]
  <2>1. CASE t \notin Held
    <3>1. t # window[p]
      <4>1. t # Nothing
        BY EMSAssumption DEF Slot, Handle, Nothing
      <4> QED BY <1>1, <2>1, <4>1 DEF WindowHeld
    <3> QED BY <1>1, <2>1, <3>1, VisibleIs, VisibleNext
  <2>2. ASSUME t \in Held, NEW q \in Phys, window[q] = t
        PROVE  Visible'[t] = IF t = window[p] THEN c ELSE Visible[t]
    <3>1. Visible'[t] = frame'[q] /\ Visible[t] = frame[q]
      BY <1>1, <2>2, VisibleIs, SeenThere
    <3>2. t = window[p] => q = p
      BY <1>1, <2>2, NothingIsNoSlot DEF WindowHeld
    <3> QED BY <1>2, <2>2, <3>1, <3>2
  <2>3. CASE t \in Held /\ \A q \in Phys : window[q] # t
    <3>1. Visible[t] = store[Abs(t[1], t[2])]
      BY <1>1, <2>3, VisibleIs
    <3>2. Visible'[t] = store'[Abs(t[1], t[2])']
      BY <1>1, <2>3, VisibleNext
    <3> QED BY <1>1, <2>3, <3>1, <3>2
  <2> QED BY <2>1, <2>2, <2>3
<1>4. Visible' = [t \in Slot |-> IF t = window[p] THEN c ELSE Visible[t]]
  BY <1>3, VisibleFun
<1> QED BY <1>1, <1>4 DEF Promise!Write, Promise!Slot, Slot

\* Every step of a tidy guest is a step of the memory of pages, or none.
LEMMA StepPromised ==
  ASSUME GInv, GInv', [TidyNext]_gvars
  PROVE  [Promise!Next]_<<pages, Visible, window, frame>>
<1> DEFINE Kept == [Promise!Next]_<<pages, Visible, window, frame>>
<1>1. ASSUME Quiet PROVE Kept
  <2>1. Visible' = Visible
    BY <1>1 DEF Quiet, Visible, Held, Abs, Below
  <2> QED BY <1>1, <2>1 DEF Quiet
<1>2. ASSUME NEW h \in Handle, NEW n \in 1 .. Total, Took(h, n) PROVE Kept
  <2>1. Promise!Allocate(h, (n - 1) + 1)
    BY <1>2, TookSeen
  <2>2. n - 1 \in Page
    BY EMSAssumption DEF Page
  <2> QED BY <2>1, <2>2 DEF Promise!Next
<1>3. ASSUME NEW p \in Phys, NEW s \in Held, Loaded(p, s) PROVE Kept
  <2>1. Promise!Map(p, s)
    BY <1>3, LoadedSeen
  <2>2. s \in Promise!Slot
    BY HeldIsSlots DEF Promise!Slot
  <2> QED BY <2>1, <2>2 DEF Promise!Next
<1>4. ASSUME NEW p \in Phys, Emptied(p) PROVE Kept
  BY <1>4, EmptiedSeen DEF Promise!Next
<1>5. ASSUME NEW h \in Handle, Freed(h) PROVE Kept
  BY <1>5, FreedSeen DEF Promise!Next
<1>6. ASSUME NEW p \in Phys, NEW c \in Contents, Wrote(p, c) PROVE Kept
  BY <1>6, WroteSeen DEF Promise!Next
<1>7. \/ Quiet
      \/ \E h \in Handle, n \in 1 .. Total : Took(h, n)
      \/ \E p \in Phys, s \in Held : Loaded(p, s)
      \/ \E p \in Phys : Emptied(p)
      \/ \E h \in Handle : Freed(h)
      \/ \E p \in Phys, c \in Contents : Wrote(p, c)
  BY TidyEffects
<1> HIDE DEF Kept
<1>8. Kept
  BY <1>1, <1>2, <1>3, <1>4, <1>5, <1>6, <1>7
<1> QED BY <1>8 DEF Kept

\* Before the first call no handle owns a page and the window is empty.
LEMMA InitPromised == GuestInit => Promise!Init
<1> SUFFICES ASSUME GuestInit PROVE Promise!Init
  OBVIOUS
<1>1. /\ window = [p \in Phys |-> Nothing] /\ frame = [p \in Phys |-> Blank]
      /\ pages = [h \in Handle |-> 0] /\ used = [h \in Handle |-> FALSE]
  BY DEF GuestInit, Init
<1>2. Held = {}
  BY <1>1 DEF Held
<1>3. Visible = [t \in Slot |-> Blank]
  BY <1>2 DEF Visible
<1> QED BY <1>1, <1>3 DEF Promise!Init, Promise!Slot, Promise!Nothing, Slot, Nothing

\* To a guest that frees in reverse order and maps a page once at a time the
\* driver is a memory of pages, however many pages, handles and physical pages
\* there are: each reads back what was last written to it.
THEOREM PagesAreKept == TidySpec => KeepsPages
<1>1. GInv /\ GInv' /\ [TidyNext]_gvars => [Promise!Next]_<<pages, Visible, window, frame>>
  BY StepPromised
<1> QED BY <1>1, GuestInvAlways, InitPromised, PTL
    DEF TidySpec, KeepsPages, Promise!Spec, Promise!vars
=============================================================================
