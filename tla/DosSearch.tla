------------------------------ MODULE DosSearch ------------------------------
(***************************************************************************)
(* The directory searches of INT 21h: 1Ah sets the transfer area, 4Eh      *)
(* starts a search and 4Fh continues it (find_first, find_next and         *)
(* dta_store in src/recomp/runtime16.c).                                   *)
(*                                                                         *)
(* The host keeps a handle in one of a few slots; the guest's transfer     *)
(* area keeps the slot's number, in its first byte.  DOS has no call that  *)
(* ends a search, so a slot is given back only when a search runs out.     *)
(* Names, attributes and sizes are left out: what is asked is which search *)
(* an answer comes from.                                                   *)
(***************************************************************************)
EXTENDS Naturals

CONSTANTS
  MaxFind,  \* MAXFIND, 8
  Area,     \* transfer areas the guest uses
  None      \* not an area

ASSUME SearchAssumption == MaxFind \in Nat \ {0} /\ None \notin Area

VARIABLES
  open,       \* slots with a host handle: g_find
  area,       \* g_dta_seg, g_dta_off
  mark,       \* the first byte of each area, MaxFind for any larger value
  going,      \* ghost: areas in the middle of a search
  owner,      \* ghost: the area whose search a slot holds
  abandoned,  \* ghost: open slots whose search the guest gave up
  stray       \* ghost: a search was continued from an area that had none

searchVars == <<open, area, mark, going, owner, abandoned, stray>>

FindSlot == 0 .. MaxFind - 1

FreeSlots == FindSlot \ open

\* find_first takes the first.
Lowest(s) == CHOOSE i \in s : \A j \in s : i <= j

\* The slots as they are owned once the guest no longer follows the search
\* of an area, and those no one follows any more.
Dropped(d) == [i \in FindSlot |-> IF owner[i] = d THEN None ELSE owner[i]]
GivenUp(d) == abandoned \cup {i \in FindSlot : owner[i] = d}

SearchInit ==
  /\ open = {} /\ area \in Area
  /\ mark = [d \in Area |-> 0]
  /\ going = {} /\ owner = [i \in FindSlot |-> None]
  /\ abandoned = {} /\ stray = FALSE

\* INT 21h, 1Ah.
SetArea(d) ==
  /\ area' = d
  /\ UNCHANGED <<open, mark, going, owner, abandoned, stray>>

\* Mutant: the slot is the area's old one, in use or not.
FindFirstSame ==
  LET s == mark[area] % MaxFind IN
    /\ open' = open \cup {s}
    /\ mark' = [mark EXCEPT ![area] = s]
    /\ owner' = [Dropped(area) EXCEPT ![s] = area]
    /\ going' = going \cup {area} /\ abandoned' = GivenUp(area) \ {s}
    /\ UNCHANGED <<area, stray>>

\* A match: the handle goes into the first free slot.
FindFirst ==
  /\ FreeSlots # {}
  /\ LET s == Lowest(FreeSlots) IN
       /\ open' = open \cup {s}
       /\ mark' = [mark EXCEPT ![area] = s]
       /\ owner' = [Dropped(area) EXCEPT ![s] = area]
  /\ going' = going \cup {area} /\ abandoned' = GivenUp(area)
  /\ UNCHANGED <<area, stray>>

\* No match, or no slot: the area is left as it was.
FindFirstFails ==
  /\ going' = going \ {area}
  /\ owner' = Dropped(area) /\ abandoned' = GivenUp(area)
  /\ UNCHANGED <<open, area, mark, stray>>

\* Another match; dta_store writes the same slot number again.
FindNext ==
  /\ mark[area] \in open
  /\ stray' = (stray \/ area \notin going)
  /\ UNCHANGED <<open, area, mark, going, owner, abandoned>>

\* The search runs out: its slot is free again.
FindNextEnds ==
  /\ mark[area] \in open
  /\ open' = open \ {mark[area]}
  /\ going' = going \ {area}
  /\ owner' = [owner EXCEPT ![mark[area]] = None]
  /\ abandoned' = abandoned \ {mark[area]}
  /\ stray' = (stray \/ area \notin going)
  /\ UNCHANGED <<area, mark>>

\* Refused: no such slot, or no search in it.
FindNextRefused ==
  /\ mark[area] \notin open
  /\ UNCHANGED searchVars

\* The area is the guest's memory, to use for something else.
Reuse(d, m) ==
  /\ mark' = [mark EXCEPT ![d] = m]
  /\ going' = going \ {d}
  /\ owner' = Dropped(d) /\ abandoned' = GivenUp(d)
  /\ UNCHANGED <<open, area, stray>>

SearchNext ==
  \/ \E d \in Area : SetArea(d)
  \/ FindFirst \/ FindFirstFails
  \/ FindNext \/ FindNextEnds \/ FindNextRefused
  \/ \E d \in Area, m \in 0 .. MaxFind : Reuse(d, m)

SearchSpec == SearchInit /\ [][SearchNext]_searchVars

-----------------------------------------------------------------------------
SearchTypeOK ==
  /\ open \subseteq FindSlot /\ area \in Area
  /\ mark \in [Area -> 0 .. MaxFind]
  /\ going \subseteq Area /\ owner \in [FindSlot -> Area \cup {None}]
  /\ abandoned \subseteq FindSlot /\ stray \in BOOLEAN

\* The search an area is in the middle of is in the slot its first byte
\* names, and nothing else is: searches started from several areas, in any
\* order, do not continue each other, and a slot is in use only for a search
\* that goes on or that the guest gave up.  Once the guest has continued a
\* search from an area that had none, all bets are off: find_next trusts the
\* byte.
SearchKept ==
  ~stray =>
    /\ \A d \in going : mark[d] \in open /\ owner[mark[d]] = d
    /\ open = abandoned \cup {mark[d] : d \in going}
    /\ \A i \in abandoned : owner[i] = None
=============================================================================
