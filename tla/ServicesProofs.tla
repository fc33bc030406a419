--------------------------- MODULE ServicesProofs ---------------------------
(***************************************************************************)
(* Proofs about the services MCServices checks on small instances.         *)
(***************************************************************************)
EXTENDS MCServices, RingQueueProofs, FiniteSetTheorems, SequenceTheorems,
        WellFoundedInduction, TLAPS

-----------------------------------------------------------------------------
(* Memory: DosMemory.                                                      *)

MemoryInv == MemoryTypeOK /\ BlocksDisjoint

\* What 48h compares a request with is the true distance to the end.
LEMMA AvailIsRest ==
  ASSUME heapNext \in HeapLo .. HeapHi
  PROVE  Avail = HeapHi - heapNext
<1>1. HeapHi - heapNext \in 0 .. Width16 - 1
  BY MemoryAssumption
<1>2. QED
  BY <1>1, MemoryAssumption DEF Avail

\* 48h gives a block that lies behind all others.
LEMMA AllocateKeeps ==
  ASSUME MemoryInv, NEW n \in Sizes, Allocate(n)
  PROVE  MemoryInv'
<1> USE DEF MemoryInv, MemoryTypeOK, Block
<1>1. n \in 0 .. Width16 - 1 /\ n <= HeapHi - heapNext
  BY AvailIsRest, MemoryAssumption DEF Allocate
<1>2. heapNext' = heapNext + n
  <2>1. heapNext + n \in 0 .. Width16 - 1
    BY <1>1, MemoryAssumption
  <2>2. QED
    BY <2>1, MemoryAssumption DEF Allocate
<1>3. MemoryTypeOK'
  BY <1>1, <1>2, MemoryAssumption DEF Allocate
<1>4. BlocksDisjoint'
  BY <1>1, <1>2, MemoryAssumption DEF Allocate, BlocksDisjoint, Disjoint
<1>5. QED
  BY <1>3, <1>4

\* 4Ah keeps blocks apart when it shrinks one, and says so when it does not.
LEMMA ResizeKeeps ==
  ASSUME MemoryInv, NEW b \in blocks, NEW n \in Sizes, Resize(b, n)
  PROVE  MemoryInv'
<1> USE DEF MemoryInv, MemoryTypeOK, Block
<1>1. n \in 0 .. Width16 - 1
  BY MemoryAssumption
<1>2. MemoryTypeOK'
  BY <1>1, MemoryAssumption DEF Resize
<1>3. CASE n <= b.len
  <2> DEFINE c == [seg |-> b.seg, len |-> n]
  <2>1. blocks' = (blocks \ {b}) \cup {c}
    BY DEF Resize
  <2>2. ASSUME ~grown
        PROVE  /\ \A d \in blocks : d.seg >= HeapLo /\ d.seg + d.len <= heapNext
               /\ \A d, e \in blocks : d = e \/ Disjoint(d, e)
    BY <2>2 DEF BlocksDisjoint
  <2>3. ASSUME ~grown
        PROVE  \A d \in blocks \ {b} : Disjoint(c, d) /\ Disjoint(d, c)
    BY <1>1, <1>3, <2>2, <2>3, MemoryAssumption DEF Disjoint
  <2>4. BlocksDisjoint'
    BY <1>1, <1>3, <2>1, <2>2, <2>3, MemoryAssumption
    DEF Resize, BlocksDisjoint, Disjoint
  <2>5. QED
    BY <1>2, <2>4
<1>4. CASE ~(n <= b.len)
  <2>1. n > b.len
    BY <1>1, <1>4, MemoryAssumption
  <2>2. grown'
    BY <2>1 DEF Resize
  <2>3. QED
    BY <1>2, <2>2 DEF BlocksDisjoint
<1>5. QED
  BY <1>3, <1>4

\* At first no block is handed out.
LEMMA MemoryStarts == MemoryInit => MemoryInv
<1> SUFFICES ASSUME MemoryInit PROVE MemoryInv
  OBVIOUS
<1>1. MemoryTypeOK
  <2>1. heapNext \in HeapLo .. HeapHi /\ largest \in 0 .. Width16 - 1
    BY MemoryAssumption DEF MemoryInit
  <2>2. blocks \subseteq Block /\ grown \in BOOLEAN
    BY DEF MemoryInit
  <2>3. QED
    BY <2>1, <2>2 DEF MemoryTypeOK
<1>2. BlocksDisjoint
  BY DEF MemoryInit, BlocksDisjoint
<1>3. QED
  BY <1>1, <1>2 DEF MemoryInv

\* Every call keeps the blocks apart.
LEMMA MemoryKeeps == MemoryInv /\ [MemoryNext]_memoryVars => MemoryInv'
<1> SUFFICES ASSUME MemoryInv, [MemoryNext]_memoryVars PROVE MemoryInv'
  OBVIOUS
<1>1. CASE \E n \in Sizes : Allocate(n)
  BY <1>1, AllocateKeeps
<1>2. CASE \E n \in Sizes : AllocateRefused(n)
  <2>1. HeapHi - heapNext \in 0 .. Width16 - 1
    BY MemoryAssumption DEF MemoryInv, MemoryTypeOK
  <2>2. largest' = HeapHi - heapNext
    BY <1>2, AvailIsRest DEF MemoryInv, MemoryTypeOK, AllocateRefused
  <2>3. QED
    BY <1>2, <2>1, <2>2
    DEF MemoryInv, MemoryTypeOK, BlocksDisjoint, Disjoint, AllocateRefused
<1>3. CASE \E b \in blocks : FreeBlock(b)
  BY <1>3
  DEF MemoryInv, MemoryTypeOK, BlocksDisjoint, Disjoint, FreeBlock
<1>4. CASE \E b \in blocks, n \in Sizes : Resize(b, n)
  BY <1>4, ResizeKeeps
<1>5. CASE UNCHANGED memoryVars
  BY <1>5
  DEF MemoryInv, MemoryTypeOK, BlocksDisjoint, Disjoint, memoryVars
<1>6. QED
  BY <1>1, <1>2, <1>3, <1>4, <1>5 DEF MemoryNext

\* Blocks of memory given out by 48h do not overlap and stay in the heap, for
\* any heap, any requests and any order of calls, until a resize is granted
\* past the end of its block.
THEOREM MemoryIsDisjoint == MemorySpec => []BlocksDisjoint
<1>1. MemoryInit => MemoryInv
  BY MemoryStarts
<1>2. MemoryInv /\ [MemoryNext]_memoryVars => MemoryInv'
  BY MemoryKeeps
<1>3. MemoryInv => BlocksDisjoint
  BY DEF MemoryInv
<1>4. QED
  BY <1>1, <1>2, <1>3, PTL DEF MemorySpec

-----------------------------------------------------------------------------
(* Directory searches: DosSearch.                                          *)

\* A slot is owned by the search its owner is in the middle of.
OwnersGo ==
  ~stray => \A i \in FindSlot :
              owner[i] # None => owner[i] \in going /\ mark[owner[i]] = i

SearchInv == SearchTypeOK /\ SearchKept /\ OwnersGo

\* The first free slot is a free slot.
LEMMA LowestIsIn ==
  ASSUME NEW s, s \subseteq FindSlot, s # {}
  PROVE  Lowest(s) \in s
<1>1. s \subseteq Nat
  BY SearchAssumption DEF FindSlot
<1>2. PICK i \in s : \A j \in s : ~ (<<j, i>> \in OpToRel(<, Nat))
  <2> HIDE DEF FindSlot
  <2> QED BY <1>1, NatLessThanWellFounded, WFMin
<1>3. \A j \in s : ~ (j < i)
  BY <1>1, <1>2 DEF OpToRel
<1>4. \A j \in s : i <= j
  BY <1>1, <1>3
<1>5. QED
  BY <1>4 DEF Lowest

\* A search that starts gets a slot of its own, and the search its area had
\* before is given up.
LEMMA FindFirstKeeps ==
  ASSUME SearchInv, FindFirst
  PROVE  SearchInv'
<1> DEFINE s == Lowest(FreeSlots)
<1>1. s \in FindSlot /\ s \notin open /\ s \in 0 .. MaxFind
  BY LowestIsIn, SearchAssumption DEF FindFirst, FreeSlots, FindSlot
<1>2. /\ open' = open \cup {s} /\ mark' = [mark EXCEPT ![area] = s]
      /\ owner' = [Dropped(area) EXCEPT ![s] = area]
      /\ going' = going \cup {area} /\ abandoned' = GivenUp(area)
      /\ area' = area /\ stray' = stray
  BY DEF FindFirst
<1> HIDE DEF s
<1> USE DEF SearchInv, SearchTypeOK
<1>3. SearchTypeOK'
  <2>1. mark' \in [Area -> 0 .. MaxFind]
    BY <1>1, <1>2
  <2>2. owner' \in [FindSlot -> Area \cup {None}]
    BY <1>1, <1>2 DEF Dropped
  <2>3. QED
    BY <1>1, <1>2, <2>1, <2>2 DEF GivenUp
<1>4. SearchKept' /\ OwnersGo'
  <2> SUFFICES ASSUME ~stray PROVE SearchKept' /\ OwnersGo'
    BY <1>2 DEF SearchKept, OwnersGo
  <2>1. \A d \in going \ {area} : mark[d] # s /\ mark[d] \in FindSlot
    BY <1>1 DEF SearchKept
  <2>2. /\ mark'[area] = s /\ \A d \in Area \ {area} : mark'[d] = mark[d]
        /\ owner'[s] = area
        /\ \A i \in FindSlot \ {s} :
             owner'[i] = IF owner[i] = area THEN None ELSE owner[i]
    BY <1>1, <1>2 DEF Dropped
  <2>3. \A d \in going' : mark'[d] \in open' /\ owner'[mark'[d]] = d
    BY <1>1, <1>2, <2>1, <2>2 DEF SearchKept
  <2>4. \A i \in FindSlot : owner[i] # None => i \in open
    BY DEF SearchKept, OwnersGo
  <2>5. open' = abandoned' \cup {mark'[d] : d \in going'}
    <3>1. \A i \in open \ {s} : i \in abandoned' \cup {mark'[d] : d \in going'}
      BY <1>1, <1>2, <2>1, <2>2 DEF SearchKept, GivenUp
    <3>2. abandoned' \subseteq open'
      BY <1>2, <2>4, SearchAssumption DEF SearchKept, GivenUp
    <3>3. area \in going' /\ mark'[area] = s
      BY <1>2, <2>2
    <3>4. s \in {mark'[d] : d \in going'}
      BY <3>3
    <3>5. {mark'[d] : d \in going'} \subseteq open'
      BY <2>3
    <3>6. open' \subseteq abandoned' \cup {mark'[d] : d \in going'}
      BY <1>2, <3>1, <3>4
    <3>7. QED
      BY <3>2, <3>5, <3>6
  <2>6. \A i \in abandoned' : owner'[i] = None
    BY <1>1, <1>2, <2>2, <2>4, SearchAssumption DEF SearchKept, GivenUp
  <2>7. \A i \in FindSlot :
          owner'[i] # None => owner'[i] \in going' /\ mark'[owner'[i]] = i
    BY <1>1, <1>2, <2>2, SearchAssumption DEF OwnersGo
  <2>8. QED
    BY <2>3, <2>5, <2>6, <2>7 DEF SearchKept, OwnersGo
<1>5. QED
  BY <1>3, <1>4

\* An area whose search is given up leaves its slot in use, with no owner.
LEMMA DropKeeps ==
  ASSUME SearchInv, NEW d \in Area,
         owner' = Dropped(d), abandoned' = GivenUp(d), going' = going \ {d},
         open' = open, stray' = stray, area' \in Area,
         mark' \in [Area -> 0 .. MaxFind],
         \A e \in Area \ {d} : mark'[e] = mark[e]
  PROVE  SearchInv'
<1> USE DEF SearchInv, SearchTypeOK
<1>1. SearchTypeOK'
  BY DEF Dropped, GivenUp
<1>2. SearchKept' /\ OwnersGo'
  <2> SUFFICES ASSUME ~stray PROVE SearchKept' /\ OwnersGo'
    BY DEF SearchKept, OwnersGo
  <2>1. \A i \in FindSlot :
          owner'[i] = IF owner[i] = d THEN None ELSE owner[i]
    BY DEF Dropped
  <2>2. \A e \in going' : mark'[e] \in open' /\ owner'[mark'[e]] = e
    BY <2>1 DEF SearchKept
  <2>3. \A i \in FindSlot : owner[i] # None => i \in open
    BY DEF SearchKept, OwnersGo
  <2>4. open' = abandoned' \cup {mark'[e] : e \in going'}
    <3>1. \A i \in open : i \in abandoned' \cup {mark'[e] : e \in going'}
      BY <2>1 DEF SearchKept, GivenUp
    <3>2. abandoned' \subseteq open
      BY <2>3, SearchAssumption DEF SearchKept, GivenUp
    <3>3. QED
      BY <2>2, <3>1, <3>2
  <2>5. \A i \in abandoned' : owner'[i] = None
    BY <2>1 DEF SearchKept, GivenUp
  <2>6. \A i \in FindSlot :
          owner'[i] # None => owner'[i] \in going' /\ mark'[owner'[i]] = i
    BY <2>1 DEF OwnersGo
  <2>7. QED
    BY <2>2, <2>4, <2>5, <2>6 DEF SearchKept, OwnersGo
<1>3. QED
  BY <1>1, <1>2

\* A search that runs out gives its slot back and touches no other.
LEMMA EndKeeps ==
  ASSUME SearchInv, FindNextEnds
  PROVE  SearchInv'
<1> USE DEF SearchInv, SearchTypeOK, FindNextEnds
<1>1. SearchTypeOK'
  OBVIOUS
<1>2. CASE area \notin going \/ stray
  <2>1. stray'
    BY <1>2
  <2>2. QED
    BY <1>1, <2>1 DEF SearchKept, OwnersGo
<1>3. CASE area \in going /\ ~stray
  <2> DEFINE s == mark[area]
  <2>1. s \in FindSlot /\ owner[s] = area
    BY <1>3 DEF SearchKept
  <2>2. owner'[s] = None /\ \A i \in FindSlot \ {s} : owner'[i] = owner[i]
    BY <2>1
  <2>3. \A d \in going \ {area} : mark[d] # s /\ mark[d] \in open
    BY <1>3, <2>1 DEF SearchKept
  <2>4. s \notin abandoned
    BY <1>3, <2>1, SearchAssumption DEF SearchKept
  <2> HIDE DEF s
  <2>5. \A d \in going' : mark'[d] \in open' /\ owner'[mark'[d]] = d
    BY <1>3, <2>2, <2>3 DEF SearchKept, s
  <2>6. open' = abandoned' \cup {mark'[d] : d \in going'}
    BY <1>3, <2>3, <2>4 DEF SearchKept, s
  <2>7. \A i \in abandoned' : owner'[i] = None
    BY <1>3, <2>2 DEF SearchKept, s
  <2>8. \A i \in FindSlot :
          owner'[i] # None => owner'[i] \in going' /\ mark'[owner'[i]] = i
    BY <1>3, <2>1, <2>2 DEF OwnersGo, s
  <2>9. QED
    BY <1>1, <2>5, <2>6, <2>7, <2>8 DEF SearchKept, OwnersGo
<1>4. QED
  BY <1>2, <1>3

\* At first no search is under way.
LEMMA SearchStarts == SearchInit => SearchInv
<1> SUFFICES ASSUME SearchInit PROVE SearchInv
  OBVIOUS
<1>1. 0 \in 0 .. MaxFind
  BY SearchAssumption
<1>2. SearchTypeOK
  BY <1>1 DEF SearchInit, SearchTypeOK
<1>3. SearchKept /\ OwnersGo
  BY DEF SearchInit, SearchKept, OwnersGo
<1>4. QED
  BY <1>2, <1>3 DEF SearchInv

\* Every call keeps the searches apart.
LEMMA SearchKeeps == SearchInv /\ [SearchNext]_searchVars => SearchInv'
<1> SUFFICES ASSUME SearchInv, [SearchNext]_searchVars PROVE SearchInv'
  OBVIOUS
<1> USE DEF SearchInv, SearchTypeOK
<1>1. CASE \E d \in Area : SetArea(d)
  BY <1>1 DEF SearchKept, OwnersGo, SetArea
<1>2. CASE FindFirst
  BY <1>2, FindFirstKeeps
<1>3. CASE FindFirstFails
  BY <1>3, DropKeeps DEF FindFirstFails
<1>4. CASE FindNext
  <2>1. stray' \in BOOLEAN /\ (stray => stray')
    BY <1>4 DEF FindNext
  <2>2. QED
    BY <1>4, <2>1 DEF SearchKept, OwnersGo, FindNext
<1>5. CASE FindNextEnds
  BY <1>5, EndKeeps
<1>6. CASE FindNextRefused \/ UNCHANGED searchVars
  BY <1>6 DEF FindNextRefused, searchVars, SearchKept, OwnersGo
<1>7. CASE \E d \in Area, m \in 0 .. MaxFind : Reuse(d, m)
  <2>1. PICK d \in Area, m \in 0 .. MaxFind : Reuse(d, m)
    BY <1>7
  <2>2. /\ mark' \in [Area -> 0 .. MaxFind]
        /\ \A e \in Area \ {d} : mark'[e] = mark[e]
    BY <2>1 DEF Reuse
  <2>3. QED
    BY <2>1, <2>2, DropKeeps DEF Reuse
<1>8. QED
  BY <1>1, <1>2, <1>3, <1>4, <1>5, <1>6, <1>7 DEF SearchNext

\* Searches from different areas do not continue each other and only slots
\* of searches that go on or were given up are in use, for any number of
\* slots and areas, until the guest continues a search from an area that has
\* none.
THEOREM SearchesAreKept == SearchSpec => []SearchKept
<1>1. SearchInit => SearchInv
  BY SearchStarts
<1>2. SearchInv /\ [SearchNext]_searchVars => SearchInv'
  BY SearchKeeps
<1>3. SearchInv => SearchKept
  BY DEF SearchInv
<1>4. QED
  BY <1>1, <1>2, <1>3, PTL DEF SearchSpec

-----------------------------------------------------------------------------
(* The mouse's counts: Mouse.                                              *)

CountsInv ==
  /\ press \in [Button -> Int] /\ rel \in [Button -> Int]
  /\ told \in [Button -> Int]
  /\ CountsAgree

\* Whatever a call sees, an edge it finds is in the counts once.
LEMMA EdgesCount ==
  ASSUME CountsInv, NEW v, Edges(v)
  PROVE  /\ Pressed(v) \in [Button -> Int] /\ Released(v) \in [Button -> Int]
         /\ \A b \in Button :
              told[b] + Pressed(v)[b] - Released(v)[b]
                = IF b \in prev' THEN 1 ELSE 0
<1>1. prev' = v.buttons
  BY DEF Edges
<1>2. Pressed(v) \in [Button -> Int] /\ Released(v) \in [Button -> Int]
  BY DEF CountsInv, Pressed, Released
<1>3. ASSUME NEW b \in Button
      PROVE  told[b] + Pressed(v)[b] - Released(v)[b]
               = IF b \in prev' THEN 1 ELSE 0
  <2>1. told[b] + press[b] - rel[b] = IF b \in prev THEN 1 ELSE 0
    BY DEF CountsInv, CountsAgree
  <2>2. Pressed(v)[b] = press[b] + IF b \in v.buttons \ prev THEN 1 ELSE 0
    BY DEF Pressed
  <2>3. Released(v)[b] = rel[b] + IF b \in prev \ v.buttons THEN 1 ELSE 0
    BY DEF Released
  <2>4. press[b] \in Int /\ rel[b] \in Int /\ told[b] \in Int
    BY DEF CountsInv
  <2>5. QED
    BY <1>1, <2>1, <2>2, <2>3, <2>4
<1>4. QED
  BY <1>2, <1>3

\* A call that only takes note of the edges.
LEMMA NotedKeeps ==
  ASSUME CountsInv, NEW v, Edges(v),
         press' = Pressed(v), rel' = Released(v), told' = told
  PROVE  CountsInv'
BY EdgesCount DEF CountsInv, CountsAgree

\* Function 5 tells of what it clears.
LEMMA AskPressesKeeps ==
  ASSUME CountsInv, NEW v, NEW b \in Button, AskPresses(v, b)
  PROVE  CountsInv'
<1>1. /\ Pressed(v) \in [Button -> Int] /\ Released(v) \in [Button -> Int]
      /\ \A c \in Button :
           told[c] + Pressed(v)[c] - Released(v)[c]
             = IF c \in prev' THEN 1 ELSE 0
  BY EdgesCount DEF AskPresses
<1>2. /\ press' = [Pressed(v) EXCEPT ![b] = 0] /\ rel' = Released(v)
      /\ told' = [told EXCEPT ![b] = @ + Pressed(v)[b]]
  BY DEF AskPresses
<1>3. /\ press' \in [Button -> Int] /\ rel' \in [Button -> Int]
      /\ told' \in [Button -> Int]
  BY <1>1, <1>2 DEF CountsInv
<1>4. ASSUME NEW c \in Button
      PROVE  told'[c] + press'[c] - rel'[c] = IF c \in prev' THEN 1 ELSE 0
  <2>1. told[c] \in Int /\ Pressed(v)[c] \in Int /\ Released(v)[c] \in Int
    BY <1>1 DEF CountsInv
  <2>2. told'[c] + press'[c] = told[c] + Pressed(v)[c]
    BY <1>1, <1>2, <2>1 DEF CountsInv
  <2>3. QED
    BY <1>1, <1>2, <2>1, <2>2
<1>5. QED
  BY <1>3, <1>4 DEF CountsInv, CountsAgree

\* Function 6 too.
LEMMA AskReleasesKeeps ==
  ASSUME CountsInv, NEW v, NEW b \in Button, AskReleases(v, b)
  PROVE  CountsInv'
<1>1. /\ Pressed(v) \in [Button -> Int] /\ Released(v) \in [Button -> Int]
      /\ \A c \in Button :
           told[c] + Pressed(v)[c] - Released(v)[c]
             = IF c \in prev' THEN 1 ELSE 0
  BY EdgesCount DEF AskReleases
<1>2. /\ press' = Pressed(v) /\ rel' = [Released(v) EXCEPT ![b] = 0]
      /\ told' = [told EXCEPT ![b] = @ - Released(v)[b]]
  BY DEF AskReleases
<1>3. /\ press' \in [Button -> Int] /\ rel' \in [Button -> Int]
      /\ told' \in [Button -> Int]
  BY <1>1, <1>2 DEF CountsInv
<1>4. ASSUME NEW c \in Button
      PROVE  told'[c] + press'[c] - rel'[c] = IF c \in prev' THEN 1 ELSE 0
  <2>1. told[c] \in Int /\ Pressed(v)[c] \in Int /\ Released(v)[c] \in Int
    BY <1>1 DEF CountsInv
  <2>2. told'[c] - rel'[c] = told[c] - Released(v)[c]
    BY <1>1, <1>2, <2>1 DEF CountsInv
  <2>3. press'[c] \in Int /\ told'[c] \in Int /\ rel'[c] \in Int
    BY <1>3
  <2>4. QED
    BY <1>1, <1>2, <2>1, <2>2, <2>3
<1>5. QED
  BY <1>3, <1>4 DEF CountsInv, CountsAgree

\* The presses the guest was told of, less the releases, with those it has
\* not asked for, are the buttons as the last call saw them: for any number
\* of buttons and messages and any ranges and script.
THEOREM CountsAreRight == MouseSpec => []CountsAgree
<1>1. MouseInit => CountsInv
  <2> SUFFICES ASSUME MouseInit PROVE CountsInv
    OBVIOUS
  <2>1. /\ press = [b \in Button |-> 0] /\ rel = [b \in Button |-> 0]
        /\ told = [b \in Button |-> 0] /\ prev = {}
    BY DEF MouseInit
  <2>2. QED
    BY <2>1 DEF CountsInv, CountsAgree
<1>2. CountsInv /\ [MouseNext]_mouseVars => CountsInv'
  <2> SUFFICES ASSUME CountsInv, [MouseNext]_mouseVars PROVE CountsInv'
    OBVIOUS
  <2>1. ASSUME UNCHANGED driver PROVE CountsInv'
    BY <2>1 DEF driver, CountsInv, CountsAgree
  <2>2. CASE \E b \in Button : PressButton(b) \/ ReleaseButton(b)
    BY <2>1, <2>2 DEF PressButton, ReleaseButton
  <2>3. CASE \E x \in Places : MovePointer(x)
    BY <2>1, <2>3 DEF MovePointer
  <2>4. CASE LoseCapture \/ StartPump \/ PumpOne \/ StopPump
    BY <2>1, <2>4 DEF LoseCapture, StartPump, PumpOne, StopPump
  <2>5. CASE UNCHANGED mouseVars
    BY <2>1, <2>5 DEF mouseVars
  <2>6. ASSUME NEW v \in Seen, AskOther(v) PROVE CountsInv'
    BY <2>6, NotedKeeps DEF AskOther
  <2>7. ASSUME NEW v \in Seen, NEW r \in Ranges \cup {Whole}, SetRange(v, r)
        PROVE  CountsInv'
    BY <2>7, NotedKeeps DEF SetRange
  <2>8. ASSUME NEW v \in Seen, AskMotion(v) PROVE CountsInv'
    BY <2>8, NotedKeeps DEF AskMotion
  <2>9. ASSUME NEW v \in Seen, NEW b \in Button,
               AskPresses(v, b) \/ AskReleases(v, b)
        PROVE  CountsInv'
    BY <2>9, AskPressesKeeps, AskReleasesKeeps
  <2>10. QED
    BY <2>2, <2>3, <2>4, <2>5, <2>6, <2>7, <2>8, <2>9 DEF MouseNext
<1>3. CountsInv => CountsAgree
  BY DEF CountsInv
<1>4. QED
  BY <1>1, <1>2, <1>3, PTL DEF MouseSpec

-----------------------------------------------------------------------------
(* The mouse's types, and what the messages in the queue will do.           *)

\* A coordinate held to the screen is on it.
LEMMA ClampIsOver ==
  ASSUME NEW x \in Int
  PROVE  Clamp(x, 0, Width - 1) \in Over
BY MouseAssumption DEF Clamp, Over

\* What a call sees is a place on the screen and some buttons.
LEMMA SeenIs ==
  ASSUME MouseTypeOK, NEW v \in Seen
  PROVE  v.x \in Over /\ v.buttons \subseteq Button
<1>1. mx \in Over /\ mbtn \subseteq Button
  BY DEF MouseTypeOK
<1>2. ScriptPlaces \subseteq Over /\ Left \in Button
  BY MouseAssumption DEF Over
<1>3. CASE v = [x |-> mx, buttons |-> mbtn]
  BY <1>1, <1>3
<1>4. ASSUME NEW p \in ScriptPlaces, NEW s \in {mbtn, {Left}},
             v = [x |-> p, buttons |-> s]
      PROVE  v.x \in Over /\ v.buttons \subseteq Button
  BY <1>1, <1>2, <1>4
<1>5. QED
  BY <1>3, <1>4 DEF Seen

\* The counts and places a call notes are numbers.
LEMMA NotedTypes ==
  ASSUME MouseTypeOK, NEW v \in Seen
  PROVE  /\ Pressed(v) \in [Button -> Nat] /\ Released(v) \in [Button -> Nat]
         /\ PressedAt(v) \in [Button -> Nat] /\ ReleasedAt(v) \in [Button -> Nat]
         /\ v.buttons \subseteq Button
<1>1. v.x \in Nat /\ v.buttons \subseteq Button
  BY SeenIs DEF Over
<1>2. /\ press \in [Button -> Nat] /\ rel \in [Button -> Nat]
      /\ pressAt \in [Button -> Nat] /\ relAt \in [Button -> Nat]
  BY DEF MouseTypeOK
<1>3. Pressed(v) \in [Button -> Nat] /\ Released(v) \in [Button -> Nat]
  BY <1>2 DEF Pressed, Released
<1>4. PressedAt(v) \in [Button -> Nat] /\ ReleasedAt(v) \in [Button -> Nat]
  BY <1>1, <1>2 DEF PressedAt, ReleasedAt
<1>5. QED
  BY <1>1, <1>3, <1>4

\* The driver's variables and the guest's do not touch the window's.
LEMMA EdgesTypes ==
  ASSUME MouseTypeOK, NEW v \in Seen, Edges(v),
         press' \in [Button -> Nat], rel' \in [Button -> Nat],
         range' \in Int \X Int, lastX' \in Int,
         reply' \in [x : Nat, fresh : BOOLEAN], told' \in [Button -> Int]
  PROVE  MouseTypeOK'
<1>1. /\ pressAt' \in [Button -> Nat] /\ relAt' \in [Button -> Nat]
      /\ prev' \subseteq Button
  BY NotedTypes DEF Edges
<1>2. UNCHANGED <<person, mail, pumping, window, clean>>
  BY DEF Edges
<1>3. QED
  BY <1>1, <1>2 DEF MouseTypeOK, person, window, Message

\* A call keeps the types.
LEMMA AskTypes ==
  ASSUME MouseTypeOK, NEW v \in Seen,
         \/ AskOther(v)
         \/ \E r \in Ranges \cup {Whole} : SetRange(v, r)
         \/ AskMotion(v)
         \/ \E b \in Button : AskPresses(v, b) \/ AskReleases(v, b)
  PROVE  MouseTypeOK' /\ Edges(v)
<1>1. /\ range \in Int \X Int /\ lastX \in Int /\ told \in [Button -> Int]
      /\ NoReply \in [x : Nat, fresh : BOOLEAN]
  BY DEF MouseTypeOK, NoReply
<1>2. /\ Pressed(v) \in [Button -> Nat] /\ Released(v) \in [Button -> Nat]
      /\ PressedAt(v) \in [Button -> Nat] /\ ReleasedAt(v) \in [Button -> Nat]
  BY NotedTypes
<1>3. CASE AskOther(v)
  BY <1>1, <1>2, <1>3, EdgesTypes DEF AskOther
<1>4. ASSUME NEW r \in Ranges \cup {Whole}, SetRange(v, r)
      PROVE  MouseTypeOK' /\ Edges(v)
  <2>1. r \in Int \X Int
    BY MouseAssumption DEF Whole
  <2>2. QED
    BY <1>1, <1>2, <1>4, <2>1, EdgesTypes DEF SetRange
<1>5. CASE AskMotion(v)
  <2>1. Pointer(v) \in Int
    <3>1. v.x \in Int
      BY SeenIs DEF Over
    <3>2. range[1] \in Int /\ range[2] \in Int
      BY <1>1
    <3>3. QED
      BY <3>1, <3>2 DEF Pointer, Clamp
  <2>2. QED
    BY <1>1, <1>2, <1>5, <2>1, EdgesTypes DEF AskMotion
<1>6. ASSUME NEW b \in Button, AskPresses(v, b)
      PROVE  MouseTypeOK' /\ Edges(v)
  <2>1. /\ press' \in [Button -> Nat] /\ rel' \in [Button -> Nat]
        /\ range' = range /\ lastX' = lastX /\ Edges(v)
    BY <1>2, <1>6 DEF AskPresses
  <2>2. told' \in [Button -> Int]
    BY <1>1, <1>2, <1>6 DEF AskPresses
  <2>3. reply' \in [x : Nat, fresh : BOOLEAN]
    BY <1>2, <1>6 DEF AskPresses
  <2>4. QED
    BY <1>1, <2>1, <2>2, <2>3, EdgesTypes
<1>7. ASSUME NEW b \in Button, AskReleases(v, b)
      PROVE  MouseTypeOK' /\ Edges(v)
  <2>1. /\ press' \in [Button -> Nat] /\ rel' \in [Button -> Nat]
        /\ range' = range /\ lastX' = lastX /\ Edges(v)
    BY <1>2, <1>7 DEF AskReleases
  <2>2. told' \in [Button -> Int]
    BY <1>1, <1>2, <1>7 DEF AskReleases
  <2>3. reply' \in [x : Nat, fresh : BOOLEAN]
    BY <1>2, <1>7 DEF AskReleases
  <2>4. QED
    BY <1>1, <2>1, <2>2, <2>3, EdgesTypes
<1>8. QED
  BY <1>3, <1>4, <1>5, <1>6, <1>7

\* The messages from the i-th to the j-th are of the pointer's movement only.
MovesOnly(i, j) == \A k \in 1 .. Len(mail) : i <= k /\ k <= j => mail[k].what = "move"

\* From the i-th message on the next that is of a button is b's release.
ReleaseComing(i, b) ==
  \E j \in i .. Len(mail) :
    mail[j].what = "up" /\ mail[j].button = b /\ MovesOnly(i, j - 1)

\* Or there is none, and b is what is held.
HeldStill(i, b) == hand = {b} /\ MovesOnly(i, Len(mail))

LetGoFrom(i, b) == HeldStill(i, b) \/ ReleaseComing(i, b)

\* While one button at a time was used: a button the window has down is the
\* only one and has the capture; it is held still or its release is the next
\* to be handled.  The same holds of every press on its way.
Explained ==
  /\ \A b \in mbtn : captured /\ mbtn = {b} /\ LetGoFrom(1, b)
  /\ \A i \in 1 .. Len(mail) :
       mail[i].what = "down" => LetGoFrom(i + 1, mail[i].button)

SettleInv == MouseTypeOK /\ (clean => Explained)

\* A message at the end is the newest, and those before it stay.
LEMMA PostAppends ==
  ASSUME MouseTypeOK, NEW m \in Message, mail' = Append(mail, m)
  PROVE  /\ mail' \in Seq(Message) /\ Len(mail') = Len(mail) + 1
         /\ Len(mail) \in Nat
         /\ \A k \in 1 .. Len(mail) : mail'[k] = mail[k]
         /\ mail'[Len(mail) + 1] = m
BY DEF MouseTypeOK

\* Whatever is appended, a release that was on its way still is.
LEMMA ReleaseStays ==
  ASSUME MouseTypeOK, NEW m \in Message, mail' = Append(mail, m),
         NEW i \in Nat \ {0}, NEW b, ReleaseComing(i, b)
  PROVE  ReleaseComing(i, b)'
<1>1. /\ Len(mail') = Len(mail) + 1 /\ Len(mail) \in Nat
      /\ \A k \in 1 .. Len(mail) : mail'[k] = mail[k]
  BY PostAppends
<1>2. PICK j \in i .. Len(mail) :
        mail[j].what = "up" /\ mail[j].button = b /\ MovesOnly(i, j - 1)
  BY DEF ReleaseComing
<1>3. j \in 1 .. Len(mail) /\ j \in i .. Len(mail')
  BY <1>1, <1>2
<1>4. mail'[j] = mail[j]
  BY <1>1, <1>3
<1>5. MovesOnly(i, j - 1)'
  BY <1>1, <1>2, <1>3 DEF MovesOnly
<1>6. QED
  BY <1>2, <1>3, <1>4, <1>5 DEF ReleaseComing

\* A button that was held is, after a movement; its own release is on its
\* way once it is posted.
LEMMA HeldStays ==
  ASSUME MouseTypeOK, NEW m \in Message, mail' = Append(mail, m),
         NEW i \in 1 .. Len(mail) + 1, NEW b, HeldStill(i, b),
         (m.what = "move" /\ hand' = hand) \/ (m.what = "up" /\ m.button = b)
  PROVE  LetGoFrom(i, b)'
<1>1. /\ Len(mail') = Len(mail) + 1 /\ Len(mail) \in Nat
      /\ \A k \in 1 .. Len(mail) : mail'[k] = mail[k]
      /\ mail'[Len(mail) + 1] = m
  BY PostAppends
<1>2. CASE m.what = "move" /\ hand' = hand
  <2>1. MovesOnly(i, Len(mail))'
    BY <1>1, <1>2 DEF HeldStill, MovesOnly
  <2>2. QED
    BY <1>2, <2>1 DEF HeldStill, LetGoFrom
<1>3. CASE m.what = "up" /\ m.button = b
  <2>1. Len(mail) + 1 \in i .. Len(mail')
    BY <1>1
  <2>2. \A k \in 1 .. Len(mail') :
          i <= k /\ k <= (Len(mail) + 1) - 1 => mail'[k].what = "move"
    BY <1>1 DEF HeldStill, MovesOnly
  <2>3. QED
    BY <1>1, <1>3, <2>1, <2>2 DEF ReleaseComing, MovesOnly, LetGoFrom
<1>4. QED
  BY <1>2, <1>3

\* Posting a movement or the release of what is held explains what was
\* explained.
LEMMA PostExplains ==
  ASSUME MouseTypeOK, Explained, NEW m \in Message, mail' = Append(mail, m),
         UNCHANGED <<captured, mbtn>>,
         \/ m.what = "move" /\ hand' = hand
         \/ m.what = "up" /\ m.button \in hand
  PROVE  Explained'
<1>1. /\ Len(mail') = Len(mail) + 1 /\ Len(mail) \in Nat
      /\ \A k \in 1 .. Len(mail) : mail'[k] = mail[k]
      /\ mail'[Len(mail) + 1] = m
  BY PostAppends
<1>2. ASSUME NEW i \in 1 .. Len(mail) + 1, NEW b, LetGoFrom(i, b)
      PROVE  LetGoFrom(i, b)'
  <2>1. CASE ReleaseComing(i, b)
    BY <1>2, <2>1, ReleaseStays DEF LetGoFrom
  <2>2. CASE HeldStill(i, b)
    <3>1. (m.what = "move" /\ hand' = hand) \/ (m.what = "up" /\ m.button = b)
      BY <2>2 DEF HeldStill
    <3>2. QED
      BY <1>2, <2>2, <3>1, HeldStays
  <2>3. QED
    BY <1>2, <2>1, <2>2 DEF LetGoFrom
<1>3. ASSUME NEW b \in mbtn' PROVE captured' /\ mbtn' = {b} /\ LetGoFrom(1, b)'
  BY <1>1, <1>2, <1>3 DEF Explained
<1>4. ASSUME NEW i \in 1 .. Len(mail'), mail'[i].what = "down"
      PROVE  LetGoFrom(i + 1, mail[i].button)'
  <2>1. i # Len(mail) + 1
    BY <1>1, <1>4
  <2>2. i \in 1 .. Len(mail) /\ i + 1 \in 1 .. Len(mail) + 1
    BY <1>1, <2>1
  <2>3. mail'[i] = mail[i]
    BY <1>1, <2>2
  <2>4. LetGoFrom(i + 1, mail[i].button)
    BY <1>4, <2>2, <2>3 DEF Explained
  <2>5. QED
    BY <1>2, <2>2, <2>3, <2>4
<1>5. QED
  BY <1>3, <1>4 DEF Explained

\* A press is explained by the hand, when nothing else was held.
LEMMA PressSettles ==
  ASSUME SettleInv, NEW b \in Button, PressButton(b)
  PROVE  SettleInv'
<1> DEFINE m == [what |-> "down", button |-> b, x |-> place]
<1>1. /\ m \in Message /\ mail' = Append(mail, m) /\ hand' = hand \cup {b}
      /\ UNCHANGED <<place, pumping, window, driver>>
      /\ clean' = (AtRest \/ (clean /\ hand = {}))
  BY DEF PressButton, Post, SettleInv, MouseTypeOK, Message
<1>2. /\ mail' \in Seq(Message) /\ Len(mail') = Len(mail) + 1
      /\ Len(mail) \in Nat
      /\ \A k \in 1 .. Len(mail) : mail'[k] = mail[k]
      /\ mail'[Len(mail) + 1] = m
  BY <1>1, PostAppends DEF SettleInv
<1>3. MouseTypeOK'
  BY <1>1, <1>2 DEF SettleInv, MouseTypeOK, window, driver, Message
<1>4. ASSUME clean' PROVE Explained'
  <2>1. hand = {} /\ (clean => Explained)
    BY <1>1, <1>4 DEF AtRest, SettleInv
  <2>2. ASSUME NEW i \in 1 .. Len(mail) + 1, NEW c, clean, LetGoFrom(i, c)
        PROVE  LetGoFrom(i, c)'
    <3>1. ReleaseComing(i, c)
      BY <2>1, <2>2 DEF LetGoFrom, HeldStill
    <3>2. i \in Nat \ {0}
      BY <1>2
    <3>3. QED
      BY <1>1, <3>1, <3>2, ReleaseStays DEF SettleInv, LetGoFrom
  <2>3. CASE clean
    <3>1. ASSUME NEW c \in mbtn'
          PROVE  captured' /\ mbtn' = {c} /\ LetGoFrom(1, c)'
      BY <1>1, <1>2, <2>1, <2>2, <2>3, <3>1 DEF Explained, window
    <3>2. ASSUME NEW i \in 1 .. Len(mail), mail'[i].what = "down"
          PROVE  LetGoFrom(i + 1, mail[i].button)'
      <4>1. mail'[i] = mail[i] /\ i + 1 \in 1 .. Len(mail) + 1
        BY <1>2
      <4>2. LetGoFrom(i + 1, mail[i].button)
        BY <2>1, <2>3, <3>2, <4>1 DEF Explained
      <4>3. QED
        BY <2>2, <2>3, <4>1, <4>2
    <3>3. LetGoFrom(Len(mail) + 1, b)'
      BY <1>1, <1>2, <2>1 DEF LetGoFrom, HeldStill, MovesOnly
    <3>4. ASSUME NEW i \in 1 .. Len(mail'), mail'[i].what = "down"
          PROVE  LetGoFrom(i + 1, mail[i].button)'
      <4>1. CASE i = Len(mail')
        BY <1>2, <3>3, <4>1
      <4>2. CASE i # Len(mail')
        BY <1>2, <3>2, <3>4, <4>2
      <4>3. QED
        BY <4>1, <4>2
    <3>5. QED
      BY <3>1, <3>4 DEF Explained
  <2>4. CASE ~clean
    <3>1. mail = <<>> /\ mbtn = {}
      BY <1>1, <1>4, <2>4 DEF AtRest
    <3>2. Len(mail') = 1 /\ mail'[1] = m /\ mbtn' = {}
      BY <1>1, <1>2, <3>1 DEF window
    <3>3. LetGoFrom(2, b)'
      BY <1>1, <2>1, <3>2 DEF LetGoFrom, HeldStill, MovesOnly
    <3>4. ASSUME NEW i \in 1 .. Len(mail')
          PROVE  LetGoFrom(i + 1, mail[i].button)'
      <4>1. i = 1
        BY <3>2
      <4>2. QED
        BY <3>2, <3>3, <4>1
    <3>5. QED
      BY <3>2, <3>4 DEF Explained
  <2>5. QED
    BY <2>3, <2>4
<1>5. QED
  BY <1>3, <1>4 DEF SettleInv

\* A release, or a movement, is posted or folded.
LEMMA OtherPostsSettle ==
  ASSUME SettleInv,
         \/ \E b \in Button : ReleaseButton(b)
         \/ \E x \in Places : MovePointer(x)
  PROVE  SettleInv'
<1>1. MouseTypeOK /\ (clean => Explained)
  BY DEF SettleInv
<1>2. ASSUME NEW b \in Button, ReleaseButton(b) PROVE SettleInv'
  <2> DEFINE m == [what |-> "up", button |-> b, x |-> place]
  <2>1. /\ m \in Message /\ mail' = Append(mail, m) /\ hand' = hand \ {b}
        /\ b \in hand /\ UNCHANGED <<place, pumping, window, driver, clean>>
    BY <1>1, <1>2 DEF ReleaseButton, Post, MouseTypeOK, Message
  <2>2. mail' \in Seq(Message)
    BY <1>1, <2>1, PostAppends
  <2>3. MouseTypeOK'
    BY <1>1, <2>1, <2>2 DEF MouseTypeOK, window, driver, Message
  <2>4. clean' => Explained'
    <3>1. m.what = "up" /\ m.button \in hand
      BY <2>1
    <3>2. UNCHANGED <<captured, mbtn>>
      BY <2>1 DEF window
    <3>3. QED
      BY <1>1, <2>1, <3>1, <3>2, PostExplains
  <2>5. QED
    BY <2>3, <2>4 DEF SettleInv
<1>3. ASSUME NEW x \in Places, MovePointer(x) PROVE SettleInv'
  <2> DEFINE m == [what |-> "move", button |-> Left, x |-> x]
  <2>1. /\ m \in Message /\ place' = x
        /\ mail' = Append(mail, m) \/ mail' = mail
        /\ UNCHANGED <<hand, pumping, window, driver, clean>>
    BY <1>3, MouseAssumption DEF MovePointer, Message
  <2>2. mail' \in Seq(Message)
    BY <1>1, <2>1, PostAppends DEF MouseTypeOK
  <2>3. MouseTypeOK'
    BY <1>1, <2>1, <2>2 DEF MouseTypeOK, window, driver, Message
  <2>4. clean' => Explained'
    <3>1. m.what = "move"
      OBVIOUS
    <3>2. UNCHANGED <<captured, mbtn, hand>>
      BY <2>1 DEF window
    <3>3. CASE mail' = Append(mail, m)
      BY <1>1, <2>1, <3>1, <3>2, <3>3, PostExplains
    <3>4. CASE mail' = mail
      BY <1>1, <2>1, <3>2, <3>4
      DEF Explained, LetGoFrom, HeldStill, ReleaseComing, MovesOnly
    <3>5. QED
      BY <2>1, <3>3, <3>4
  <2>5. QED
    BY <2>3, <2>4 DEF SettleInv
<1>4. QED
  BY <1>2, <1>3

\* Handling a message brings what was said of the later ones one nearer.
LEMMA TailIs ==
  ASSUME MouseTypeOK, mail # <<>>, mail' = Tail(mail)
  PROVE  /\ mail' \in Seq(Message) /\ Len(mail') = Len(mail) - 1
         /\ Len(mail) \in Nat \ {0} /\ Head(mail) = mail[1]
         /\ mail[1] \in Message
         /\ \A k \in 1 .. Len(mail) - 1 : mail'[k] = mail[k + 1]
BY DEF MouseTypeOK

\* The next release comes one nearer.
LEMMA ComesNearer ==
  ASSUME MouseTypeOK, mail # <<>>, mail' = Tail(mail), hand' = hand,
         NEW i \in Nat \ {0}, NEW b, LetGoFrom(i + 1, b)
  PROVE  LetGoFrom(i, b)'
<1>1. /\ Len(mail') = Len(mail) - 1 /\ Len(mail) \in Nat \ {0}
      /\ \A k \in 1 .. Len(mail) - 1 : mail'[k] = mail[k + 1]
  BY TailIs
<1>2. CASE HeldStill(i + 1, b)
  BY <1>1, <1>2 DEF HeldStill, LetGoFrom, MovesOnly
<1>3. CASE ReleaseComing(i + 1, b)
  <2>1. PICK j \in i + 1 .. Len(mail) :
          mail[j].what = "up" /\ mail[j].button = b /\ MovesOnly(i + 1, j - 1)
    BY <1>3 DEF ReleaseComing
  <2>2. j - 1 \in i .. Len(mail') /\ mail'[j - 1] = mail[j]
    <3>1. j - 1 \in 1 .. Len(mail) - 1
      BY <1>1, <2>1
    <3>2. mail'[j - 1] = mail[(j - 1) + 1]
      BY <1>1, <3>1
    <3>3. (j - 1) + 1 = j
      BY <2>1
    <3>4. QED
      BY <1>1, <2>1, <3>2, <3>3
  <2>3. \A k \in 1 .. Len(mail') :
          i <= k /\ k <= (j - 1) - 1 => mail'[k].what = "move"
    BY <1>1, <2>1 DEF MovesOnly
  <2>4. QED
    BY <2>1, <2>2, <2>3 DEF ReleaseComing, MovesOnly, LetGoFrom
<1>4. QED
  BY <1>2, <1>3 DEF LetGoFrom

\* What the first message does to a button the window has down.
LEMMA FirstLetsGo ==
  ASSUME MouseTypeOK, mail # <<>>, mail' = Tail(mail), hand' = hand,
         NEW b, LetGoFrom(1, b)
  PROVE  \/ mail[1].what = "move" /\ LetGoFrom(1, b)'
         \/ mail[1].what = "up" /\ mail[1].button = b
<1>1. Len(mail) \in Nat \ {0}
  BY TailIs
<1>2. CASE HeldStill(1, b)
  <2>1. mail[1].what = "move"
    BY <1>1, <1>2 DEF HeldStill, MovesOnly
  <2>2. LetGoFrom(1 + 1, b)
    BY <1>1, <1>2 DEF HeldStill, MovesOnly, LetGoFrom
  <2>3. LetGoFrom(1, b)'
    BY <2>2, ComesNearer
  <2>4. QED
    BY <2>1, <2>3
<1>3. CASE ReleaseComing(1, b)
  <2>1. PICK j \in 1 .. Len(mail) :
          mail[j].what = "up" /\ mail[j].button = b /\ MovesOnly(1, j - 1)
    BY <1>3 DEF ReleaseComing
  <2>2. CASE j = 1
    BY <2>1, <2>2
  <2>3. CASE j # 1
    <3>1. mail[1].what = "move" /\ j \in 1 + 1 .. Len(mail)
      BY <1>1, <2>1, <2>3 DEF MovesOnly
    <3>2. MovesOnly(1 + 1, j - 1)
      BY <1>1, <2>1 DEF MovesOnly
    <3>3. LetGoFrom(1 + 1, b)
      BY <2>1, <3>1, <3>2 DEF ReleaseComing, LetGoFrom
    <3>4. QED
      BY <3>1, <3>3, ComesNearer
  <2>4. QED
    BY <2>2, <2>3
<1>4. QED
  BY <1>2, <1>3 DEF LetGoFrom

\* The window handles a message, or is not given it: then it has no button
\* down, for it would have the capture.
LEMMA PumpSettles ==
  ASSUME SettleInv, PumpOne
  PROVE  SettleInv'
<1> DEFINE m == mail[1]
<1>1. /\ mail # <<>> /\ mail' = Tail(mail) /\ hand' = hand /\ m \in Message
      /\ m = Head(mail) /\ mail' \in Seq(Message) /\ MouseTypeOK
      /\ Len(mail') = Len(mail) - 1 /\ Len(mail) \in Nat \ {0}
      /\ \A k \in 1 .. Len(mail) - 1 : mail'[k] = mail[k + 1]
      /\ UNCHANGED <<place, pumping, driver, clean>>
  BY TailIs DEF PumpOne, SettleInv, person
<1>2. \/ Note(m)
      \/ UNCHANGED window /\ ~captured
  BY <1>1 DEF PumpOne
<1>3. mx' \in Over /\ mbtn' \subseteq Button /\ captured' \in BOOLEAN
  <2>1. CASE Note(m)
    <3>1. m.x \in Int /\ m.button \in Button
      BY <1>1, MouseAssumption DEF Message
    <3>2. mx' \in Over
      BY <2>1, <3>1, ClampIsOver DEF Note
    <3>3. mbtn \subseteq Button /\ captured \in BOOLEAN
      BY <1>1 DEF MouseTypeOK
    <3>4. m.what = "down" \/ m.what = "up" \/ m.what = "move"
      BY <1>1 DEF Message
    <3>5. QED
      BY <2>1, <3>1, <3>2, <3>3, <3>4 DEF Note
  <2>2. CASE UNCHANGED window
    BY <1>1, <2>2 DEF window, MouseTypeOK
  <2>3. QED
    BY <1>2, <2>1, <2>2
<1>4. MouseTypeOK'
  BY <1>1, <1>3 DEF MouseTypeOK, driver, Message
<1>5. ASSUME clean' PROVE Explained'
  <2>1. Explained
    BY <1>1, <1>5 DEF SettleInv
  <2>2. ASSUME NEW i \in 1 .. Len(mail'), mail'[i].what = "down"
        PROVE  LetGoFrom(i + 1, mail[i].button)'
    <3>1. mail'[i] = mail[i + 1] /\ i + 1 \in 1 .. Len(mail)
      BY <1>1
    <3>2. LetGoFrom((i + 1) + 1, mail[i + 1].button)
      BY <2>1, <2>2, <3>1 DEF Explained
    <3>3. i + 1 \in Nat \ {0}
      OBVIOUS
    <3> DEFINE b == mail[i + 1].button
    <3> HIDE DEF b
    <3>4. LetGoFrom((i + 1) + 1, b)
      BY <3>2 DEF b
    <3>5. \A c : LetGoFrom((i + 1) + 1, c) => LetGoFrom(i + 1, c)'
      BY <1>1, <3>3, ComesNearer
    <3>6. QED
      BY <3>1, <3>2, <3>5
  <2>3. ASSUME NEW b \in mbtn' PROVE captured' /\ mbtn' = {b} /\ LetGoFrom(1, b)'
    <3>1. CASE UNCHANGED window /\ ~captured
      BY <2>1, <2>3, <3>1 DEF window, Explained
    <3>2. CASE Note(m)
      <4>1. \A c \in mbtn :
              /\ captured /\ mbtn = {c}
              /\ \/ m.what = "move" /\ LetGoFrom(1, c)'
                 \/ m.what = "up" /\ m.button = c
        BY <1>1, <2>1, FirstLetsGo DEF Explained
      <4>2. CASE m.what = "down"
        <5>1. mbtn = {}
          BY <4>1, <4>2
        <5>2. mbtn' = {m.button} /\ captured'
          BY <3>2, <4>2, <5>1 DEF Note
        <5>3. LetGoFrom(1 + 1, m.button)
          BY <1>1, <2>1, <4>2 DEF Explained
        <5>4. LetGoFrom(1 + 1, b)
          BY <2>3, <5>2, <5>3
        <5>5. LetGoFrom(1, b)'
          BY <1>1, <5>4, ComesNearer
        <5>6. QED
          BY <2>3, <5>2, <5>5
      <4>3. CASE m.what = "up"
        <5>1. mbtn' = mbtn \ {m.button}
          BY <3>2, <4>3 DEF Note
        <5>2. QED
          BY <2>3, <4>1, <4>3, <5>1
      <4>4. CASE m.what = "move"
        <5>1. mbtn' = mbtn /\ captured' = captured
          BY <3>2, <4>4 DEF Note
        <5>2. QED
          BY <2>3, <4>1, <4>4, <5>1
      <4>5. QED
        BY <1>1, <4>2, <4>3, <4>4 DEF Message
    <3>3. QED
      BY <1>2, <3>1, <3>2
  <2>4. QED
    BY <2>2, <2>3 DEF Explained
<1>6. QED
  BY <1>4, <1>5 DEF SettleInv

\* At first no button is down.
LEMMA MouseStarts == MouseInit => SettleInv
<1> SUFFICES ASSUME MouseInit PROVE SettleInv
  OBVIOUS
<1>1. MouseTypeOK
  <2>1. Width \in Nat /\ 0 \in Over /\ Whole \in Int \X Int
    BY MouseAssumption DEF Over, Whole
  <2>2. /\ press \in [Button -> Nat] /\ rel \in [Button -> Nat]
        /\ pressAt \in [Button -> Nat] /\ relAt \in [Button -> Nat]
        /\ told \in [Button -> Int]
    BY DEF MouseInit
  <2>3. NoReply \in [x : Nat, fresh : BOOLEAN] /\ <<>> \in Seq(Message)
    BY DEF NoReply
  <2>4. /\ hand \subseteq Button /\ place \in Places /\ mail \in Seq(Message)
        /\ mbtn \subseteq Button /\ prev \subseteq Button
    BY <2>3 DEF MouseInit
  <2>5. mx \in Over /\ range \in Int \X Int /\ lastX \in Int
    BY <2>1 DEF MouseInit
  <2>6. reply \in [x : Nat, fresh : BOOLEAN]
    BY <2>3 DEF MouseInit
  <2>7. pumping \in BOOLEAN /\ captured \in BOOLEAN /\ clean \in BOOLEAN
    BY DEF MouseInit
  <2>8. QED
    BY <2>2, <2>4, <2>5, <2>6, <2>7 DEF MouseTypeOK
<1>2. mail = <<>> /\ mbtn = {}
  BY DEF MouseInit
<1>3. QED
  BY <1>1, <1>2 DEF SettleInv, Explained

\* Every step explains the buttons that are.
LEMMA MouseKeeps == SettleInv /\ [MouseNext]_mouseVars => SettleInv'
<1> SUFFICES ASSUME SettleInv, [MouseNext]_mouseVars PROVE SettleInv'
  OBVIOUS
<1>1. ASSUME UNCHANGED <<hand, mail, captured, mbtn, clean>>, Explained
      PROVE  Explained'
  BY <1>1 DEF Explained, LetGoFrom, HeldStill, ReleaseComing, MovesOnly
<1>2. ASSUME NEW b \in Button, PressButton(b) \/ ReleaseButton(b)
      PROVE  SettleInv'
  BY <1>2, PressSettles, OtherPostsSettle
<1>3. ASSUME NEW x \in Places, MovePointer(x) PROVE SettleInv'
  BY <1>3, OtherPostsSettle
<1>4. CASE LoseCapture
  BY <1>4 DEF LoseCapture, SettleInv, MouseTypeOK, person, driver, Message
<1>5. CASE StartPump \/ StopPump
  <2>1. /\ UNCHANGED <<person, mail, window, driver, clean>>
        /\ pumping' \in BOOLEAN
    BY <1>5 DEF StartPump, StopPump
  <2>2. MouseTypeOK'
    BY <2>1 DEF SettleInv, MouseTypeOK, person, window, driver, Message
  <2>3. QED
    BY <1>1, <2>1, <2>2 DEF SettleInv, person, window
<1>6. CASE PumpOne
  BY <1>6, PumpSettles
<1>7. ASSUME NEW v \in Seen,
             \/ AskOther(v)
             \/ \E r \in Ranges \cup {Whole} : SetRange(v, r)
             \/ AskMotion(v)
             \/ \E b \in Button : AskPresses(v, b) \/ AskReleases(v, b)
      PROVE  SettleInv'
  <2>1. MouseTypeOK' /\ Edges(v)
    BY <1>7, AskTypes DEF SettleInv
  <2>2. UNCHANGED <<person, mail, window, clean>>
    BY <2>1 DEF Edges
  <2>3. QED
    BY <1>1, <2>1, <2>2 DEF SettleInv, person, window
<1>8. CASE UNCHANGED mouseVars
  <2>1. UNCHANGED <<person, mail, pumping, window, driver, clean>>
    BY <1>8 DEF mouseVars
  <2>2. MouseTypeOK'
    BY <2>1 DEF SettleInv, MouseTypeOK, person, window, driver, Message
  <2>3. QED
    BY <1>1, <2>1, <2>2 DEF SettleInv, person, window
<1>9. QED
  BY <1>2, <1>3, <1>4, <1>5, <1>6, <1>7, <1>8 DEF MouseNext

\* Once the messages are handled, a button the window has down is held, for
\* any buttons, pointer and queue, as long as one button was used at a time
\* and nobody took the capture.
THEOREM ClicksSettle == MouseSpec => []SingleClickSettles
<1>1. MouseInit => SettleInv
  BY MouseStarts
<1>2. SettleInv /\ [MouseNext]_mouseVars => SettleInv'
  BY MouseKeeps
<1>3. SettleInv => SingleClickSettles
  <2> SUFFICES ASSUME SettleInv, clean, mail = <<>>, NEW b \in mbtn
               PROVE  b \in hand
    BY DEF SingleClickSettles
  <2>1. LetGoFrom(1, b) /\ Len(mail) = 0
    BY DEF SettleInv, Explained
  <2>2. QED
    BY <2>1 DEF LetGoFrom, HeldStill, ReleaseComing
<1>4. QED
  BY <1>1, <1>2, <1>3, PTL DEF MouseSpec

-----------------------------------------------------------------------------
(* Sound effects: Digi.                                                    *)

AtMostOne == \A r, s \in Queued : r = s

\* What the last call found at its spot is what the guest has wanted since,
\* and it is what plays.
WantedPlays ==
  ~excused => /\ last # Silence => want = ram[last]
              /\ \A s \in Queued : buffer[s] = want

DigiInv ==
  /\ header \in [WaveSlot -> {"none", "queued", "done"}]
  /\ buffer \in [WaveSlot -> Sound \cup {Silence}]
  /\ ram \in [Spot -> Sound \cup {Silence}]
  /\ last \in Spot \cup {Silence}
  /\ AtMostOne /\ WantedPlays

\* After a reset nothing is queued, and the slot found is the first.
LEMMA ResetFrees ==
  ASSUME DigiInv
  PROVE  /\ Returned \in [WaveSlot -> {"none", "done"}]
         /\ First(Free(Returned)) \in WaveSlot
<1>1. Returned \in [WaveSlot -> {"none", "done"}]
  BY DEF DigiInv, Returned
<1>2. Free(Returned) = WaveSlot
  BY <1>1 DEF Free
<1>3. 1 \in WaveSlot /\ \A s \in WaveSlot : 1 <= s
  BY DigiAssumption DEF WaveSlot
<1>4. QED
  BY <1>1, <1>2, <1>3 DEF First

\* A new effect is alone.
LEMMA PlayKeeps ==
  ASSUME DigiInv, NEW p \in Spot, Play(p)
  PROVE  DigiInv'
<1> DEFINE s == First(Free(Returned))
<1>1. s \in WaveSlot /\ Returned \in [WaveSlot -> {"none", "done"}]
  BY ResetFrees
<1>2. /\ header' = [Returned EXCEPT ![s] = "queued"]
      /\ buffer' = [buffer EXCEPT ![s] = ram[p]]
      /\ want' = ram[p] /\ ram' = ram /\ last' = p
  BY DEF Play, Asked
<1> HIDE DEF s
<1>3. header' \in [WaveSlot -> {"none", "queued", "done"}] /\ Queued' = {s}
  BY <1>1, <1>2 DEF Queued
<1>4. buffer' \in [WaveSlot -> Sound \cup {Silence}] /\ buffer'[s] = want'
  BY <1>1, <1>2 DEF DigiInv
<1>5. QED
  BY <1>2, <1>3, <1>4, DigiAssumption DEF DigiInv, AtMostOne, WantedPlays

\* A failure leaves nothing playing.
LEMMA PlayFailsKeeps ==
  ASSUME DigiInv, NEW p \in Spot, PlayFails(p)
  PROVE  DigiInv'
<1> DEFINE s == First(Free(Returned))
<1>1. s \in WaveSlot /\ Returned \in [WaveSlot -> {"none", "done"}]
  BY ResetFrees
<1>2. /\ header' = [Returned EXCEPT ![s] = "none"]
      /\ buffer' \in {buffer, [buffer EXCEPT ![s] = ram[p]]}
      /\ want' = ram[p] /\ ram' = ram /\ last' = p
  BY DEF PlayFails, Asked
<1> HIDE DEF s
<1>3. header' \in [WaveSlot -> {"none", "queued", "done"}] /\ Queued' = {}
  BY <1>1, <1>2 DEF Queued
<1>4. buffer' \in [WaveSlot -> Sound \cup {Silence}]
  BY <1>1, <1>2 DEF DigiInv
<1>5. QED
  BY <1>2, <1>3, <1>4 DEF DigiInv, AtMostOne, WantedPlays

\* At first nothing plays.
LEMMA DigiStarts == DigiInit => DigiInv
<1> SUFFICES ASSUME DigiInit PROVE DigiInv
  OBVIOUS
<1>1. Queued = {}
  BY DEF DigiInit, Queued
<1>2. QED
  BY <1>1 DEF DigiInit, DigiInv, AtMostOne, WantedPlays

\* Every step leaves one effect, the last one.
LEMMA DigiKeeps == DigiInv /\ [DigiNext]_digiVars => DigiInv'
<1> SUFFICES ASSUME DigiInv, [DigiNext]_digiVars PROVE DigiInv'
  OBVIOUS
<1>1. ASSUME NEW p \in Spot, Repeat(p) PROVE DigiInv'
  <2>1. /\ UNCHANGED <<header, buffer, ram, last, excused>>
        /\ p = last /\ want' = ram[p] /\ Queued' = Queued
    BY <1>1 DEF Repeat, host, Queued
  <2>2. last # Silence
    BY <2>1, DigiAssumption
  <2>3. ~excused => want' = want
    BY <2>1, <2>2 DEF DigiInv, WantedPlays
  <2>4. QED
    BY <2>1, <2>3 DEF DigiInv, AtMostOne, WantedPlays
<1>2. ASSUME NEW p \in Spot, Refused(p) PROVE DigiInv'
  <2>1. /\ UNCHANGED <<header, buffer, ram>> /\ last' = p
        /\ excused' = TRUE /\ Queued' = Queued
    BY <1>2 DEF Refused, Asked, Queued
  <2>2. QED
    BY <2>1 DEF DigiInv, AtMostOne, WantedPlays
<1>3. ASSUME NEW s \in WaveSlot, Finish(s) PROVE DigiInv'
  <2>1. /\ UNCHANGED <<buffer, ram, last, want, excused>>
        /\ header' = [header EXCEPT ![s] = "done"]
    BY <1>3 DEF Finish
  <2>2. /\ header' \in [WaveSlot -> {"none", "queued", "done"}]
        /\ Queued' \subseteq Queued
    BY <2>1 DEF DigiInv, Queued
  <2>3. QED
    BY <2>1, <2>2 DEF DigiInv, AtMostOne, WantedPlays
<1>4. CASE Forget \/ UNCHANGED digiVars
  <2>1. /\ UNCHANGED <<header, buffer, ram, last, want, excused>>
        /\ Queued' = Queued
    BY <1>4 DEF Forget, host, digiVars, Queued
  <2>2. QED
    BY <2>1 DEF DigiInv, AtMostOne, WantedPlays
<1>5. ASSUME NEW p \in Spot, NEW v \in Sound, Load(p, v) PROVE DigiInv'
  <2>1. /\ UNCHANGED <<header, buffer, last, want>> /\ Queued' = Queued
        /\ ram' = [ram EXCEPT ![p] = v]
        /\ excused' = (excused \/ (p = last /\ v # ram[p]))
    BY <1>5 DEF Load, host, Queued
  <2>2. ram' \in [Spot -> Sound \cup {Silence}]
    BY <2>1 DEF DigiInv
  <2>3. ASSUME ~excused', last # Silence
        PROVE  ~excused /\ ram'[last] = ram[last]
    BY <2>1, <2>3 DEF DigiInv
  <2>4. QED
    BY <2>1, <2>2, <2>3 DEF DigiInv, AtMostOne, WantedPlays
<1>6. QED
  BY <1>1, <1>2, <1>3, <1>4, <1>5, PlayKeeps, PlayFailsKeeps DEF DigiNext

\* At most one effect plays, and it is the last one the guest asked for, with
\* the two exceptions OneChannel names: for any number of slots, sounds and
\* places to keep them, and however the device finishes.
THEOREM OneEffectPlays == DigiSpec => []OneChannel
<1>1. DigiInit => DigiInv
  BY DigiStarts
<1>2. DigiInv /\ [DigiNext]_digiVars => DigiInv'
  BY DigiKeeps
<1>3. DigiInv => OneChannel
  <2> SUFFICES ASSUME DigiInv PROVE OneChannel
    OBVIOUS
  <2>1. Cardinality(Queued) <= 1
    <3>1. CASE Queued = {}
      BY <3>1, FS_EmptySet
    <3>2. CASE Queued # {}
      <4>1. PICK s \in Queued : TRUE
        BY <3>2
      <4>2. Queued = {s}
        BY <4>1 DEF DigiInv, AtMostOne
      <4>3. Cardinality(Queued) = 1
        BY <4>2, FS_Singleton
      <4>4. QED
        BY <4>3
    <3>3. QED
      BY <3>1, <3>2
  <2>2. QED
    BY <2>1 DEF DigiInv, WantedPlays, OneChannel
<1>4. QED
  BY <1>1, <1>2, <1>3, PTL DEF DigiSpec

-----------------------------------------------------------------------------
(* The flags: Flags.                                                       *)

FlagsType ==
  flags \in [CF : BOOLEAN, ZF : BOOLEAN, SF : BOOLEAN, OF : BOOLEAN,
             AF : BOOLEAN, PF : BOOLEAN]

FlagsInv == FlagsType /\ JccTellsOrder

\* A number less than one width away is brought back by adding or taking off
\* the modulus once.
LEMMA OneWidth ==
  ASSUME NEW x \in Int, x >= -Modulus, x < 2 * Modulus
  PROVE  x % Modulus = IF x < 0 THEN x + Modulus
                       ELSE IF x < Modulus THEN x ELSE x - Modulus
<1>1. Modulus \in Nat \ {0}
  BY FlagsAssumption DEF Modulus
<1>2. QED
  BY <1>1

\* What an operation leaves in each flag and keeps of the others.
LEMMA SZPSets ==
  ASSUME NEW f \in [CF : BOOLEAN, ZF : BOOLEAN, SF : BOOLEAN, OF : BOOLEAN,
                    AF : BOOLEAN, PF : BOOLEAN],
         NEW r
  PROVE  /\ SZP(f, r) \in [CF : BOOLEAN, ZF : BOOLEAN, SF : BOOLEAN,
                           OF : BOOLEAN, AF : BOOLEAN, PF : BOOLEAN]
         /\ SZP(f, r).CF = f.CF /\ SZP(f, r).OF = f.OF
         /\ SZP(f, r).ZF = (r = 0) /\ SZP(f, r).SF = Negative(r)
<1>1. (r = 0) \in BOOLEAN /\ Negative(r) \in BOOLEAN /\ EvenParity(r) \in BOOLEAN
  BY DEF Negative, EvenParity, OddBits
<1>2. QED
  BY <1>1 DEF SZP

\* A subtraction: the flags are the order of its operands.
LEMMA SubtractTells ==
  ASSUME FlagsType, NEW a \in Number, NEW b \in Number, Subtract(a, b)
  PROVE  FlagsInv'
<1> DEFINE r == (a - b) % Modulus
           n == Negative(a) # Negative(b) /\ Negative(a) # Negative(r)
           f == [flags EXCEPT !.CF = (a < b), !.OF = n,
                              !.AF = HalfCarry(a, b, r)]
<1>1. flags' = SZP(f, r) /\ result' = r
      /\ op' = [name |-> "sub", a |-> a, b |-> b]
  BY DEF Subtract
<1>2. f \in [CF : BOOLEAN, ZF : BOOLEAN, SF : BOOLEAN, OF : BOOLEAN,
             AF : BOOLEAN, PF : BOOLEAN]
      /\ f.CF = (a < b) /\ f.OF = n
  <2>1. (a < b) \in BOOLEAN /\ n \in BOOLEAN /\ HalfCarry(a, b, r) \in BOOLEAN
    BY DEF HalfCarry, OddBits
  <2> HIDE DEF n, r
  <2>2. QED
    BY <2>1 DEF FlagsType
<1>3. r = IF a < b THEN a - b + Modulus ELSE a - b
  <2>1. Modulus \in Nat \ {0}
    BY FlagsAssumption DEF Modulus
  <2>2. a - b \in Int /\ a - b >= -Modulus /\ a - b < Modulus
    BY <2>1 DEF Number
  <2>3. a \in Int /\ b \in Int
    BY <2>1 DEF Number
  <2>4. QED
    BY <2>1, <2>2, <2>3, OneWidth
<1>4. /\ (r = 0) = (a = b)
      /\ n = Overflows(Signed(a) - Signed(b))
      /\ (Negative(r) # n) = (Signed(a) < Signed(b))
  <2> USE <1>3, FlagsAssumption DEF Number, Modulus, Negative, Signed
  <2>1. (r = 0) = (a = b)
    OBVIOUS
  <2>2. (Negative(r) # n) = (Signed(a) < Signed(b))
    OBVIOUS
  <2>3. n = Overflows(Signed(a) - Signed(b))
    BY DEF Overflows
  <2>4. QED
    BY <2>1, <2>2, <2>3
<1>5. /\ ((a < b) \/ (r = 0)) = (a <= b)
      /\ ((r = 0) \/ (Negative(r) # n)) = (Signed(a) <= Signed(b))
  BY <1>3, FlagsAssumption DEF Number, Modulus, Negative, Signed, Overflows
<1> HIDE DEF r, f, n
<1>6. /\ SZP(f, r) \in [CF : BOOLEAN, ZF : BOOLEAN, SF : BOOLEAN,
                        OF : BOOLEAN, AF : BOOLEAN, PF : BOOLEAN]
      /\ SZP(f, r).CF = f.CF /\ SZP(f, r).OF = f.OF
      /\ SZP(f, r).ZF = (r = 0) /\ SZP(f, r).SF = Negative(r)
  BY <1>2, SZPSets
<1>7. /\ flags'.CF = (a < b) /\ flags'.OF = n
      /\ flags'.ZF = (r = 0) /\ flags'.SF = Negative(r) /\ FlagsType'
  BY <1>1, <1>2, <1>6, Zenon DEF FlagsType
<1>8. op'.name = "sub" /\ op'.a = a /\ op'.b = b
  BY <1>1
<1>9. ComparisonTold'
  BY <1>4, <1>5, <1>7, <1>8, Zenon
  DEF ComparisonTold, cc_b, cc_be, cc_e, cc_l, cc_le, cc_o
<1>10. QED
  BY <1>7, <1>8, <1>9 DEF FlagsInv, JccTellsOrder, SumTold, LogicTold

\* An addition: the carry and the overflow are the true ones.
LEMMA AddTells ==
  ASSUME FlagsType, NEW a \in Number, NEW b \in Number, Add(a, b)
  PROVE  FlagsInv'
<1> DEFINE r == (a + b) % Modulus
           n == Negative(a) = Negative(b) /\ Negative(a) # Negative(r)
           f == [flags EXCEPT !.CF = (a + b >= Modulus), !.OF = n,
                              !.AF = HalfCarry(a, b, r)]
<1>1. flags' = SZP(f, r) /\ result' = r
      /\ op' = [name |-> "add", a |-> a, b |-> b]
  BY DEF Add
<1>2. f \in [CF : BOOLEAN, ZF : BOOLEAN, SF : BOOLEAN, OF : BOOLEAN,
             AF : BOOLEAN, PF : BOOLEAN]
      /\ f.CF = (a + b >= Modulus) /\ f.OF = n
  <2>1. /\ (a + b >= Modulus) \in BOOLEAN /\ n \in BOOLEAN
        /\ HalfCarry(a, b, r) \in BOOLEAN
    BY DEF HalfCarry, OddBits
  <2> HIDE DEF n, r
  <2>2. QED
    BY <2>1 DEF FlagsType
<1>3. r = IF a + b < Modulus THEN a + b ELSE a + b - Modulus
  <2>1. Modulus \in Nat \ {0}
    BY FlagsAssumption DEF Modulus
  <2>2. a + b \in Int /\ a + b >= 0 /\ a + b < 2 * Modulus
    BY <2>1 DEF Number
  <2>3. a \in Int /\ b \in Int
    BY <2>1 DEF Number
  <2>4. QED
    BY <2>1, <2>2, <2>3, OneWidth
<1>4. /\ (a + b >= Modulus) = (a + b # r)
      /\ n = Overflows(Signed(a) + Signed(b))
      /\ (Negative(r) # n) = (Signed(a) + Signed(b) < 0)
  <2> USE <1>3, FlagsAssumption DEF Number, Modulus, Negative, Signed
  <2>1. (a + b >= Modulus) = (a + b # r)
    OBVIOUS
  <2>2. (Negative(r) # n) = (Signed(a) + Signed(b) < 0)
    OBVIOUS
  <2>3. n = Overflows(Signed(a) + Signed(b))
    BY DEF Overflows
  <2>4. QED
    BY <2>1, <2>2, <2>3
<1> HIDE DEF r, f, n
<1>5. /\ SZP(f, r) \in [CF : BOOLEAN, ZF : BOOLEAN, SF : BOOLEAN,
                        OF : BOOLEAN, AF : BOOLEAN, PF : BOOLEAN]
      /\ SZP(f, r).CF = f.CF /\ SZP(f, r).OF = f.OF
      /\ SZP(f, r).ZF = (r = 0) /\ SZP(f, r).SF = Negative(r)
  BY <1>2, SZPSets
<1>6. /\ flags'.CF = (a + b # r) /\ flags'.OF = n
      /\ flags'.SF = Negative(r) /\ FlagsType'
  BY <1>1, <1>2, <1>4, <1>5, Zenon DEF FlagsType
<1>7. op'.name = "add" /\ op'.a = a /\ op'.b = b /\ result' = r
  BY <1>1
<1>8. SumTold'
  BY <1>4, <1>6, <1>7, Zenon DEF SumTold, cc_b, cc_l, cc_o
<1>9. QED
  BY <1>6, <1>7, <1>8 DEF FlagsInv, JccTellsOrder, ComparisonTold, LogicTold

\* A logical operation: the flags are the sign of its result.
LEMMA LogicTells ==
  ASSUME FlagsType, NEW r \in Number, Logic(r)
  PROVE  FlagsInv'
<1> DEFINE f == [flags EXCEPT !.CF = FALSE, !.OF = FALSE]
<1>1. flags' = SZP(f, r) /\ result' = r
      /\ op' = [name |-> "logic", a |-> r, b |-> 0]
  BY DEF Logic
<1>2. f \in [CF : BOOLEAN, ZF : BOOLEAN, SF : BOOLEAN, OF : BOOLEAN,
             AF : BOOLEAN, PF : BOOLEAN]
      /\ f.CF = FALSE /\ f.OF = FALSE
  BY DEF FlagsType
<1>3. /\ Negative(r) = (Signed(r) < 0)
      /\ (r = 0 \/ Negative(r)) = (Signed(r) <= 0)
  BY FlagsAssumption DEF Number, Modulus, Negative, Signed
<1> HIDE DEF f
<1>4. /\ SZP(f, r) \in [CF : BOOLEAN, ZF : BOOLEAN, SF : BOOLEAN,
                        OF : BOOLEAN, AF : BOOLEAN, PF : BOOLEAN]
      /\ SZP(f, r).CF = f.CF /\ SZP(f, r).OF = f.OF
      /\ SZP(f, r).ZF = (r = 0) /\ SZP(f, r).SF = Negative(r)
  BY <1>2, SZPSets
<1>5. /\ flags'.CF = FALSE /\ flags'.OF = FALSE /\ flags'.ZF = (r = 0)
      /\ flags'.SF = Negative(r) /\ FlagsType'
  BY <1>1, <1>2, <1>4, Zenon DEF FlagsType
<1>6. op'.name = "logic" /\ result' = r
  BY <1>1
<1>7. Negative(r) \in BOOLEAN
  BY DEF Negative
<1>8. LogicTold'
  BY <1>3, <1>5, <1>6, <1>7, Zenon
  DEF LogicTold, cc_b, cc_e, cc_l, cc_le, cc_o
<1>9. QED
  BY <1>5, <1>6, <1>8 DEF FlagsInv, JccTellsOrder, ComparisonTold, SumTold

\* At first nothing was computed.
LEMMA FlagsStart == FlagsInit => FlagsInv
BY DEF FlagsInit, FlagsInv, FlagsType, JccTellsOrder, ComparisonTold,
       SumTold, LogicTold

\* Every instruction leaves flags that tell.
LEMMA FlagsKeep == FlagsInv /\ [FlagsNext]_flagVars => FlagsInv'
<1> SUFFICES ASSUME FlagsInv, [FlagsNext]_flagVars PROVE FlagsInv'
  OBVIOUS
<1>1. FlagsType
  BY DEF FlagsInv
<1>2. CASE \E a, b \in Number : Add(a, b) \/ Subtract(a, b)
  BY <1>1, <1>2, AddTells, SubtractTells
<1>3. CASE \E r \in Number : Logic(r)
  BY <1>1, <1>3, LogicTells
<1>4. ASSUME NEW r \in Number, NEW out \in BOOLEAN, Shift(r, out)
      PROVE  FlagsInv'
  <2>1. op'.name = "shift" /\ flags' = SZP([flags EXCEPT !.CF = out], r)
    BY <1>4 DEF Shift
  <2>2. [flags EXCEPT !.CF = out]
          \in [CF : BOOLEAN, ZF : BOOLEAN, SF : BOOLEAN, OF : BOOLEAN,
               AF : BOOLEAN, PF : BOOLEAN]
    BY <1>1 DEF FlagsType
  <2>3. FlagsType'
    BY <2>1, <2>2, SZPSets DEF FlagsType
  <2>4. QED
    BY <2>1, <2>3
    DEF FlagsInv, JccTellsOrder, ComparisonTold, SumTold, LogicTold
<1>5. CASE UNCHANGED flagVars
  BY <1>5
  DEF flagVars, FlagsInv, FlagsType, JccTellsOrder, ComparisonTold, SumTold,
      LogicTold, cc_b, cc_be, cc_e, cc_l, cc_le, cc_o
<1>6. QED
  BY <1>2, <1>3, <1>4, <1>5 DEF FlagsNext

\* After a comparison, an addition or a logical operation every condition
\* tells what it should, at every width and after whatever ran before.
THEOREM JumpsTellOrder == FlagsSpec => []JccTellsOrder
<1>1. FlagsInit => FlagsInv
  BY FlagsStart
<1>2. FlagsInv /\ [FlagsNext]_flagVars => FlagsInv'
  BY FlagsKeep
<1>3. FlagsInv => JccTellsOrder
  BY DEF FlagsInv
<1>4. QED
  BY <1>1, <1>2, <1>3, PTL DEF FlagsSpec

-----------------------------------------------------------------------------
(* The stack: GuestStack.                                                  *)

\* A segment and an SP hold a stack of words, top first.
Holds(m, s, q) == \A i \in DOMAIN q : Read16(m, Plus(s, 2 * (i - 1))) = q[i]

StackInv ==
  /\ segment \in [Offset -> Byte] /\ sp \in Offset
  /\ pushed \in Seq(Word) /\ 2 * Len(pushed) <= Offsets
  /\ Holds(segment, sp, pushed) /\ got = due

\* An offset wraps at most once.
LEMMA PlusIs ==
  ASSUME NEW s \in Offset, NEW n \in -Offsets .. Offsets
  PROVE  /\ Plus(s, n) = IF s + n < 0 THEN s + n + Offsets
                         ELSE IF s + n < Offsets THEN s + n
                         ELSE s + n - Offsets
         /\ Plus(s, n) \in Offset
<1>1. Offsets \in Nat \ {0}
  BY StackAssumption
<1>2. /\ s \in 0 .. Offsets - 1 /\ n \in Int
      /\ s + n >= -Offsets /\ s + n < 2 * Offsets
  BY <1>1 DEF Offset
<1>3. (s + n) % Offsets = IF s + n < 0 THEN s + n + Offsets
                          ELSE IF s + n < Offsets THEN s + n
                          ELSE s + n - Offsets
  BY <1>1, <1>2
<1>4. QED
  BY <1>1, <1>2, <1>3 DEF Plus, Offset

\* Going on from where one has got to.
LEMMA PlusPlus ==
  ASSUME NEW s \in Offset, NEW p \in -Offsets .. Offsets,
         NEW n \in -Offsets .. Offsets, p + n \in -Offsets .. Offsets
  PROVE  Plus(Plus(s, p), n) = Plus(s, p + n)
<1>1. Offsets \in Nat \ {0}
  BY StackAssumption
<1>2. /\ s \in 0 .. Offsets - 1 /\ p \in Int /\ n \in Int
      /\ Plus(s, p) \in 0 .. Offsets - 1
  BY <1>1, PlusIs DEF Offset
<1>3. Plus(s, p) = IF s + p < 0 THEN s + p + Offsets
                   ELSE IF s + p < Offsets THEN s + p ELSE s + p - Offsets
  BY PlusIs
<1>4. Plus(s, p + n) = IF s + p + n < 0 THEN s + p + n + Offsets
                       ELSE IF s + p + n < Offsets THEN s + p + n
                       ELSE s + p + n - Offsets
  <2>1. Plus(s, p + n) = IF s + (p + n) < 0 THEN s + (p + n) + Offsets
                         ELSE IF s + (p + n) < Offsets THEN s + (p + n)
                         ELSE s + (p + n) - Offsets
    BY PlusIs
  <2>2. QED
    BY <1>1, <1>2, <2>1
<1>5. Plus(Plus(s, p), n)
        = IF Plus(s, p) + n < 0 THEN Plus(s, p) + n + Offsets
          ELSE IF Plus(s, p) + n < Offsets THEN Plus(s, p) + n
          ELSE Plus(s, p) + n - Offsets
  BY PlusIs
<1>6. QED
  BY <1>1, <1>2, <1>3, <1>4, <1>5

\* Two offsets less than a segment apart are different.
LEMMA Apart ==
  ASSUME NEW s \in Offset, NEW p \in -Offsets .. Offsets,
         NEW n \in -Offsets .. Offsets, p < n, n - p < Offsets
  PROVE  Plus(s, p) # Plus(s, n)
<1>1. Offsets \in Nat \ {0}
  BY StackAssumption
<1>2. s \in 0 .. Offsets - 1 /\ p \in Int /\ n \in Int
  BY <1>1 DEF Offset
<1>3. Plus(s, p) = IF s + p < 0 THEN s + p + Offsets
                   ELSE IF s + p < Offsets THEN s + p ELSE s + p - Offsets
  BY PlusIs
<1>4. Plus(s, n) = IF s + n < 0 THEN s + n + Offsets
                   ELSE IF s + n < Offsets THEN s + n ELSE s + n - Offsets
  BY PlusIs
<1>5. QED
  BY <1>1, <1>2, <1>3, <1>4

\* A segment holds whole words.
LEMMA TwoOffsets == Offsets \in Nat /\ Offsets >= 2
<1>1. Offsets # 1
  <2>1. 1 % 2 = 1
    OBVIOUS
  <2>2. QED
    BY <2>1, StackAssumption
<1>2. QED
  BY <1>1, StackAssumption

\* A sequence of two words is its two words.
LEMMA TwoWords ==
  ASSUME NEW a \in Word, NEW b \in Word, NEW q \in Seq(Word),
         Len(q) = 2, q[1] = a, q[2] = b
  PROVE  q = <<a, b>>
<1>1. <<a, b>> \in Seq(Word) /\ Len(<<a, b>>) = 2
      /\ <<a, b>>[1] = a /\ <<a, b>>[2] = b
  OBVIOUS
<1>2. \A i \in 1 .. Len(q) : q[i] = <<a, b>>[i]
  <2>1. \A i \in 1 .. Len(q) : i = 1 \/ i = 2
    OBVIOUS
  <2>2. QED
    BY <1>1, <2>1
<1>3. QED
  BY <1>1, <1>2, SeqEqual

\* One word more on the stack.
LEMMA PushOne ==
  ASSUME NEW m \in [Offset -> Byte], NEW s \in Offset, NEW q \in Seq(Word),
         NEW w \in Word, Holds(m, s, q), 2 * (Len(q) + 1) <= Offsets
  PROVE  LET t == Plus(s, -2) IN
           /\ Write16(m, t, w) \in [Offset -> Byte] /\ t \in Offset
           /\ <<w>> \o q \in Seq(Word)
           /\ Holds(Write16(m, t, w), t, <<w>> \o q)
<1> DEFINE t == Plus(s, -2)
           u == Plus(t, 1)
           k == Write16(m, t, w)
<1>1. Offsets \in Nat /\ Offsets >= 2 /\ Len(q) \in Nat
  BY TwoOffsets
<1>2. t \in Offset /\ u \in Offset /\ u = Plus(s, -1) /\ u # t
  <2>1. -2 \in -Offsets .. Offsets /\ 1 \in -Offsets .. Offsets
        /\ -1 \in -Offsets .. Offsets
    BY <1>1
  <2>2. t \in Offset
    BY <2>1, PlusIs
  <2>3. u = Plus(s, -1)
    BY <2>1, PlusPlus
  <2>4. u \in Offset
    BY <2>1, <2>3, PlusIs
  <2>5. t # u
    BY <1>1, <2>1, <2>3, Apart
  <2>6. QED
    BY <2>2, <2>3, <2>4, <2>5
<1>3. w.lo \in Byte /\ w.hi \in Byte
  BY DEF Word
<1>4. /\ k \in [Offset -> Byte] /\ k[t] = w.lo /\ k[u] = w.hi
      /\ \A o \in Offset \ {t, u} : k[o] = m[o]
  BY <1>2, <1>3 DEF Write16
<1>5. Read16(k, Plus(t, 0)) = w
  <2>1. Plus(t, 0) = t
    BY <1>1, <1>2, PlusIs DEF Offset
  <2>2. QED
    BY <1>4, <2>1 DEF Read16, Word
<1>6. ASSUME NEW j \in 1 .. Len(q)
      PROVE  Read16(k, Plus(t, 2 * j)) = q[j]
  <2> DEFINE a == Plus(s, 2 * (j - 1))
             b == Plus(s, 2 * (j - 1) + 1)
  <2>1. /\ 2 * j \in -Offsets .. Offsets
        /\ -2 \in -Offsets .. Offsets /\ 2 * (j - 1) \in -Offsets .. Offsets
        /\ 2 * (j - 1) + 1 \in -Offsets .. Offsets
        /\ 1 \in -Offsets .. Offsets /\ -1 \in -Offsets .. Offsets
        /\ -2 + 2 * j = 2 * (j - 1)
    BY <1>1
  <2>2. Plus(t, 2 * j) = a
    BY <2>1, PlusPlus
  <2>3. a \in Offset /\ b \in Offset /\ Plus(a, 1) = b
    BY <2>1, PlusIs, PlusPlus
  <2>4. a # t /\ a # u /\ b # t /\ b # u
    BY <1>1, <1>2, <2>1, Apart
  <2>5. Read16(m, a) = q[j]
    BY <1>1 DEF Holds
  <2> HIDE DEF a, b, k, t, u
  <2>6. k[a] = m[a] /\ k[b] = m[b]
    BY <1>4, <2>3, <2>4
  <2>7. QED
    BY <2>2, <2>3, <2>5, <2>6 DEF Read16
<1>7. Holds(k, t, <<w>> \o q)
  <2> SUFFICES ASSUME NEW i \in DOMAIN (<<w>> \o q)
               PROVE  Read16(k, Plus(t, 2 * (i - 1))) = (<<w>> \o q)[i]
    BY DEF Holds
  <2> HIDE DEF k, t
  <2>1. CASE i = 1
    BY <1>5, <2>1
  <2>2. CASE i # 1
    <3>1. i - 1 \in 1 .. Len(q) /\ (<<w>> \o q)[i] = q[i - 1]
      BY <2>2
    <3>2. QED
      BY <1>6, <3>1
  <2>3. QED
    BY <2>1, <2>2
<1>8. QED
  BY <1>2, <1>4, <1>7

\* One word less.
LEMMA PopOne ==
  ASSUME NEW m, NEW s \in Offset, NEW q \in Seq(Word), q # <<>>,
         Holds(m, s, q), 2 * Len(q) <= Offsets
  PROVE  /\ Plus(s, 2) \in Offset /\ Tail(q) \in Seq(Word)
         /\ Holds(m, Plus(s, 2), Tail(q)) /\ Read16(m, s) = Head(q)
<1>1. Offsets \in Nat /\ Offsets >= 2 /\ Len(q) \in Nat /\ Len(q) >= 1
  BY TwoOffsets
<1>2. Plus(s, 0) = s /\ Plus(s, 2) \in Offset
  <2>1. /\ 0 \in -Offsets .. Offsets /\ 2 \in -Offsets .. Offsets
        /\ s \in 0 .. Offsets - 1
    BY <1>1 DEF Offset
  <2>2. Plus(s, 0) = IF s + 0 < 0 THEN s + 0 + Offsets
                     ELSE IF s + 0 < Offsets THEN s + 0 ELSE s + 0 - Offsets
    BY <2>1, PlusIs
  <2>3. QED
    BY <1>1, <2>1, <2>2, PlusIs
<1>3. Read16(m, s) = Head(q)
  BY <1>1, <1>2 DEF Holds
<1>4. ASSUME NEW i \in 1 .. Len(q) - 1
      PROVE  Read16(m, Plus(Plus(s, 2), 2 * (i - 1))) = q[i + 1]
  <2>1. /\ 2 \in -Offsets .. Offsets /\ 2 * (i - 1) \in -Offsets .. Offsets
        /\ 2 + 2 * (i - 1) = 2 * i /\ 2 * i \in -Offsets .. Offsets
    BY <1>1
  <2>2. Plus(Plus(s, 2), 2 * (i - 1)) = Plus(s, 2 * i)
    BY <2>1, PlusPlus
  <2>3. i + 1 \in DOMAIN q /\ 2 * ((i + 1) - 1) = 2 * i
    BY <1>1
  <2>4. QED
    BY <2>2, <2>3 DEF Holds
<1>5. Holds(m, Plus(s, 2), Tail(q))
  <2>1. /\ Len(Tail(q)) = Len(q) - 1 /\ Tail(q) \in Seq(Word)
        /\ \A i \in 1 .. Len(q) - 1 : Tail(q)[i] = q[i + 1]
    BY <1>1
  <2>2. DOMAIN Tail(q) = 1 .. Len(q) - 1
    BY <2>1
  <2>3. QED
    BY <1>4, <2>1, <2>2 DEF Holds
<1>6. QED
  BY <1>2, <1>3, <1>5

\* A dword goes on as two words, the high one first.
LEMMA Push32Keeps ==
  ASSUME StackInv, NEW lo \in Word, NEW hi \in Word, Push32(lo, hi)
  PROVE  StackInv'
<1> DEFINE t == Plus(sp, -2)
           m == Write16(segment, t, hi)
           k == Write16(m, Plus(t, -2), lo)
           q == <<hi>> \o pushed
<1>1. Offsets \in Nat /\ Offsets >= 2 /\ Len(pushed) \in Nat
      /\ 2 * (Len(pushed) + 2) <= Offsets /\ pushed \in Seq(Word)
  BY TwoOffsets DEF StackInv, Push32, Room
<1>2. /\ m \in [Offset -> Byte] /\ t \in Offset
      /\ q \in Seq(Word) /\ Holds(m, t, q)
  BY <1>1, PushOne DEF StackInv
<1>3. 2 * (Len(q) + 1) <= Offsets
  <2>1. Len(q) = Len(pushed) + 1
    BY <1>1
  <2>2. QED
    BY <1>1, <2>1
<1> HIDE DEF m, t, q
<1>4. /\ k \in [Offset -> Byte] /\ Plus(t, -2) \in Offset
      /\ <<lo>> \o q \in Seq(Word)
      /\ Holds(k, Plus(t, -2), <<lo>> \o q)
  BY <1>2, <1>3, PushOne
<1>5. /\ -4 \in -Offsets .. Offsets /\ -3 \in -Offsets .. Offsets
      /\ -2 \in -Offsets .. Offsets /\ -1 \in -Offsets .. Offsets
      /\ 1 \in -Offsets .. Offsets /\ 2 \in -Offsets .. Offsets
  BY <1>1
<1>6. Plus(t, -2) = Plus(sp, -4) /\ sp' = Plus(sp, -4)
      /\ sp \in Offset
  <2>1. -2 + (-2) = -4
    OBVIOUS
  <2>2. QED
    BY <1>5, <2>1, PlusPlus DEF StackInv, Push32, t
<1>7. /\ Plus(sp', 2) = t /\ Plus(sp', 1) = Plus(sp, -3)
      /\ Plus(t, 1) = Plus(sp, -1)
  <2>1. -4 + 2 = -2 /\ -4 + 1 = -3 /\ -2 + 1 = -1
    OBVIOUS
  <2>2. QED
    BY <1>5, <1>6, <2>1, PlusPlus DEF t
<1>8. segment' = k
  <2> DEFINE a == Plus(sp, -4)  b == Plus(sp, -3)
             c == Plus(sp, -2)  d == Plus(sp, -1)
  <2>1. /\ a # c /\ a # d /\ b # c /\ b # d
        /\ a \in Offset /\ b \in Offset /\ c \in Offset /\ d \in Offset
    <3>1. Offsets > 3
      BY <1>1
    <3>2. a # c /\ a # d
      BY <1>1, <1>5, <1>6, <3>1, Apart
    <3>3. b # c /\ b # d
      BY <1>1, <1>5, <1>6, <3>1, Apart
    <3>4. a \in Offset /\ b \in Offset /\ c \in Offset /\ d \in Offset
      BY <1>5, <1>6, PlusIs
    <3>5. QED
      BY <3>2, <3>3, <3>4
  <2>2. segment' = [[segment EXCEPT ![a] = lo.lo, ![b] = lo.hi]
                             EXCEPT ![c] = hi.lo, ![d] = hi.hi]
    BY <1>6, <1>7 DEF Push32, Write16, t
  <2>3. k = [[segment EXCEPT ![c] = hi.lo, ![d] = hi.hi]
                      EXCEPT ![a] = lo.lo, ![b] = lo.hi]
    BY <1>6, <1>7 DEF Write16, m, t
  <2> HIDE DEF a, b, c, d, k
  <2>4. QED
    BY <2>1, <2>2, <2>3 DEF StackInv
<1>9. pushed' = <<lo>> \o q
  <2>1. pushed' = <<lo, hi>> \o pushed
    BY DEF Push32
  <2>2. <<lo>> \in Seq(Word) /\ <<hi>> \in Seq(Word)
    OBVIOUS
  <2>3. <<lo, hi>> = <<lo>> \o <<hi>>
    <3>1. /\ <<lo>> \o <<hi>> \in Seq(Word) /\ Len(<<lo>> \o <<hi>>) = 2
          /\ (<<lo>> \o <<hi>>)[1] = lo /\ (<<lo>> \o <<hi>>)[2] = hi
      OBVIOUS
    <3>2. QED
      BY <3>1, TwoWords
  <2>4. QED
    BY <1>1, <2>1, <2>2, <2>3, ConcatAssociative DEF q
<1>10. Len(pushed') = Len(pushed) + 2
  BY <1>1 DEF Push32
<1> HIDE DEF k
<1>11. QED
  BY <1>1, <1>4, <1>6, <1>8, <1>9, <1>10 DEF StackInv, Push32

\* And comes off as two.
LEMMA Pop32Keeps ==
  ASSUME StackInv, Pop32
  PROVE  StackInv'
<1> DEFINE t == Plus(sp, 2)
<1>1. /\ Offsets \in Nat /\ Len(pushed) \in Nat /\ Len(pushed) >= 2
      /\ 2 * Len(pushed) <= Offsets /\ pushed \in Seq(Word) /\ sp \in Offset
  BY TwoOffsets DEF StackInv, Pop32
<1>2. /\ t \in Offset /\ Tail(pushed) \in Seq(Word)
      /\ Holds(segment, t, Tail(pushed))
      /\ Read16(segment, sp) = Head(pushed)
  <2>1. pushed # <<>>
    BY <1>1
  <2>2. QED
    BY <1>1, <2>1, PopOne DEF StackInv
<1>3. /\ Len(Tail(pushed)) = Len(pushed) - 1 /\ Tail(pushed) # <<>>
      /\ 2 * Len(Tail(pushed)) <= Offsets
  <2>1. Len(Tail(pushed)) = Len(pushed) - 1
    BY <1>1
  <2>2. QED
    BY <1>1, <2>1
<1> HIDE DEF t
<1>4. /\ Plus(t, 2) \in Offset /\ Tail(Tail(pushed)) \in Seq(Word)
      /\ Holds(segment, Plus(t, 2), Tail(Tail(pushed)))
      /\ Read16(segment, t) = Head(Tail(pushed))
  BY <1>1, <1>2, <1>3, PopOne
<1>5. sp' = Plus(t, 2)
  <2>1. 2 \in -Offsets .. Offsets /\ 4 \in -Offsets .. Offsets /\ 2 + 2 = 4
    BY <1>1
  <2>2. QED
    BY <1>1, <2>1, PlusPlus DEF Pop32, t
<1>6. pushed' = Tail(Tail(pushed)) /\ Len(pushed') = Len(pushed) - 2
  <2>1. pushed' = SubSeq(pushed, 3, Len(pushed))
    BY DEF Pop32
  <2>2. Tail(pushed) = SubSeq(pushed, 2, Len(pushed))
    BY <1>1, TailIsSubSeq
  <2>3. Tail(SubSeq(pushed, 2, Len(pushed))) = SubSeq(pushed, 3, Len(pushed))
    <3>1. 2 \in 1 .. Len(pushed) /\ Len(pushed) \in 2 .. Len(pushed)
          /\ 2 + 1 = 3
      BY <1>1
    <3>2. QED
      BY <1>1, <3>1, HeadTailOfSubSeq
  <2>4. Len(Tail(Tail(pushed))) = Len(Tail(pushed)) - 1
    BY <1>2, <1>3
  <2>5. pushed' = Tail(Tail(pushed))
    BY <2>1, <2>2, <2>3
  <2>6. QED
    BY <1>1, <1>3, <2>4, <2>5
<1>7. got' = due'
  <2>1. got' = <<Head(pushed), Head(Tail(pushed))>>
    BY <1>2, <1>4 DEF Pop32, t
  <2>2. due' = <<pushed[1], pushed[2]>>
    <3>1. \A i \in 1 .. 2 : pushed[i] \in Word
      BY <1>1
    <3>2. /\ SubSeq(pushed, 1, 2) \in Seq(Word)
          /\ Len(SubSeq(pushed, 1, 2)) = 2
          /\ \A i \in 1 .. 2 - 1 + 1 :
               SubSeq(pushed, 1, 2)[i] = pushed[1 + i - 1]
      BY <3>1, SubSeqProperties
    <3>3. SubSeq(pushed, 1, 2)[1] = pushed[1] /\ SubSeq(pushed, 1, 2)[2] = pushed[2]
      BY <3>2
    <3>4. pushed[1] \in Word /\ pushed[2] \in Word
      BY <3>1
    <3>5. SubSeq(pushed, 1, 2) = <<pushed[1], pushed[2]>>
      BY <3>2, <3>3, <3>4, TwoWords
    <3>6. QED
      BY <3>5 DEF Pop32
  <2>3. Head(pushed) = pushed[1] /\ Head(Tail(pushed)) = pushed[2]
    BY <1>1, <1>3
  <2>4. QED
    BY <2>1, <2>2, <2>3
<1>8. 2 * Len(pushed') <= Offsets /\ segment' = segment
  BY <1>1, <1>6 DEF Pop32
<1>9. QED
  BY <1>4, <1>5, <1>6, <1>7, <1>8 DEF StackInv

\* At first the stack is empty.
LEMMA StackStarts == StackInit => StackInv
BY StackAssumption DEF StackInit, StackInv, Holds

\* Every push and pop keeps what is on the stack.
LEMMA StackKeeps == StackInv /\ [StackNext]_stackVars => StackInv'
<1> SUFFICES ASSUME StackInv, [StackNext]_stackVars PROVE StackInv'
  OBVIOUS
<1>1. ASSUME NEW w \in Word, Push16(w) PROVE StackInv'
  <2>1. /\ segment' = Write16(segment, Plus(sp, -2), w)
        /\ sp' = Plus(sp, -2) /\ pushed' = <<w>> \o pushed
        /\ UNCHANGED <<got, due>> /\ 2 * (Len(pushed) + 1) <= Offsets
    BY <1>1 DEF Push16, Room
  <2>2. /\ segment' \in [Offset -> Byte] /\ sp' \in Offset
        /\ pushed' \in Seq(Word) /\ Holds(segment', sp', pushed')
    BY <2>1, PushOne DEF StackInv
  <2>3. Len(pushed') = Len(pushed) + 1
    BY <2>1 DEF StackInv
  <2>4. QED
    BY <2>1, <2>2, <2>3 DEF StackInv
<1>2. ASSUME NEW lo \in Word, NEW hi \in Word, Push32(lo, hi)
      PROVE  StackInv'
  BY <1>2, Push32Keeps
<1>3. CASE Pop16
  <2>1. /\ sp' = Plus(sp, 2) /\ pushed' = Tail(pushed)
        /\ segment' = segment /\ pushed # <<>>
        /\ got' = <<Read16(segment, sp)>> /\ due' = <<Head(pushed)>>
    BY <1>3 DEF Pop16
  <2>2. /\ sp' \in Offset /\ pushed' \in Seq(Word)
        /\ Holds(segment, sp', pushed') /\ Read16(segment, sp) = Head(pushed)
    BY <2>1, PopOne DEF StackInv
  <2>3. Len(pushed') = Len(pushed) - 1 /\ Len(pushed) \in Nat
    BY <2>1 DEF StackInv
  <2>4. QED
    BY <2>1, <2>2, <2>3, StackAssumption DEF StackInv
<1>4. CASE Pop32
  BY <1>4, Pop32Keeps
<1>5. ASSUME NEW n \in Offset, NEW v \in Byte, Elsewhere(n, v)
      PROVE  StackInv'
  <2>1. /\ segment' = [segment EXCEPT ![Plus(sp, n)] = v]
        /\ n \in 2 * Len(pushed) .. Offsets - 1
        /\ UNCHANGED <<sp, got, pushed, due>>
    BY <1>5 DEF Elsewhere
  <2>2. Offsets \in Nat /\ Len(pushed) \in Nat
    BY TwoOffsets DEF StackInv
  <2>3. ASSUME NEW i \in DOMAIN pushed
        PROVE  Read16(segment', Plus(sp, 2 * (i - 1))) = pushed[i]
    <3> DEFINE a == Plus(sp, 2 * (i - 1))
               b == Plus(sp, 2 * (i - 1) + 1)
    <3>1. /\ i \in 1 .. Len(pushed) /\ n \in -Offsets .. Offsets
          /\ 2 * (i - 1) \in -Offsets .. Offsets
          /\ 2 * (i - 1) + 1 \in -Offsets .. Offsets
          /\ 1 \in -Offsets .. Offsets
          /\ 2 * (i - 1) + 1 < n /\ n - 2 * (i - 1) < Offsets + 1
      BY <2>1, <2>2 DEF StackInv
    <3>2. n < Offsets /\ 2 * (i - 1) >= 0
      BY <2>1, <2>2, <3>1
    <3>3. a # Plus(sp, n) /\ b # Plus(sp, n)
      BY <2>2, <3>1, <3>2, Apart DEF StackInv
    <3>4. a \in Offset /\ b \in Offset /\ Plus(a, 1) = b
      BY <3>1, PlusIs, PlusPlus DEF StackInv
    <3>5. Read16(segment, a) = pushed[i]
      BY DEF StackInv, Holds
    <3> HIDE DEF a, b
    <3>6. segment'[a] = segment[a] /\ segment'[b] = segment[b]
      BY <2>1, <3>3, <3>4 DEF StackInv
    <3>7. Read16(segment', a) = pushed[i]
      BY <3>4, <3>5, <3>6 DEF Read16
    <3>8. QED
      BY <3>7 DEF a
  <2>4. QED
    BY <2>1, <2>3 DEF StackInv, Holds
<1>6. CASE UNCHANGED stackVars
  BY <1>6 DEF stackVars, StackInv, Holds
<1>7. QED
  BY <1>1, <1>2, <1>3, <1>4, <1>5, <1>6 DEF StackNext

\* Words and dwords come back as they went on, in a segment of any size and
\* from any SP, until more is pushed than it holds.
THEOREM StackIsStack == StackSpec => []StackGivesBack
<1>1. StackInit => StackInv
  BY StackStarts
<1>2. StackInv /\ [StackNext]_stackVars => StackInv'
  BY StackKeeps
<1>3. StackInv => StackGivesBack
  BY DEF StackInv, Holds, StackGivesBack
<1>4. QED
  BY <1>1, <1>2, <1>3, PTL DEF StackSpec

-----------------------------------------------------------------------------
(* The services together: MCServices. *)

\* The sound device's variables that DigiInv does not speak of.
LEMMA DigiTypeStays ==
  ASSUME DigiTypeOK, DigiInv', [DigiNext]_digiVars
  PROVE  DigiTypeOK'
<1>1. /\ header' \in [WaveSlot -> {"none", "queued", "done"}]
      /\ buffer' \in [WaveSlot -> Sound \cup {Silence}]
      /\ ram' \in [Spot -> Sound \cup {Silence}]
      /\ last' \in Spot \cup {Silence}
  BY DEF DigiInv
<1>2. /\ enabled \in BOOLEAN /\ device \in BOOLEAN /\ recent \in BOOLEAN
      /\ want \in Sound \cup {Silence} /\ excused \in BOOLEAN
      /\ \A p \in Spot : ram[p] \in Sound \cup {Silence}
  BY DEF DigiTypeOK
<1>3. ASSUME NEW p \in Spot, Repeat(p)
      PROVE  /\ enabled' \in BOOLEAN /\ device' \in BOOLEAN
             /\ recent' \in BOOLEAN /\ excused' \in BOOLEAN
             /\ want' \in Sound \cup {Silence}
  BY <1>2, <1>3 DEF Repeat, host
<1>4. ASSUME NEW p \in Spot, Refused(p)
      PROVE  /\ enabled' \in BOOLEAN /\ device' \in BOOLEAN
             /\ recent' \in BOOLEAN /\ excused' \in BOOLEAN
             /\ want' \in Sound \cup {Silence}
  BY <1>2, <1>4 DEF Refused, Asked
<1>5. ASSUME NEW p \in Spot, Play(p) \/ PlayFails(p)
      PROVE  /\ enabled' \in BOOLEAN /\ device' \in BOOLEAN
             /\ recent' \in BOOLEAN /\ excused' \in BOOLEAN
             /\ want' \in Sound \cup {Silence}
  <2>1. /\ enabled' = enabled /\ device' = TRUE /\ recent' = TRUE
        /\ excused' = FALSE /\ want' = ram[p]
    BY <1>5 DEF Play, PlayFails, Asked
  <2>2. QED
    BY <1>2, <2>1
<1>6. ASSUME NEW s \in WaveSlot, Finish(s)
      PROVE  UNCHANGED <<enabled, device, recent, want, excused>>
  BY <1>6 DEF Finish
<1>7. CASE Forget
  BY <1>1, <1>2, <1>7 DEF Forget, host, DigiTypeOK
<1>8. ASSUME NEW p \in Spot, NEW v \in Sound, Load(p, v)
      PROVE  /\ UNCHANGED <<enabled, device, recent, want>>
             /\ excused' \in BOOLEAN
  BY <1>2, <1>8 DEF Load, host
<1>9. CASE UNCHANGED digiVars
  BY <1>9 DEF digiVars, host, DigiTypeOK
<1>10. QED
  BY <1>1, <1>2, <1>3, <1>4, <1>5, <1>6, <1>7, <1>8, <1>9
  DEF DigiNext, DigiTypeOK

\* The flags, and what they were set by.
LEMMA FlagsTypeStays ==
  ASSUME FlagsTypeOK, FlagsInv', [FlagsNext]_flagVars
  PROVE  FlagsTypeOK'
<1>1. /\ flags' \in [CF : BOOLEAN, ZF : BOOLEAN, SF : BOOLEAN, OF : BOOLEAN,
                     AF : BOOLEAN, PF : BOOLEAN]
  BY DEF FlagsInv, FlagsType
<1>2. Modulus \in Nat \ {0} /\ Number = 0 .. Modulus - 1
  BY FlagsAssumption DEF Modulus, Number
<1>3. ASSUME NEW x \in Int PROVE x % Modulus \in Number
  BY <1>2
<1>4. 0 \in Number /\ \A a, b \in Number : a + b \in Int /\ a - b \in Int
  BY <1>2
<1>5. ASSUME NEW a \in Number, NEW b \in Number, Add(a, b) \/ Subtract(a, b)
      PROVE  FlagsTypeOK'
  <2>1. result' = (a + b) % Modulus \/ result' = (a - b) % Modulus
    BY <1>5 DEF Add, Subtract
  <2>2. result' \in Number
    BY <1>3, <1>4, <2>1
  <2>3. op' = [name |-> "add", a |-> a, b |-> b]
          \/ op' = [name |-> "sub", a |-> a, b |-> b]
    BY <1>5 DEF Add, Subtract
  <2>4. QED
    BY <1>1, <2>2, <2>3 DEF FlagsTypeOK
<1>6. ASSUME NEW r \in Number, Logic(r) \/ \E out \in BOOLEAN : Shift(r, out)
      PROVE  FlagsTypeOK'
  <2>1. /\ result' = r
        /\ op' = [name |-> "logic", a |-> r, b |-> 0]
             \/ op' = [name |-> "shift", a |-> r, b |-> 0]
    BY <1>6 DEF Logic, Shift
  <2>2. QED
    BY <1>1, <1>4, <2>1 DEF FlagsTypeOK
<1>7. CASE UNCHANGED flagVars
  BY <1>7 DEF flagVars, FlagsTypeOK
<1>8. QED
  BY <1>5, <1>6, <1>7 DEF FlagsNext

\* The stack's words, and those that came off it.
LEMMA StackTypeStays ==
  ASSUME StackInv, StackTypeOK, StackInv', [StackNext]_stackVars
  PROVE  StackTypeOK'
<1>1. /\ segment' \in [Offset -> Byte] /\ sp' \in Offset
      /\ pushed' \in Seq(Word) /\ got' = due'
  BY DEF StackInv
<1>2. pushed \in Seq(Word) /\ due \in Seq(Word)
  BY DEF StackTypeOK
<1>3. due' \in Seq(Word)
  <2>1. CASE Pop16
    <3>1. pushed # <<>> /\ due' = <<Head(pushed)>>
      BY <2>1 DEF Pop16
    <3>2. Head(pushed) \in Word
      BY <1>2, <3>1
    <3>3. QED
      BY <3>1, <3>2
  <2>2. CASE Pop32
    <3>1. Len(pushed) >= 2 /\ due' = SubSeq(pushed, 1, 2)
      BY <2>2 DEF Pop32
    <3>2. QED
      BY <1>2, <3>1
  <2>3. ASSUME ~Pop16, ~Pop32 PROVE due' = due
    BY <2>3 DEF StackNext, Push16, Push32, Elsewhere, stackVars
  <2>4. QED
    BY <1>2, <2>1, <2>2, <2>3
<1>4. QED
  BY <1>1, <1>3 DEF StackTypeOK

ServicesInv ==
  /\ TypeOK /\ SettleInv /\ SearchInv /\ MemoryInv
  /\ DigiInv /\ DigiTypeOK /\ FlagsInv /\ FlagsTypeOK
  /\ StackInv /\ StackTypeOK

\* Every variable of every service keeps its type, for any sizes their
\* assumptions allow and whatever is asked of them.
THEOREM ServicesTypeCorrect == ServicesSpec => []ServicesTypeOK
<1>1. ServicesInit => ServicesInv
  <2> SUFFICES ASSUME ServicesInit PROVE ServicesInv
    OBVIOUS
  <2>1. TypeOK /\ SettleInv /\ SearchInv /\ MemoryInv
    BY TypeInit, MouseStarts, SearchStarts, MemoryStarts DEF ServicesInit
  <2>2. DigiInv /\ FlagsInv /\ StackInv
    BY DigiStarts, FlagsStart, StackStarts DEF ServicesInit
  <2>3. DigiTypeOK
    BY <2>2 DEF ServicesInit, DigiInit, DigiInv, DigiTypeOK
  <2>4. FlagsTypeOK
    <3>1. 0 \in Number
      BY FlagsAssumption DEF Number, Modulus
    <3>2. QED
      BY <2>2, <3>1
      DEF ServicesInit, FlagsInit, FlagsInv, FlagsType, FlagsTypeOK
  <2>5. StackTypeOK
    BY <2>2 DEF ServicesInit, StackInit, StackInv, StackTypeOK
  <2>6. QED
    BY <2>1, <2>2, <2>3, <2>4, <2>5 DEF ServicesInv
<1>2. ServicesInv /\ [ServicesNext]_ServicesVars => ServicesInv'
  <2> SUFFICES ASSUME ServicesInv, [ServicesNext]_ServicesVars
               PROVE  ServicesInv'
    OBVIOUS
  <2>1. /\ [Next]_vars /\ [MouseNext]_mouseVars /\ [SearchNext]_searchVars
        /\ [MemoryNext]_memoryVars /\ [DigiNext]_digiVars
        /\ [FlagsNext]_flagVars /\ [StackNext]_stackVars
    BY DEF ServicesNext, RingStep, MouseStep, SearchStep, MemoryStep, DigiStep,
           FlagsStep, StackStep, ServicesVars
  <2>2. TypeOK' /\ SettleInv' /\ SearchInv' /\ MemoryInv'
    BY <2>1, TypeNext, MouseKeeps, SearchKeeps, MemoryKeeps DEF ServicesInv
  <2>3. DigiInv' /\ FlagsInv' /\ StackInv'
    BY <2>1, DigiKeeps, FlagsKeep, StackKeeps DEF ServicesInv
  <2>4. DigiTypeOK' /\ FlagsTypeOK' /\ StackTypeOK'
    BY <2>1, <2>3, DigiTypeStays, FlagsTypeStays, StackTypeStays
    DEF ServicesInv
  <2>5. QED
    BY <2>2, <2>3, <2>4 DEF ServicesInv
<1>3. ServicesInv => ServicesTypeOK
  BY DEF ServicesInv, SettleInv, SearchInv, MemoryInv, ServicesTypeOK
<1>4. QED
  BY <1>1, <1>2, <1>3, PTL DEF ServicesSpec
=============================================================================
