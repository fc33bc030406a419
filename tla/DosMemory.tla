------------------------------ MODULE DosMemory ------------------------------
(***************************************************************************)
(* The memory calls of INT 21h: 48h allocates paragraphs, 49h frees them,  *)
(* 4Ah resizes a block (int_handler in src/recomp/runtime16.c).            *)
(*                                                                         *)
(* The allocator only ever moves up: a block is never used again, and a    *)
(* resize is granted without looking.  Segments are 16 bits wide.          *)
(***************************************************************************)
EXTENDS Integers

CONSTANTS
  HeapLo, HeapHi,  \* HEAP_LO, HEAP_HI: segments
  Width16,         \* 2^16: values of a 16-bit register
  Sizes            \* what the guest asks for in BX

ASSUME MemoryAssumption ==
  /\ Width16 \in Nat
  /\ HeapLo \in Nat /\ HeapHi \in HeapLo .. Width16 - 1
  /\ Sizes \subseteq 0 .. Width16 - 1

VARIABLES
  heapNext,  \* g_heap_next
  blocks,    \* ghost: the blocks given out, as records
  largest,   \* what the last refusal offered in BX, 0 before any
  grown      \* ghost: a resize was granted past the end of its block

memoryVars == <<heapNext, blocks, largest, grown>>

MemoryInit ==
  heapNext = HeapLo /\ blocks = {} /\ largest = 0 /\ grown = FALSE

Avail == (HeapHi - heapNext) % Width16

\* Mutant: the request is not compared with what is left.
AllocateAny(want) ==
  /\ blocks' = blocks \cup {[seg |-> heapNext, len |-> want]}
  /\ heapNext' = (heapNext + want) % Width16
  /\ UNCHANGED <<largest, grown>>

\* 48h.
Allocate(want) ==
  /\ want <= Avail
  /\ blocks' = blocks \cup {[seg |-> heapNext, len |-> want]}
  /\ heapNext' = (heapNext + want) % Width16
  /\ UNCHANGED <<largest, grown>>

\* 48h, insufficient memory: BX says how much there is.
AllocateRefused(want) ==
  /\ want > Avail
  /\ largest' = Avail
  /\ UNCHANGED <<heapNext, blocks, grown>>

\* 49h: there is no reuse, the call only says it was done.
FreeBlock(b) ==
  /\ blocks' = blocks \ {b}
  /\ UNCHANGED <<heapNext, largest, grown>>

\* 4Ah: always granted.
Resize(b, want) ==
  /\ blocks' = (blocks \ {b}) \cup {[seg |-> b.seg, len |-> want]}
  /\ grown' = (grown \/ want > b.len)
  /\ UNCHANGED <<heapNext, largest>>

MemoryNext ==
  \/ \E want \in Sizes : Allocate(want) \/ AllocateRefused(want)
  \/ \E b \in blocks : FreeBlock(b) \/ \E want \in Sizes : Resize(b, want)

MemorySpec == MemoryInit /\ [][MemoryNext]_memoryVars

-----------------------------------------------------------------------------
Block == [seg : HeapLo .. HeapHi, len : 0 .. Width16 - 1]

MemoryTypeOK ==
  /\ heapNext \in HeapLo .. HeapHi /\ blocks \subseteq Block
  /\ largest \in 0 .. Width16 - 1 /\ grown \in BOOLEAN

Disjoint(b, c) == b.seg + b.len <= c.seg \/ c.seg + c.len <= b.seg

\* No two blocks overlap and none leaves the heap, whatever is asked for,
\* freed and shrunk and in whatever order, 0FFFFh included: until a resize
\* is granted past the end of its block, which the code never refuses.
BlocksDisjoint ==
  ~grown => /\ \A b \in blocks : b.seg >= HeapLo /\ b.seg + b.len <= heapNext
            /\ \A b, c \in blocks : b = c \/ Disjoint(b, c)
=============================================================================
