----------------------------- MODULE MCServices -----------------------------
(***************************************************************************)
(* The small services of the runtime, each in a module of its own: the     *)
(* rings, the mouse, the directory searches, the allocator, the sound      *)
(* effects, and under all of them the flags and the stack of the processor *)
(* the lifted code runs on.                                                *)
(*                                                                         *)
(* They share no state, so one step of any of them leaves the others'      *)
(* invariants as they were, and it is enough to let one at a time run.     *)
(* unit says which, from the start of a behaviour to its end.              *)
(***************************************************************************)
EXTENDS RingQueue, Mouse, DosSearch, DosMemory, Digi, Flags, GuestStack

VARIABLE unit

Unit == {"ring", "mouse", "search", "memory", "digi", "flags", "stack"}

\* Those that do not run start in one of their initial states.
Standing ==
  /\ unit # "mouse" => place = CHOOSE x \in Places : TRUE
  /\ unit # "search" => area = CHOOSE d \in Area : TRUE
  /\ unit # "digi" => enabled
  /\ unit # "stack" => sp = 0

ServicesInit ==
  /\ unit \in Unit
  /\ Init /\ MouseInit /\ SearchInit /\ MemoryInit /\ DigiInit
  /\ FlagsInit /\ StackInit
  /\ Standing

ServicesVars ==
  <<unit, vars, mouseVars, searchVars, memoryVars, digiVars, flagVars,
    stackVars>>

RingStep ==
  /\ unit = "ring" /\ Next
  /\ UNCHANGED <<unit, mouseVars, searchVars, memoryVars, digiVars, flagVars,
                 stackVars>>

MouseStep ==
  /\ unit = "mouse" /\ MouseNext
  /\ UNCHANGED <<unit, vars, searchVars, memoryVars, digiVars, flagVars,
                 stackVars>>

SearchStep ==
  /\ unit = "search" /\ SearchNext
  /\ UNCHANGED <<unit, vars, mouseVars, memoryVars, digiVars, flagVars,
                 stackVars>>

MemoryStep ==
  /\ unit = "memory" /\ MemoryNext
  /\ UNCHANGED <<unit, vars, mouseVars, searchVars, digiVars, flagVars,
                 stackVars>>

DigiStep ==
  /\ unit = "digi" /\ DigiNext
  /\ UNCHANGED <<unit, vars, mouseVars, searchVars, memoryVars, flagVars,
                 stackVars>>

FlagsStep ==
  /\ unit = "flags" /\ FlagsNext
  /\ UNCHANGED <<unit, vars, mouseVars, searchVars, memoryVars, digiVars,
                 stackVars>>

StackStep ==
  /\ unit = "stack" /\ StackNext
  /\ UNCHANGED <<unit, vars, mouseVars, searchVars, memoryVars, digiVars,
                 flagVars>>

ServicesNext ==
  \/ RingStep \/ MouseStep \/ SearchStep \/ MemoryStep \/ DigiStep
  \/ FlagsStep \/ StackStep

ServicesSpec == ServicesInit /\ [][ServicesNext]_ServicesVars

\* Every variable of every service keeps its type.
ServicesTypeOK ==
  /\ TypeOK /\ MouseTypeOK /\ SearchTypeOK /\ MemoryTypeOK /\ DigiTypeOK
  /\ FlagsTypeOK /\ StackTypeOK
=============================================================================
