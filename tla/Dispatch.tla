------------------------------ MODULE Dispatch ------------------------------
(***************************************************************************)
(* The generated dispatcher (recomp_dispatch.c, written by                 *)
(* tools/lift_full.py) under lifted code, with the timer's way into it     *)
(* (run_guest_isr in src/recomp/runtime16.c).                              *)
(*                                                                         *)
(* A lifted function is a C function; the guest's stack lives beside the   *)
(* host's.  A call site pushes the return words the original would have    *)
(* pushed and calls; the callee's return takes them off again.  When the   *)
(* callee is not there, something else has to take them off: dispatch_near *)
(* and dispatch_far after a refusal, the stub of an unresolved direct      *)
(* call, run_guest_isr around a handler.  The model is SP, and one record  *)
(* for each lifted function that is running.                               *)
(*                                                                         *)
(* Three ways are left in which nothing takes them off, and the model      *)
(* marks the frame where it happens (off): a tail jump that is refused, a  *)
(* function whose lifting failed (its body is empty), and an interrupt     *)
(* simulated with pushf and a far call.  A function that restores SP from  *)
(* BP when it returns hides them from its caller.                          *)
(*                                                                         *)
(* Addresses are members of small sets; the trace is left out.             *)
(***************************************************************************)
EXTENDS Integers, Sequences, FiniteSets, Functions

CONSTANTS
  Code,       \* addresses in the dispatch table
  Framed,     \* those whose function returns with mov sp, bp
  Hollow,     \* those whose lifting failed
  Missing,    \* addresses in the range of the code and not in the table
  Outside,    \* addresses beyond it
  Null,       \* address 0
  Handlers,   \* what the guest installs for INT 8
  Budget,     \* DINO_BUDGET, 0 when it is not set
  MaxDepth,   \* 240
  MaxMiss,    \* MAXMISS
  MaxFrames,  \* bound: functions running at a time
  MaxOwn,     \* bound: bytes a function has pushed for itself
  MaxStack    \* bound: bytes on the stack

Target == Code \cup Missing \cup Outside \cup {Null}

ASSUME DispatchAssumption ==
  /\ Framed \subseteq Code /\ Hollow \subseteq Code
  /\ Null \notin Code \cup Missing \cup Outside
  /\ Code \cap (Missing \cup Outside) = {} /\ Missing \cap Outside = {}
  /\ Budget \in Nat /\ MaxDepth \in Nat /\ MaxMiss \in Nat
  /\ Handlers \subseteq Target

VARIABLES
  sp,      \* cpu->sp, from where the program began
  frames,  \* the lifted functions that are running, outermost first
  depth,   \* g_disp_depth
  budget,  \* g_disp_budget once read
  halted,  \* cpu->halted
  misses,  \* g_miss[0 .. g_nmiss-1]
  vector,  \* the guest's INT 8 handler
  inside,  \* run_guest_isr: a handler is running
  save     \* run_guest_isr: the registers to go back to

stack == <<sp, frames, depth>>
isr   == <<inside, save>>
vars  == <<sp, frames, depth, budget, halted, misses, vector, inside, save>>

Kind == {"start", "near", "far", "isr", "chain", "jump"}

\* A running function.  Its caller's level is at + width; its return takes
\* pops bytes off.
Frame == [kind : Kind, width : Nat, pops : Nat, at : Int, own : Nat,
          framed : BOOLEAN, counted : BOOLEAN, off : BOOLEAN]

\* The bytes a site pushes before it gives the control away.
Width == [near |-> 2, far |-> 4, isr |-> 6, chain |-> 6, jump |-> 0]

Last == Len(frames)
Top  == frames[Last]

Init ==
  /\ sp = 0
  /\ frames = <<[kind |-> "start", width |-> 0, pops |-> 0, at |-> 0, own |-> 0,
                 framed |-> FALSE, counted |-> FALSE, off |-> FALSE]>>
  /\ depth = 0
  /\ budget = Budget
  /\ halted = FALSE
  /\ misses = <<>>
  /\ vector = Null
  /\ inside = FALSE
  /\ save = [sp |-> 0, halted |-> FALSE]

-----------------------------------------------------------------------------
(* recomp_dispatch: the tests in its order, and what they leave behind.    *)

\* This dispatch brings the budget down to nothing.  A budget of nothing is
\* no budget at all, so the one after it is let through again.
Exhausts(t) == t # Null /\ budget = 1

TooDeep == depth > MaxDepth

Declines(t) == t = Null \/ Exhausts(t) \/ TooDeep \/ t \notin Code

\* The table was searched, and does not have t.
Unlisted(t) == t # Null /\ ~Exhausts(t) /\ ~TooDeep /\ t \notin Code

\* Mutant: an address is noted as often as it is missed.
NoteMissAgain(t) ==
  IF t \in Missing /\ Len(misses) < MaxMiss THEN Append(misses, t) ELSE misses

NoteMiss(t) ==
  IF t \in Missing /\ t \notin Range(misses) /\ Len(misses) < MaxMiss
  THEN Append(misses, t) ELSE misses

LookUp(t) ==
  /\ budget' = IF t = Null \/ budget = 0 THEN budget ELSE budget - 1
  /\ misses' = IF Unlisted(t) THEN NoteMiss(t) ELSE misses

\* A function begins: w bytes are on the stack above its caller's level, of
\* which its return takes p off.
Enter(k, w, p, t, counted) ==
  /\ sp' = sp - Width[k]
  /\ frames' = Append(frames, [kind |-> k, width |-> w, pops |-> p,
                               at |-> sp - Width[k], own |-> 0,
                               framed |-> t \in Framed, counted |-> counted,
                               off |-> FALSE])
  /\ depth' = IF counted THEN depth + 1 ELSE depth

\* Room for n more bytes, and for one more function.
Room(n) == n - sp <= MaxStack

RoomToRun == Last < MaxFrames

\* A call site goes on with n of its bytes still on the stack: of a call that
\* something repairs or stands in for, none should be.
Resume(n) == sp' = sp - n /\ UNCHANGED <<frames, depth>>

\* The same at a site that nothing repairs in full.  Bound: a function loses
\* bytes in this way once.
BackLow(n) ==
  /\ ~Top.off
  /\ sp' = sp - n
  /\ frames' = [frames EXCEPT ![Last].off = TRUE]
  /\ UNCHANGED depth

-----------------------------------------------------------------------------
(* Calls of lifted code.                                                   *)

\* Mutant: a far call is repaired like a near one.
RepairNearOnly(k) == 2

\* dispatch_near and dispatch_far, after a refusal.
Repair(k) == IF k = "near" THEN 2 ELSE 4

\* An indirect call.
CallIndirect(k, t) ==
  /\ Room(Width[k])
  /\ LookUp(t)
  /\ halted' = (halted \/ Exhausts(t))
  /\ \/ /\ Declines(t)
        /\ IF k = "chain" THEN BackLow(Width[k] - Repair(k)) ELSE Resume(Width[k] - Repair(k))
     \/ /\ ~Declines(t) /\ t \in Hollow
        /\ BackLow(Width[k])
     \/ /\ ~Declines(t) /\ t \notin Hollow /\ RoomToRun
        /\ Enter(k, Width[k], IF k = "chain" THEN 0 ELSE Width[k], t, TRUE)
  /\ UNCHANGED <<vector, isr>>

\* The old handler, called at the end of the new one: pushf, then a far call.
\* Its iret takes nothing off.
ChainOld(t) == Top.kind = "isr" /\ CallIndirect("chain", t)

\* A call that was resolved when the function was lifted.
CallDirect(k, t) ==
  /\ Room(Width[k])
  /\ \/ /\ t \in Hollow
        /\ BackLow(Width[k])
     \/ /\ t \notin Hollow /\ RoomToRun
        /\ Enter(k, Width[k], Width[k], t, FALSE)
  /\ UNCHANGED <<budget, halted, misses, vector, isr>>

\* What the stub of a target that was never resolved takes off.
StubPops(k) == IF k = "far" THEN 4 ELSE 2

CallStub(k) ==
  /\ Room(Width[k])
  /\ Resume(Width[k] - StubPops(k))
  /\ UNCHANGED <<budget, halted, misses, vector, isr>>

\* Arguments and locals.
PushOwn ==
  /\ Room(2)
  /\ Top.own + 2 <= MaxOwn
  /\ sp' = sp - 2
  /\ frames' = [frames EXCEPT ![Last].own = @ + 2]
  /\ UNCHANGED <<depth, budget, halted, misses, vector, isr>>

PopOwn ==
  /\ Top.own >= 2
  /\ sp' = sp + 2
  /\ frames' = [frames EXCEPT ![Last].own = @ - 2]
  /\ UNCHANGED <<depth, budget, halted, misses, vector, isr>>

-----------------------------------------------------------------------------
(* Returns, and the end of a handler.                                      *)

\* Mutant: a dispatched function that returns stays counted.
OuterDepthKept == depth

OuterDepth == IF Top.counted THEN depth - 1 ELSE depth

\* The frames below the top one, of which the last is off if it was before or
\* spoil says so.
Below(spoil) ==
  [i \in 1 .. Last - 1 |->
     IF i = Last - 1 /\ spoil THEN [frames[i] EXCEPT !.off = TRUE] ELSE frames[i]]

\* The running function is left, with SP at level.  For a handler,
\* run_guest_isr then puts the whole register file back.
Leave(level, spoil, stops) ==
  /\ depth' = OuterDepth
  /\ IF Top.kind = "isr"
     THEN /\ frames' = Below(FALSE)
          /\ sp' = save.sp /\ halted' = save.halted /\ inside' = FALSE
     ELSE /\ frames' = Below(spoil)
          /\ sp' = level /\ halted' = stops /\ UNCHANGED inside
  /\ UNCHANGED save

\* ret, retf or iret.
Return ==
  /\ Last > 1
  /\ IF Top.framed THEN Leave(Top.at + Top.pops, Top.kind = "chain", halted)
     ELSE Top.own = 0 /\ Leave(sp + Top.pops, Top.off \/ Top.kind = "chain", halted)
  /\ UNCHANGED <<budget, misses, vector>>

\* A jump through a pointer to another function, from one without a frame.
\* The other function's return is then this one's: it takes the return words
\* off, and this one ends with a bare return.  Refused, nobody does.
JumpIndirect(t) ==
  /\ Last > 1 /\ ~Top.framed /\ Top.own = 0
  /\ LookUp(t)
  /\ \/ /\ Declines(t) \/ t \in Hollow
        /\ Leave(sp, TRUE, halted \/ Exhausts(t))
     \/ /\ ~Declines(t) /\ t \notin Hollow /\ RoomToRun
        /\ LET heir == [kind |-> "jump", width |-> Top.pops, pops |-> Top.pops,
                        at |-> sp, own |-> 0, framed |-> t \in Framed,
                        counted |-> TRUE, off |-> FALSE]
               rest == [Top EXCEPT !.at = Top.at + Top.pops,
                                   !.width = Top.width - Top.pops, !.pops = 0]
           IN frames' = Append([frames EXCEPT ![Last] = rest], heir)
        /\ depth' = depth + 1
        /\ UNCHANGED <<sp, halted, isr>>
  /\ UNCHANGED vector

-----------------------------------------------------------------------------
(* The timer: run_guest_isr on the vector of INT 8.                        *)

\* Mutant: a handler may be interrupted by itself.
MayInterruptAlways == vector # Null

MayInterrupt == vector # Null /\ ~inside

Tick ==
  /\ MayInterrupt
  /\ LookUp(vector)
  /\ IF Declines(vector) \/ vector \in Hollow
     THEN UNCHANGED <<stack, halted, isr>>
     ELSE /\ RoomToRun /\ Room(6)
          /\ Enter("isr", 6, 0, vector, TRUE)
          /\ save' = [sp |-> sp, halted |-> halted]
          /\ inside' = TRUE
          /\ UNCHANGED halted
  /\ UNCHANGED vector

\* INT 21h, AH=25h for INT 8.
SetVector(t) ==
  /\ vector' = t
  /\ UNCHANGED <<stack, budget, halted, misses, isr>>

-----------------------------------------------------------------------------
Next ==
  \/ \E t \in Target, k \in {"near", "far"} : CallIndirect(k, t)
  \/ \E t \in Target : ChainOld(t)
  \/ \E t \in Code, k \in {"near", "far"} : CallDirect(k, t)
  \/ \E k \in {"near", "far"} : CallStub(k)
  \/ \E t \in Target : JumpIndirect(t)
  \/ PushOwn
  \/ PopOwn
  \/ Return
  \/ Tick
  \/ \E t \in Handlers : SetVector(t)

Spec == Init /\ [][Next]_vars

-----------------------------------------------------------------------------
(* Properties.                                                             *)

\* Every variable has its type.  The list of misses has each address once,
\* only addresses in the range of the code, and is no longer than the array.
TypeOK ==
  /\ sp \in Int
  /\ frames \in Seq(Frame) /\ frames # <<>>
  /\ depth \in 0 .. MaxDepth + 1
  /\ budget \in 0 .. Budget
  /\ halted \in BOOLEAN
  /\ misses \in Seq(Missing) /\ Len(misses) <= MaxMiss
  /\ \A i, j \in DOMAIN misses : misses[i] = misses[j] => i = j
  /\ vector \in Handlers \cup {Null}
  /\ inside \in BOOLEAN
  /\ save \in [sp : Int, halted : BOOLEAN]

\* SP after everything frame i has called so far, as far as it is running.
LevelOf(i) == IF i = Last THEN sp ELSE frames[i + 1].at + frames[i + 1].width

\* The stack is level: a function that is not off finds SP where it was when
\* it began, less what it pushed itself, whatever it called, found or refused,
\* through a pointer, a stub or a tail jump, and whatever handler ran in
\* between.  This is what the comments at dispatch_near and dispatch_far ask
\* for: "the caller reads its own locals off that stack".
Level ==
  \A i \in DOMAIN frames : ~frames[i].off => LevelOf(i) = frames[i].at - frames[i].own

\* The depth the cap looks at is the number of functions running that were
\* dispatched, through jumps, handlers and refusals alike; so recursion
\* through the dispatcher is bounded and the cap comes off again.
DepthCounts == depth = Cardinality({i \in DOMAIN frames : frames[i].counted})

\* One handler runs at a time, and inside says whether one does: it is not
\* left set by a refused dispatch, which would stop the clock for good.  What
\* will be put back is the level at which it was interrupted.
OneHandler ==
  /\ inside <=> \E i \in DOMAIN frames : frames[i].kind = "isr"
  /\ \A i, j \in DOMAIN frames : frames[i].kind = "isr" /\ frames[j].kind = "isr" => i = j
  /\ \A i \in DOMAIN frames :
       frames[i].kind = "isr" => save.sp = frames[i].at + frames[i].width

=============================================================================
