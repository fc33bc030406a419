------------------------------ MODULE Converge ------------------------------
(***************************************************************************)
(* The convergence loop (scripts/converge.ps1): lift, build, run, collect  *)
(* the addresses the dispatcher did not find, lift again.  The list is a   *)
(* file.  A run adds to it in recomp_dump_misses, which the dispatcher     *)
(* carries (tools/lift_full.py writes it): it reads the file into the      *)
(* run's own list with note_miss, truncates the file, writes the list.     *)
(* Beside it lies the list of interrupt handlers, which each run writes    *)
(* anew and the lifter reads too; here it is what it may be.               *)
(*                                                                         *)
(* The run has two threads that do this, the program's when its startup    *)
(* returns and the watchdog of src/boot.c when time is up, and the first   *)
(* to finish ends the process under the other.  The script kills a run     *)
(* that does not end.  Neither the list nor the file is locked.            *)
(***************************************************************************)
EXTENDS Naturals

CONSTANTS
  Address,  \* addresses from CODE_END on, which is the same in every build
  Base,     \* those the analyzer finds by itself
  Valid,    \* those the lifter accepts when they are on a list
  Handlers, \* those the guest may install as interrupt handlers
  Nowhere,  \* not an address
  MaxMiss   \* MAXMISS

ASSUME ConvergeAssumption ==
  /\ Address \subseteq Nat
  /\ Base \subseteq Address /\ Valid \subseteq Address
  /\ Nowhere \notin Address /\ MaxMiss \in Nat \ {0}

VARIABLES
  disk,      \* work/dino_misses.txt
  lifted,    \* what this build has in its dispatch table
  miss,      \* g_miss
  nmiss,     \* g_nmiss
  stage,     \* of each thread: see Stage
  unread,    \* the lines each thread has still to merge
  noting,    \* the address it is about to store in g_miss, and the index
  line,      \* how many addresses it has written
  disturbed, \* ghost: one of the accidents of ListGrows has happened
  ever       \* ghost: every address a finished list had

threads == <<stage, unread, noting, line>>
convergeVars == <<disk, lifted, miss, nmiss, threads, disturbed, ever>>

Runner == {"main", "watchdog"}

\* Running (main) or sleeping; merging; writing; and the process is over.
Stage == {"run", "merge", "write", "over"}

NotNoting == [addr |-> Nowhere, at |-> 0]

Listed == {miss[i] : i \in 0 .. nmiss - 1}

Fresh ==
  /\ miss' = [i \in 0 .. MaxMiss |-> Nowhere] /\ nmiss' = 0
  /\ stage' = [t \in Runner |-> "run"]
  /\ unread' = [t \in Runner |-> {}]
  /\ noting' = [t \in Runner |-> NotNoting]
  /\ line' = [t \in Runner |-> 0]

ConvergeInit ==
  /\ disk = {} /\ lifted = Base
  /\ miss = [i \in 0 .. MaxMiss |-> Nowhere] /\ nmiss = 0
  /\ stage = [t \in Runner |-> "run"]
  /\ unread = [t \in Runner |-> {}]
  /\ noting = [t \in Runner |-> NotNoting]
  /\ line = [t \in Runner |-> 0]
  /\ disturbed = FALSE /\ ever = {}

\* CODE_TOP, the highest address that is lifted, is not below a.
InRange(a) == \E b \in lifted : a <= b

\* Mutant: a full list is not noticed.
LookUnbounded(t, a) ==
  /\ noting[t] = NotNoting
  /\ noting' = [noting EXCEPT ![t] =
                  IF ~InRange(a) \/ a \in Listed THEN NotNoting
                  ELSE [addr |-> a, at |-> nmiss]]

\* note_miss: leave what is above the code alone, look the address up and find
\* the end of the list ...
Look(t, a) ==
  /\ noting[t] = NotNoting
  /\ noting' = [noting EXCEPT ![t] =
                  IF ~InRange(a) \/ a \in Listed \/ nmiss >= MaxMiss
                  THEN NotNoting
                  ELSE [addr |-> a, at |-> nmiss]]

\* ... and store it there: g_miss[g_nmiss++] = addr.  Two threads that found
\* the same end disturb each other.
Store(t) ==
  /\ noting[t] # NotNoting
  /\ miss' = [miss EXCEPT ![noting[t].at] = noting[t].addr]
  /\ nmiss' = noting[t].at + 1
  /\ noting' = [noting EXCEPT ![t] = NotNoting]
  /\ disturbed' = (disturbed \/ noting[t].at # nmiss)
  /\ UNCHANGED <<disk, lifted, stage, unread, line, ever>>

\* The guest jumps to an address that is not in the table.
Miss(a) ==
  /\ stage["main"] = "run" /\ stage["watchdog"] # "over"
  /\ a \notin lifted
  /\ Look("main", a)
  /\ UNCHANGED <<disk, lifted, miss, nmiss, stage, unread, line, disturbed,
                 ever>>

Dumping(t) == stage[t] \in {"merge", "write"}

\* Mutant: the file is not read before it is written.
StartDumpAfresh(t) ==
  /\ stage[t] = "run" /\ noting[t] = NotNoting
  /\ stage' = [stage EXCEPT ![t] = "merge"]
  /\ unread' = [unread EXCEPT ![t] = {}]
  /\ disturbed' = (disturbed \/ \E u \in Runner \ {t} : Dumping(u))
  /\ UNCHANGED <<disk, lifted, miss, nmiss, noting, line, ever>>

\* recomp_dump_misses: the startup returned, or the watchdog woke.  Both at
\* once is an accident.
StartDump(t) ==
  /\ stage[t] = "run" /\ noting[t] = NotNoting
  /\ stage' = [stage EXCEPT ![t] = "merge"]
  /\ unread' = [unread EXCEPT ![t] = disk]
  /\ disturbed' = (disturbed \/ \E u \in Runner \ {t} : Dumping(u))
  /\ UNCHANGED <<disk, lifted, miss, nmiss, noting, line, ever>>

\* A line of the file.  A list that is full drops it, and so does a build
\* whose code does not reach that far: the fourth and the fifth accident.
Merge(t, a) ==
  /\ stage[t] = "merge" /\ a \in unread[t]
  /\ Look(t, a)
  /\ unread' = [unread EXCEPT ![t] = @ \ {a}]
  /\ disturbed' = (disturbed \/ (a \notin Listed /\ (nmiss >= MaxMiss \/ ~InRange(a))))
  /\ UNCHANGED <<disk, lifted, miss, nmiss, stage, line, ever>>

\* fopen(path, "w").
Truncate(t) ==
  /\ stage[t] = "merge" /\ unread[t] = {} /\ noting[t] = NotNoting
  /\ stage' = [stage EXCEPT ![t] = "write"]
  /\ disk' = {}
  /\ UNCHANGED <<lifted, miss, nmiss, unread, noting, line, disturbed, ever>>

WriteLine(t) ==
  /\ stage[t] = "write" /\ line[t] < nmiss
  /\ disk' = disk \cup {miss[line[t]]}
  /\ line' = [line EXCEPT ![t] = @ + 1]
  /\ UNCHANGED <<lifted, miss, nmiss, stage, unread, noting, disturbed, ever>>

\* The file is closed; soon the process ends, from main or by _exit.
Close(t) ==
  /\ stage[t] = "write" /\ line[t] >= nmiss
  /\ stage' = [stage EXCEPT ![t] = "over"]
  /\ ever' = ever \cup disk
  /\ UNCHANGED <<disk, lifted, miss, nmiss, unread, noting, line, disturbed>>

\* The next round: the lifter reads both lists, the program is built anew.
\* The run is over, or the script killed it: where it was.  To be killed in
\* the middle of writing is an accident.
NextRound ==
  /\ \E vectors \in SUBSET Handlers : lifted' = Base \cup ((disk \cup vectors) \cap Valid)
  /\ disturbed' = (disturbed \/ \E t \in Runner : stage[t] = "write")
  /\ Fresh
  /\ UNCHANGED <<disk, ever>>

ConvergeNext ==
  \/ \E a \in Address : Miss(a)
  \/ \E t \in Runner :
       \/ Store(t) \/ StartDump(t) \/ Truncate(t) \/ WriteLine(t) \/ Close(t)
       \/ \E a \in Address : Merge(t, a)
  \/ NextRound

ConvergeSpec == ConvergeInit /\ [][ConvergeNext]_convergeVars

-----------------------------------------------------------------------------
ConvergeTypeOK ==
  /\ disk \subseteq Address \cup {Nowhere}
  /\ lifted \subseteq Address /\ nmiss \in 0 .. MaxMiss
  /\ miss \in [0 .. MaxMiss -> Address \cup {Nowhere}]
  /\ stage \in [Runner -> Stage]
  /\ unread \in [Runner -> SUBSET (Address \cup {Nowhere})]
  /\ noting \in [Runner -> [addr : Address \cup {Nowhere},
                            at : 0 .. MaxMiss]]
  /\ line \in [Runner -> 0 .. MaxMiss]
  /\ disturbed \in BOOLEAN /\ ever \subseteq Address \cup {Nowhere}

\* The list grows monotonically (lift_full.py:730): an address that was on a
\* finished list is on the file in every later round, whatever runs missed
\* in between and whenever they were killed - but for five accidents: a run
\* killed while it writes, two threads that dump at once, two that note at
\* once, a list that is full, and a build whose code ends below the address,
\* because a handler that was the highest is not on its own list any more.
ListGrows ==
  ~disturbed /\ (\A t \in Runner : stage[t] # "write") => ever \subseteq disk
=============================================================================
