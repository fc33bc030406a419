--------------------------- MODULE KeyboardProofs ---------------------------
(***************************************************************************)
(* Proofs about Keyboard.tla, for any set of keys, any size of the two     *)
(* rings, any DINO_KEYS script, any services of the game's INT 8 handler   *)
(* and any number of messages that wait for a pump.                        *)
(*                                                                         *)
(* The inductive invariants are the properties themselves, each with the   *)
(* types: that a release is not forgotten is said of the whole way from    *)
(* the window to the game at once, and so it survives each hop of it.      *)
(***************************************************************************)
EXTENDS Keyboard, SequenceTheorems, TLAPS

Message == KeyEvent \cup {Close}

-----------------------------------------------------------------------------
(* Types.                                                                  *)

\* The script is a sequence of keys, and not an empty one.
LEMMA ScriptType == Script \in Seq(Code) /\ Len(Script) \in Nat \ {0}
<1>1. NamedScript \in Seq(Code) /\ Len(NamedScript) \in Nat \ {0}
  BY KeyboardAssumption, EmptySeq
<1>2. <<Space>> \in Seq(Code) /\ Len(<<Space>>) = 1
  BY KeyboardAssumption
<1> QED BY <1>1, <1>2 DEF Script

\* Putting one more at the end of a sequence.
LEMMA Appended ==
  ASSUME NEW S, NEW q \in Seq(S), NEW e \in S
  PROVE  /\ Append(q, e) \in Seq(S)
         /\ Len(q) \in Nat
         /\ Len(Append(q, e)) = Len(q) + 1
         /\ \A i \in 1 .. Len(q) : Append(q, e)[i] = q[i]
         /\ Append(q, e)[Len(q) + 1] = e
OBVIOUS

\* Pushing keeps the queue a sequence of its elements with a slot to spare.
LEMMA PushType ==
  ASSUME NEW q \in Seq(KeyEvent), Len(q) < HostSize, NEW e \in KeyEvent
  PROVE  Push(q, e) \in Seq(KeyEvent) /\ Len(Push(q, e)) < HostSize
<1>1. Len(q) \in Nat /\ HostSize \in Nat
  BY KeyboardAssumption
<1>2. Append(q, e) \in Seq(KeyEvent) /\ Len(Append(q, e)) = Len(q) + 1
  BY Appended
<1> QED BY <1>1, <1>2 DEF Push

\* key_inject keeps the types of what it writes.
LEMMA InjectType ==
  ASSUME TypeOK, NEW c \in Code, NEW up \in BOOLEAN, Inject(c, up)
  PROVE  /\ held' \in [Code -> BOOLEAN] /\ pending' \in Code \cup {0}
         /\ ring' \in Seq(Code) /\ Len(ring') < RingSize
<1>1. /\ ring \in Seq(Code) /\ Len(ring) < RingSize /\ Len(ring) \in Nat
      /\ RingSize \in Nat
  BY KeyboardAssumption DEF TypeOK
<1>2. Append(ring, c) \in Seq(Code) /\ Len(Append(ring, c)) = Len(ring) + 1
  BY <1>1, Appended
<1>3. ring' \in Seq(Code) /\ Len(ring') < RingSize
  BY <1>1, <1>2 DEF Inject
<1> QED BY <1>3 DEF Inject, TypeOK

\* A message posted leaves the messages a sequence of messages.
LEMMA PostType ==
  ASSUME TypeOK, InHand, NEW e \in Message, Post(e)
  PROVE  messages' \in Seq(Message) /\ Len(messages') <= MaxMessages
<1>1. messages \in Seq(Message) /\ Len(messages) \in Nat /\ Len(messages) < MaxMessages
  BY DEF TypeOK, InHand, Message
<1>2. Append(messages, e) \in Seq(Message) /\ Len(Append(messages, e)) = Len(messages) + 1
  BY <1>1, Appended
<1> QED BY <1>1, <1>2, KeyboardAssumption DEF Post

\* Taking the first off the messages, or off the queue.
LEMMA TailType ==
  ASSUME NEW S, NEW q \in Seq(S), q # <<>>
  PROVE  /\ Head(q) \in S /\ Head(q) = q[1]
         /\ Tail(q) \in Seq(S)
         /\ Len(q) \in Nat \ {0} /\ Len(Tail(q)) = Len(q) - 1
         /\ \A i \in 1 .. Len(q) - 1 : Tail(q)[i] = q[i + 1]
<1>1. Len(q) \in Nat \ {0}
  BY EmptySeq
<1>2. Tail(q) \in Seq(S) /\ Head(q) \in S /\ Len(Tail(q)) = Len(q) - 1
  BY HeadTailProperties
<1>3. \A i \in 1 .. Len(Tail(q)) : Tail(q)[i] = q[i + 1]
  BY HeadTailProperties
<1>4. Head(q) = q[1]
  OBVIOUS
<1>5. Len(Tail(q)) = Len(q) - 1 /\ \A i \in 1 .. Len(q) - 1 : Tail(q)[i] = q[i + 1]
  BY <1>2, <1>3
<1> QED BY <1>1, <1>2, <1>4, <1>5

\* The types hold before the first interrupt.
LEMMA TypeInit == Init => TypeOK
<1> SUFFICES ASSUME Init PROVE TypeOK
  OBVIOUS
<1>1. 1 \in 1 .. Len(Script)
  BY ScriptType
<1>2. /\ messages \in Seq(KeyEvent \cup {Close}) /\ Len(messages) = 0
      /\ keyq \in Seq(KeyEvent) /\ Len(keyq) = 0
      /\ ring \in Seq(Code) /\ Len(ring) = 0
  BY EmptySeq DEF Init
<1>3. /\ Len(messages) <= MaxMessages /\ Len(keyq) < HostSize /\ Len(ring) < RingSize
  BY <1>2, KeyboardAssumption
<1>4. /\ held \in [Code -> BOOLEAN] /\ lost \in [Code -> BOOLEAN]
  BY DEF Init
<1>5. key_i \in 1 .. Len(Script) /\ use_script \in -1 .. 1
  BY <1>1 DEF Init
<1> QED BY <1>2, <1>3, <1>4, <1>5 DEF Init, TypeOK, Phase, Service, Idle

\* Every step keeps the types.
LEMMA TypeNext == TypeOK /\ [Next]_vars => TypeOK'
<1> SUFFICES ASSUME TypeOK, [Next]_vars PROVE TypeOK'
  OBVIOUS
<1> USE DEF Service, Idle, Phase
<1> USE KeyboardAssumption
<1>0. UNCHANGED named => Script' = Script
  BY DEF Script
<1>1. ASSUME NEW c \in Typed, Press(c) PROVE TypeOK'
  <2>1. c \in Code /\ [code |-> c, up |-> FALSE] \in Message
    BY DEF Message, KeyEvent
  <2>2. messages' \in Seq(Message) /\ Len(messages') <= MaxMessages
    BY <1>1, <2>1, PostType DEF Press
  <2> QED BY <1>0, <1>1, <2>1, <2>2 DEF Press, Machine, TypeOK, Message
<1>2. ASSUME NEW c \in Typed, Release(c) PROVE TypeOK'
  <2>1. c \in Code /\ [code |-> c, up |-> TRUE] \in Message
    BY DEF Message, KeyEvent
  <2>2. messages' \in Seq(Message) /\ Len(messages') <= MaxMessages
    BY <1>2, <2>1, PostType DEF Release
  <2> QED BY <1>0, <1>2, <2>1, <2>2 DEF Release, Machine, TypeOK, Message
<1>3. CASE FocusChange
  BY <1>0, <1>3 DEF FocusChange, Machine, TypeOK
<1>4. CASE CloseWindow
  <2>1. messages \in Seq(Message) /\ Close \in Message /\ Len(messages) < MaxMessages
    BY <1>4 DEF TypeOK, Message, CloseWindow, InHand
  <2>2. messages' \in Seq(Message) /\ Len(messages') = Len(messages) + 1 /\ Len(messages) \in Nat
    BY <1>4, <2>1, Appended DEF CloseWindow
  <2> QED BY <1>0, <1>4, <2>1, <2>2 DEF CloseWindow, Machine, TypeOK, Message
<1>5. CASE ReadRing
  <2>1. ring \in Seq(Code) /\ ring # <<>> /\ Len(ring) < RingSize /\ ring' = Tail(ring)
    BY <1>5 DEF ReadRing, TypeOK
  <2>2. Tail(ring) \in Seq(Code) /\ Len(Tail(ring)) = Len(ring) - 1 /\ Len(ring) \in Nat
    BY <2>1, TailType
  <2>3. ring' \in Seq(Code) /\ Len(ring') < RingSize
    BY <2>1, <2>2
  <2> QED BY <1>0, <1>5, <2>3 DEF ReadRing, world, script, control, TypeOK
<1>6. ASSUME NEW s \in Service, NEW due \in BOOLEAN, Interrupt(s, due) PROVE TypeOK'
  BY <1>0, <1>6 DEF Interrupt, AtRest, world, guest, script, TypeOK
<1>7. ASSUME NEW s \in IsrService, NEW due \in BOOLEAN, TimerIsr(s, due) PROVE TypeOK'
  BY <1>0, <1>7 DEF TimerIsr, AtRest, world, guest, script, TypeOK
<1>8. CASE PumpKey
  <2>1. messages \in Seq(Message) /\ messages # <<>> /\ Len(messages) <= MaxMessages
    BY <1>8 DEF PumpKey, TypeOK, Message
  <2>2. /\ Head(messages) \in Message /\ Tail(messages) \in Seq(Message)
        /\ Len(Tail(messages)) = Len(messages) - 1 /\ Len(messages) \in Nat
    BY <2>1, TailType
  <2>3. Head(messages) \in KeyEvent
    BY <1>8, <2>2 DEF PumpKey, Message
  <2>4. keyq' \in Seq(KeyEvent) /\ Len(keyq') < HostSize
    BY <1>8, <2>3, PushType DEF PumpKey, TypeOK
  <2>5. lost' \in [Code -> BOOLEAN]
    BY <1>8 DEF PumpKey, TypeOK
  <2>6. messages' \in Seq(Message) /\ Len(messages') <= MaxMessages
    BY <1>8, <2>1, <2>2 DEF PumpKey
  <2> QED BY <1>0, <1>8, <2>4, <2>5, <2>6
          DEF PumpKey, world, guest, script, control, TypeOK, Message
<1>9. CASE PumpClose
  <2>1. messages \in Seq(Message) /\ messages # <<>> /\ Len(messages) <= MaxMessages
    BY <1>9 DEF PumpClose, TypeOK, Message
  <2>2. /\ Tail(messages) \in Seq(Message)
        /\ Len(Tail(messages)) = Len(messages) - 1 /\ Len(messages) \in Nat
    BY <2>1, TailType
  <2>3. messages' \in Seq(Message) /\ Len(messages') <= MaxMessages
    BY <1>9, <2>1, <2>2 DEF PumpClose
  <2> QED BY <1>0, <1>9, <2>3 DEF PumpClose, world, guest, script, control, TypeOK, Message
<1>10. CASE PumpEnd
  BY <1>0, <1>10 DEF PumpEnd, guest, script, TypeOK
<1>11. CASE Drain
  <2>1. /\ keyq \in Seq(KeyEvent) /\ keyq # <<>> /\ Len(keyq) < HostSize
        /\ keyq' = Tail(keyq) /\ Inject(Head(keyq).code, Head(keyq).up)
    BY <1>11 DEF Drain, TypeOK
  <2>2. /\ Head(keyq) \in KeyEvent /\ Tail(keyq) \in Seq(KeyEvent)
        /\ Len(Tail(keyq)) = Len(keyq) - 1 /\ Len(keyq) \in Nat
    BY <2>1, TailType
  <2>3. Head(keyq).code \in Code /\ Head(keyq).up \in BOOLEAN
    BY <2>2 DEF KeyEvent
  <2>4. /\ held' \in [Code -> BOOLEAN] /\ pending' \in Code \cup {0}
        /\ ring' \in Seq(Code) /\ Len(ring') < RingSize
    BY <2>1, <2>3, InjectType
  <2>5. keyq' \in Seq(KeyEvent) /\ Len(keyq') < HostSize
    BY <2>1, <2>2
  <2> QED BY <1>0, <1>11, <2>4, <2>5 DEF Drain, world, script, control, TypeOK
<1>12. CASE ScriptIdle
  BY <1>0, <1>12 DEF ScriptIdle, Decided, AfterKeyTick, world, guest, TypeOK
<1>13. CASE ScriptTypes
  <2>1. Script \in Seq(Code) /\ Len(Script) \in Nat \ {0} /\ key_i \in 1 .. Len(Script)
    BY ScriptType DEF TypeOK
  <2>2. Script[key_i] \in Code
    BY <2>1, ElementOfSeq
  <2>3. /\ held' \in [Code -> BOOLEAN] /\ pending' \in Code \cup {0}
        /\ ring' \in Seq(Code) /\ Len(ring') < RingSize
    BY <1>13, <2>2, InjectType DEF ScriptTypes, TypeOK
  <2>4. key_i' \in 1 .. Len(Script) /\ Script' = Script
    BY <1>0, <1>13, <2>1 DEF ScriptTypes
  <2>5. phase' \in Phase /\ use_script' \in -1 .. 1
    BY <1>13 DEF ScriptTypes, Decided, AfterKeyTick
  <2> QED BY <1>13, <2>3, <2>4, <2>5 DEF ScriptTypes, world, TypeOK
<1>14. CASE TimerDone
  BY <1>0, <1>14 DEF TimerDone, AtRest, world, guest, script, TypeOK
<1>15. CASE Peek \/ Take \/ Mode13 \/ Other
  BY <1>0, <1>15 DEF Peek, Take, Mode13, Other, Return, AtRest, world, guest, script, TypeOK
<1>16. CASE UNCHANGED vars
  BY <1>0, <1>16 DEF vars, TypeOK
<1>17. CASE RetracePoll
  BY <1>0, <1>17 DEF RetracePoll, AtRest, world, guest, script, TypeOK
<1> QED BY <1>1, <1>2, <1>3, <1>4, <1>5, <1>6, <1>7, <1>8, <1>9, <1>10, <1>11, <1>12,
           <1>13, <1>14, <1>15, <1>16, <1>17 DEF Next, Handler

\* Every variable keeps its type, whatever the person, the script and the
\* timer do: in particular neither ring ever fills its last slot, and the
\* script never runs past its last key.
THEOREM KeyboardTypeCorrect == Spec => []TypeOK
<1> QED BY TypeInit, TypeNext, PTL DEF Spec

-----------------------------------------------------------------------------
(* The word INT 16h answers with.                                          *)

\* key_inject never takes the waiting key away.
LEMMA InjectKeeps ==
  ASSUME TypeOK, NEW c \in Code, NEW up, Inject(c, up), pending # 0
  PROVE  pending' # 0
BY KeyboardAssumption DEF Inject

\* A key that INT 16h announced is there until it is taken: no step of the
\* window, the script, the timer or the game's own handler removes it.
LEMMA PeekedNext ==
  ASSUME TypeOK, PeekedKeyIsThere, [Next]_vars
  PROVE  PeekedKeyIsThere'
<1> USE DEF PeekedKeyIsThere
<1>1. CASE UNCHANGED <<pending, promised>>
  BY <1>1
<1>2. CASE Drain
  <2>1. keyq \in Seq(KeyEvent) /\ keyq # <<>>
    BY <1>2 DEF Drain, TypeOK
  <2>2. Head(keyq) \in KeyEvent
    BY <2>1, TailType
  <2>3. Head(keyq).code \in Code
    BY <2>2 DEF KeyEvent
  <2> QED BY <1>2, <2>3, InjectKeeps DEF Drain
<1>3. CASE ScriptTypes
  <2>1. Script[key_i] \in Code
    BY ScriptType, ElementOfSeq DEF TypeOK
  <2> QED BY <1>3, <2>1, InjectKeeps DEF ScriptTypes
<1>4. CASE Peek \/ Take
  BY <1>4 DEF Peek, Take, guest
<1>5. CASE \/ \E c \in Typed : Press(c) \/ Release(c)
           \/ FocusChange \/ CloseWindow \/ ReadRing
  BY <1>5 DEF Press, Release, FocusChange, CloseWindow, ReadRing, Machine
<1>6. CASE RetracePoll \/ \E s \in Service, due \in BOOLEAN : Interrupt(s, due) \/ TimerIsr(s, due)
  BY <1>6 DEF RetracePoll, Interrupt, TimerIsr, AtRest, guest
<1>7. CASE PumpKey \/ PumpClose \/ PumpEnd \/ ScriptIdle \/ TimerDone \/ Mode13 \/ Other
  BY <1>7 DEF PumpKey, PumpClose, PumpEnd, ScriptIdle, TimerDone, Mode13, Other, AtRest, guest
<1> QED BY <1>1, <1>2, <1>3, <1>4, <1>5, <1>6, <1>7, KeyboardAssumption
        DEF Next, Handler, vars, Service

\* A program that asked INT 16h whether a key waits and was told so gets one
\* when it takes it.
THEOREM PeekedKeyStays == Spec => []PeekedKeyIsThere
<1>1. Init => PeekedKeyIsThere
  BY DEF Init, PeekedKeyIsThere
<1>2. TypeOK /\ PeekedKeyIsThere /\ [Next]_vars => PeekedKeyIsThere'
  BY PeekedNext
<1> QED BY <1>1, <1>2, KeyboardTypeCorrect, PTL DEF Spec

-----------------------------------------------------------------------------
(* What is last said of a key.                                             *)

\* Of a sequence q of messages: the last that speaks of c is a release, and
\* when none does, k holds.
LastIsUp(q, c, k) ==
  LET said == {i \in 1 .. Len(q) : q[i].code = c}
  IN  IF said = {} THEN k
      ELSE \E i \in said : q[i].up /\ \A j \in said : j <= i

\* One more message changes what is last said only of its own key.
LEMMA LastAppended ==
  ASSUME NEW q \in Seq(Message), NEW e \in Message, NEW c, NEW k \in BOOLEAN,
         \/ e.code # c /\ LastIsUp(q, c, k)
         \/ e.code = c /\ e.up
  PROVE  LastIsUp(Append(q, e), c, k)
<1> DEFINE r == Append(q, e)
<1>1. /\ Len(q) \in Nat /\ Len(r) = Len(q) + 1
      /\ \A i \in 1 .. Len(q) : r[i] = q[i]
      /\ r[Len(q) + 1] = e
  BY Appended
<1> SUFFICES LastIsUp(r, c, k)
  OBVIOUS
<1> HIDE DEF r
<1>2. CASE e.code = c /\ e.up
  BY <1>1, <1>2 DEF LastIsUp
<1>3. CASE e.code # c /\ LastIsUp(q, c, k)
  <2>1. {i \in 1 .. Len(r) : r[i].code = c} = {i \in 1 .. Len(q) : q[i].code = c}
    BY <1>1, <1>3
  <2> QED BY <1>1, <1>3, <2>1 DEF LastIsUp
<1> QED BY <1>2, <1>3

\* b is a without its element d.
Without(a, b, d) ==
  /\ Len(b) = Len(a) - 1
  /\ \A i \in 1 .. Len(b) : b[i] = IF i < d THEN a[i] ELSE a[i + 1]

\* A message taken out changes what is last said only of its own key, and not
\* even of that when something later is said of it.
LEMMA LastWithout ==
  ASSUME NEW a, NEW b, Len(a) \in Nat, NEW d \in 1 .. Len(a), Without(a, b, d),
         NEW c, NEW k \in BOOLEAN, LastIsUp(a, c, k),
         a[d].code # c \/ \E j \in 1 .. Len(a) : j > d /\ a[j].code = c
  PROVE  LastIsUp(b, c, k)
<1> DEFINE inA == {i \in 1 .. Len(a) : a[i].code = c}
           inB == {i \in 1 .. Len(b) : b[i].code = c}
<1>1. /\ Len(b) = Len(a) - 1 /\ Len(b) \in Nat
      /\ \A i \in 1 .. Len(b) : b[i] = IF i < d THEN a[i] ELSE a[i + 1]
  BY DEF Without
<1>2. \A i \in inB : (i < d /\ i \in inA) \/ (i >= d /\ i + 1 \in inA)
  BY <1>1
<1>3. \A i \in inA : i < d => i \in inB
  BY <1>1
<1>4. \A i \in inA : i > d => i - 1 \in inB /\ b[i - 1] = a[i]
  <2> SUFFICES ASSUME NEW i \in inA, i > d PROVE i - 1 \in inB /\ b[i - 1] = a[i]
    OBVIOUS
  <2>1. i \in 1 .. Len(a) /\ a[i].code = c /\ i - 1 \in 1 .. Len(b) /\ ~(i - 1 < d)
    BY <1>1
  <2>2. b[i - 1] = a[(i - 1) + 1]
    BY <1>1, <2>1
  <2> QED BY <2>1, <2>2
<1>5. CASE inA = {}
  <2>1. inB = {}
    BY <1>2, <1>5
  <2> QED BY <1>5, <2>1 DEF LastIsUp
<1>6. CASE inA # {}
  <2>1. PICK i \in inA : a[i].up /\ \A j \in inA : j <= i
    BY <1>6 DEF LastIsUp
  <2>2. i # d
    BY <2>1
  <2>3. CASE i < d
    <3>1. i \in inB /\ b[i] = a[i]
      BY <1>1, <1>3, <2>1, <2>3
    <3>2. \A j \in inB : j <= i
      BY <1>2, <2>1, <2>3
    <3> QED BY <2>1, <3>1, <3>2 DEF LastIsUp
  <2>4. CASE i > d
    <3>1. i - 1 \in inB /\ b[i - 1] = a[i]
      BY <1>4, <2>1, <2>4
    <3>2. \A j \in inB : j <= i - 1
      BY <1>2, <2>1, <2>4
    <3> QED BY <2>1, <3>1, <3>2 DEF LastIsUp
  <2> QED BY <2>2, <2>3, <2>4
<1> QED BY <1>5, <1>6

\* When the first message is taken, and speaks of c: it was a release, or a
\* later one is the last of c.
LEMMA LastFirst ==
  ASSUME NEW a, NEW b, Len(a) \in Nat, Len(a) # 0, Without(a, b, 1),
         NEW c, NEW k \in BOOLEAN, LastIsUp(a, c, k), a[1].code = c,
         NEW m \in BOOLEAN, a[1].up => m
  PROVE  LastIsUp(b, c, m)
<1> DEFINE inA == {i \in 1 .. Len(a) : a[i].code = c}
           inB == {i \in 1 .. Len(b) : b[i].code = c}
<1>1. /\ Len(b) = Len(a) - 1 /\ Len(b) \in Nat
      /\ \A i \in 1 .. Len(b) : b[i] = a[i + 1]
  BY DEF Without
<1>2. 1 \in inA
  OBVIOUS
<1>3. PICK i \in inA : a[i].up /\ \A j \in inA : j <= i
  BY <1>2 DEF LastIsUp
<1>4. \A j \in inB : j + 1 \in inA
  BY <1>1
<1>5. CASE i = 1
  <2>1. inB = {}
    BY <1>3, <1>4, <1>5
  <2> QED BY <1>3, <1>5, <2>1 DEF LastIsUp
<1>6. CASE i # 1
  <2>1. i - 1 \in inB /\ b[i - 1] = a[i]
    <3>1. i \in 1 .. Len(a) /\ a[i].code = c /\ i - 1 \in 1 .. Len(b)
      BY <1>1, <1>6
    <3>2. b[i - 1] = a[(i - 1) + 1]
      BY <1>1, <3>1
    <3> QED BY <3>1, <3>2
  <2>2. \A j \in inB : j <= i - 1
    BY <1>3, <1>4
  <2> QED BY <1>3, <2>1, <2>2 DEF LastIsUp
<1> QED BY <1>5, <1>6

-----------------------------------------------------------------------------
(* What is on its way, hop by hop.                                         *)

\* The two queues, one behind the other.
LEMMA TwoQueues ==
  ASSUME NEW S, NEW q \in Seq(S), NEW m \in Seq(S)
  PROVE  /\ Len(q) \in Nat /\ Len(m) \in Nat
         /\ q \o m \in Seq(S) /\ Len(q \o m) = Len(q) + Len(m)
         /\ \A i \in 1 .. Len(q) : (q \o m)[i] = q[i]
         /\ \A i \in 1 .. Len(m) : (q \o m)[Len(q) + i] = m[i]
<1>1. /\ q \o m \in Seq(S) /\ Len(q \o m) = Len(q) + Len(m)
      /\ \A i \in 1 .. Len(q) + Len(m) :
            (q \o m)[i] = IF i <= Len(q) THEN q[i] ELSE m[i - Len(q)]
  BY ConcatProperties
<1>2. Len(q) \in Nat /\ Len(m) \in Nat
  BY LenProperties
<1>3. ASSUME NEW i \in 1 .. Len(m) PROVE (q \o m)[Len(q) + i] = m[i]
  <2>1. Len(q) + i \in 1 .. Len(q) + Len(m) /\ ~(Len(q) + i <= Len(q))
        /\ (Len(q) + i) - Len(q) = i
    BY <1>2
  <2> QED BY <1>1, <2>1
<1>4. \A i \in 1 .. Len(q) : (q \o m)[i] = q[i]
  BY <1>1, <1>2
<1> QED BY <1>1, <1>2, <1>3, <1>4

\* A message posted is the last of all.
LEMMA ComingPosted ==
  ASSUME NEW S, NEW q \in Seq(S), NEW m \in Seq(S), NEW e \in S
  PROVE  q \o Append(m, e) = Append(q \o m, e)
<1>1. Append(m, e) = m \o <<e>> /\ <<e>> \in Seq(S)
  OBVIOUS
<1>2. q \o m \in Seq(S)
  BY TwoQueues
<1>3. Append(q \o m, e) = (q \o m) \o <<e>>
  BY <1>2
<1> QED BY <1>1, <1>3, ConcatAssociative

\* The head of the messages moved to the end of the queue is where it was.
LEMMA ComingPumped ==
  ASSUME NEW S, NEW q \in Seq(S), NEW m \in Seq(S), m # <<>>
  PROVE  Append(q, Head(m)) \o Tail(m) = q \o m
<1>1. Append(q, Head(m)) = q \o <<Head(m)>> /\ <<Head(m)>> \in Seq(S)
  BY TailType
<1>2. m = <<Head(m)>> \o Tail(m) /\ Tail(m) \in Seq(S)
  OBVIOUS
<1> QED BY <1>1, <1>2, ConcatAssociative

\* Taking the head off the queue takes the first of all.
LEMMA ComingDrained ==
  ASSUME NEW S, NEW q \in Seq(S), NEW m \in Seq(S), q # <<>>
  PROVE  Without(q \o m, Tail(q) \o m, 1) /\ (q \o m)[1] = Head(q)
<1>1. /\ Len(q) \in Nat \ {0} /\ Len(Tail(q)) = Len(q) - 1 /\ Tail(q) \in Seq(S)
      /\ \A i \in 1 .. Len(q) - 1 : Tail(q)[i] = q[i + 1]
      /\ Head(q) = q[1]
  BY TailType
<1>2. /\ Len(m) \in Nat /\ Len(q \o m) = Len(q) + Len(m)
      /\ \A i \in 1 .. Len(q) : (q \o m)[i] = q[i]
      /\ \A i \in 1 .. Len(m) : (q \o m)[Len(q) + i] = m[i]
  BY TwoQueues
<1>3. /\ Len(Tail(q) \o m) = Len(Tail(q)) + Len(m)
      /\ \A i \in 1 .. Len(Tail(q)) : (Tail(q) \o m)[i] = Tail(q)[i]
      /\ \A i \in 1 .. Len(m) : (Tail(q) \o m)[Len(Tail(q)) + i] = m[i]
  BY <1>1, TwoQueues
<1>4. ASSUME NEW i \in 1 .. Len(Tail(q) \o m)
      PROVE  (Tail(q) \o m)[i] = (q \o m)[i + 1]
  <2>1. CASE i <= Len(q) - 1
    BY <1>1, <1>2, <1>3, <2>1
  <2>2. CASE i > Len(q) - 1
    <3> DEFINE j == i - (Len(q) - 1)
    <3>1. j \in 1 .. Len(m) /\ i = Len(Tail(q)) + j /\ i + 1 = Len(q) + j
      BY <1>1, <1>2, <1>3, <2>2
    <3> HIDE DEF j
    <3> QED BY <1>2, <1>3, <3>1
  <2> QED BY <1>1, <2>1, <2>2
<1>5. Without(q \o m, Tail(q) \o m, 1)
  BY <1>1, <1>2, <1>3, <1>4 DEF Without
<1>6. (q \o m)[1] = Head(q)
  BY <1>1, <1>2
<1> QED BY <1>5, <1>6

\* Taking the head off the messages takes the one behind the whole queue.
LEMMA ComingDropped ==
  ASSUME NEW S, NEW q \in Seq(S), NEW m \in Seq(S), m # <<>>
  PROVE  /\ Len(q) + 1 \in 1 .. Len(q \o m)
         /\ Without(q \o m, q \o Tail(m), Len(q) + 1)
         /\ (q \o m)[Len(q) + 1] = Head(m)
<1>1. /\ Len(m) \in Nat \ {0} /\ Len(Tail(m)) = Len(m) - 1 /\ Tail(m) \in Seq(S)
      /\ \A i \in 1 .. Len(m) - 1 : Tail(m)[i] = m[i + 1]
      /\ Head(m) = m[1]
  BY TailType
<1>2. /\ Len(q) \in Nat /\ Len(q \o m) = Len(q) + Len(m)
      /\ \A i \in 1 .. Len(q) : (q \o m)[i] = q[i]
      /\ \A i \in 1 .. Len(m) : (q \o m)[Len(q) + i] = m[i]
  BY TwoQueues
<1>3. /\ Len(q \o Tail(m)) = Len(q) + Len(Tail(m))
      /\ \A i \in 1 .. Len(q) : (q \o Tail(m))[i] = q[i]
      /\ \A i \in 1 .. Len(Tail(m)) : (q \o Tail(m))[Len(q) + i] = Tail(m)[i]
  BY <1>1, TwoQueues
<1>4. ASSUME NEW i \in 1 .. Len(q \o Tail(m))
      PROVE  (q \o Tail(m))[i] = IF i < Len(q) + 1 THEN (q \o m)[i] ELSE (q \o m)[i + 1]
  <2>1. CASE i < Len(q) + 1
    BY <1>1, <1>2, <1>3, <2>1
  <2>2. CASE ~(i < Len(q) + 1)
    <3> DEFINE j == i - Len(q)
    <3>1. j \in 1 .. Len(Tail(m)) /\ i = Len(q) + j /\ i + 1 = Len(q) + (j + 1)
      BY <1>1, <1>2, <1>3, <2>2
    <3>2. j \in 1 .. Len(m) - 1 /\ j + 1 \in 1 .. Len(m)
      BY <1>1, <3>1
    <3> HIDE DEF j
    <3> QED BY <1>1, <1>2, <1>3, <2>2, <3>1, <3>2
  <2> QED BY <2>1, <2>2
<1>5. Without(q \o m, q \o Tail(m), Len(q) + 1)
  BY <1>1, <1>2, <1>3, <1>4 DEF Without
<1>6. Len(q) + 1 \in 1 .. Len(q \o m) /\ (q \o m)[Len(q) + 1] = Head(m)
  BY <1>1, <1>2
<1> QED BY <1>5, <1>6

-----------------------------------------------------------------------------
(* Releases.                                                               *)

\* The last that is on its way about c is a release, or nothing is and c is
\* not held, but for the script.
Remembered(c) == LastIsUp(Coming, c, held[c] => Scripted(c))

\* The property in these terms, before and after a step.
LEMMA InThoseTerms ==
  /\ ReleaseNotForgotten <=> \A c \in Code \ down : ~lost[c] => Remembered(c)
  /\ ReleaseNotForgotten' <=> \A c \in Code \ down' : ~lost'[c] => Remembered(c)'
BY DEF ReleaseNotForgotten, Remembered, LastIsUp

\* The two queues as sequences of messages.
LEMMA QueueTypes ==
  ASSUME TypeOK
  PROVE  keyq \in Seq(Message) /\ messages \in Seq(Message) /\ Coming \in Seq(Message)
<1>1. keyq \in Seq(Message) /\ messages \in Seq(Message)
  BY SeqMonotonic DEF TypeOK, Message
<1> QED BY <1>1, TwoQueues DEF Coming

\* A message of another key, or a release, is posted.
LEMMA PostedRemembered ==
  ASSUME TypeOK, NEW e \in Message, NEW c \in Code,
         messages' = Append(messages, e),
         UNCHANGED <<keyq, held, releasing, key_i, named>>,
         (e.code # c /\ Remembered(c)) \/ (e.code = c /\ e.up)
  PROVE  Remembered(c)'
<1>1. Coming' = Append(Coming, e)
  BY QueueTypes, ComingPosted DEF Coming
<1>2. Scripted(c)' = Scripted(c)
  BY DEF Scripted, Script
<1>3. LastIsUp(Append(Coming, e), c, held[c] => Scripted(c))
  BY QueueTypes, LastAppended DEF Remembered
<1> QED BY <1>1, <1>2, <1>3 DEF Remembered, LastIsUp

\* Nothing about c has changed.
LEMMA StillRemembered ==
  ASSUME NEW c \in Code, Remembered(c), Coming' = Coming,
         UNCHANGED <<held, releasing, key_i, named>>
  PROVE  Remembered(c)'
<1>1. Scripted(c)' = Scripted(c)
  BY DEF Scripted, Script
<1> QED BY <1>1 DEF Remembered, LastIsUp

\* The pump pushes a key, or finds the queue full and drops it: a release that
\* is the last of its key counts as lost then.
LEMMA PumpRemembers ==
  ASSUME TypeOK, PumpKey, NEW c \in Code \ down, ~lost'[c],
         ~lost[c] => Remembered(c)
  PROVE  Remembered(c)'
<1> DEFINE e == Head(messages)
<1>1. /\ messages \in Seq(Message) /\ messages # <<>> /\ e # Close
      /\ keyq \in Seq(Message) /\ keyq \in Seq(KeyEvent) /\ Len(keyq) < HostSize
      /\ keyq' = Push(keyq, e) /\ messages' = Tail(messages)
      /\ UNCHANGED <<held, releasing, key_i, named>>
  BY QueueTypes DEF PumpKey, TypeOK, guest, script
<1>2. /\ e \in KeyEvent /\ e = messages[1]
      /\ Len(messages) \in Nat \ {0}
  BY <1>1, TailType DEF Message
<1>3. lost \in [Code -> BOOLEAN] /\ ~lost[c]
  BY DEF PumpKey, TypeOK
<1>4. Remembered(c)
  BY <1>3
<1>5. CASE Len(keyq) # HostSize - 1
  <2>1. keyq' = Append(keyq, Head(messages))
    BY <1>1, <1>5 DEF Push
  <2>2. Coming' = Coming
    BY <1>1, <2>1, ComingPumped DEF Coming
  <2> QED BY <1>1, <1>4, <2>2, StillRemembered
<1>6. CASE Len(keyq) = HostSize - 1
  <2>1. keyq' = keyq
    BY <1>1, <1>6 DEF Push
  <2>2. LastHeard(e) => e.code # c
    <3>1. LastHeard(e) => lost' = [lost EXCEPT ![e.code] = TRUE]
      BY <2>1 DEF PumpKey
    <3> QED BY <1>3, <3>1
  <2> DEFINE n == Len(keyq) + 1
  <2>3. /\ n \in 1 .. Len(Coming) /\ Coming[n] = e
        /\ Coming' = keyq \o Tail(messages)
        /\ Without(Coming, Coming', n)
    BY <1>1, <2>1, ComingDropped DEF Coming
  <2>4. /\ Len(keyq) \in Nat /\ Len(Coming) = Len(keyq) + Len(messages)
        /\ \A i \in 1 .. Len(messages) : Coming[Len(keyq) + i] = messages[i]
    BY <1>1, TwoQueues DEF Coming
  <2>5. Len(Coming) \in Nat
    BY <1>2, <2>4
  <2>6. Coming[n].code # c \/ \E j \in 1 .. Len(Coming) : j > n /\ Coming[j].code = c
    <3>1. CASE e.code # c
      BY <2>3, <3>1
    <3>2. ASSUME e.code = c, NEW i \in 2 .. Len(messages), messages[i].code = c
          PROVE  \E j \in 1 .. Len(Coming) : j > n /\ Coming[j].code = c
      <4>1. i \in 1 .. Len(messages) /\ Len(keyq) + i \in 1 .. Len(Coming) /\ Len(keyq) + i > n
        BY <1>2, <2>4, <3>2
      <4>2. Coming[Len(keyq) + i].code = c
        BY <2>4, <3>2, <4>1
      <4> QED BY <4>1, <4>2
    <3>3. CASE e.code = c /\ \A i \in 2 .. Len(messages) : messages[i].code # c
      <4>1. ~e.up
        BY <2>2, <3>3 DEF LastHeard
      <4>2. \A j \in 1 .. Len(Coming) : Coming[j].code = c => j <= n
        <5> SUFFICES ASSUME NEW j \in 1 .. Len(Coming), j > n PROVE Coming[j].code # c
          BY <2>3
        <5> DEFINE i == j - Len(keyq)
        <5>1. i \in 2 .. Len(messages) /\ i \in 1 .. Len(messages) /\ j = Len(keyq) + i
          BY <1>2, <2>4
        <5> HIDE DEF i
        <5> QED BY <2>4, <3>3, <5>1
      <4>3. n \in {i \in 1 .. Len(Coming) : Coming[i].code = c}
        BY <2>3, <3>3
      <4>4. \E i \in 1 .. Len(Coming) : /\ Coming[i].code = c /\ Coming[i].up
                                       /\ \A j \in 1 .. Len(Coming) : Coming[j].code = c => j <= i
        BY <1>4, <4>3 DEF Remembered, LastIsUp
      <4> HIDE DEF n
      <4>5. PICK i \in 1 .. Len(Coming) : Coming[i].code = c /\ Coming[i].up /\ n <= i /\ i <= n
        BY <4>2, <4>3, <4>4
      <4>6. i = n
        BY <2>3, <4>5
      <4> QED BY <2>3, <4>1, <4>5, <4>6
    <3> QED BY <3>1, <3>2, <3>3
  <2> HIDE DEF n
  <2>7. LastIsUp(Coming', c, held[c] => Scripted(c))
    BY <1>4, <2>3, <2>5, <2>6, LastWithout DEF Remembered
  <2>8. Scripted(c)' = Scripted(c)
    BY <1>1 DEF Scripted, Script
  <2> QED BY <1>1, <2>7, <2>8 DEF Remembered, LastIsUp
<1> QED BY <1>5, <1>6

\* WM_CLOSE says nothing of a key.
LEMMA CloseRemembers ==
  ASSUME TypeOK, PumpClose, NEW c \in Code, Remembered(c)
  PROVE  Remembered(c)'
<1>1. /\ messages \in Seq(Message) /\ messages # <<>> /\ Head(messages) = Close
      /\ keyq \in Seq(Message) /\ keyq' = keyq /\ messages' = Tail(messages)
      /\ UNCHANGED <<held, releasing, key_i, named>>
  BY QueueTypes DEF PumpClose, guest, script
<1>2. /\ Len(keyq) + 1 \in 1 .. Len(Coming)
      /\ Coming[Len(keyq) + 1] = Close
      /\ Without(Coming, Coming', Len(keyq) + 1)
  BY <1>1, ComingDropped DEF Coming
<1>3. Coming[Len(keyq) + 1].code # c
  BY <1>2, KeyboardAssumption DEF Close
<1>4. Len(Coming) \in Nat
  BY QueueTypes, LenProperties
<1>5. LastIsUp(Coming', c, held[c] => Scripted(c))
  <2> DEFINE n == Len(keyq) + 1
  <2>1. n \in 1 .. Len(Coming) /\ Coming[n].code # c /\ Without(Coming, Coming', n)
    BY <1>2, <1>3
  <2> HIDE DEF n
  <2> QED BY <1>4, <2>1, LastWithout DEF Remembered
<1>6. Scripted(c)' = Scripted(c)
  BY <1>1 DEF Scripted, Script
<1> QED BY <1>1, <1>5, <1>6 DEF Remembered, LastIsUp

\* The game is told of the key that has waited longest.
LEMMA DrainRemembers ==
  ASSUME TypeOK, Drain, NEW c \in Code, Remembered(c)
  PROVE  Remembered(c)'
<1> DEFINE e == Head(keyq)
<1>1. /\ messages \in Seq(Message) /\ messages' = messages
      /\ keyq \in Seq(Message) /\ keyq # <<>> /\ keyq' = Tail(keyq)
      /\ Inject(e.code, e.up)
      /\ UNCHANGED <<releasing, key_i, named>>
  BY QueueTypes DEF Drain, script
<1>2. Without(Coming, Coming', 1) /\ Coming[1] = e
  BY <1>1, ComingDrained DEF Coming
<1>3. e \in KeyEvent
  BY <1>1, TailType DEF TypeOK
<1>4. held \in [Code -> BOOLEAN] /\ held' = [held EXCEPT ![e.code] = ~e.up]
  BY <1>1 DEF TypeOK, Inject
<1>5. Len(Coming) \in Nat /\ 1 \in 1 .. Len(Coming)
  <2>1. Len(keyq) \in Nat \ {0} /\ Len(messages) \in Nat
    BY <1>1, TailType, LenProperties
  <2>2. Len(Coming) = Len(keyq) + Len(messages)
    BY <1>1, TwoQueues DEF Coming
  <2> QED BY <2>1, <2>2
<1>6. Scripted(c)' = Scripted(c)
  BY <1>1 DEF Scripted, Script
<1>7. CASE e.code # c
  <2>1. held'[c] = held[c]
    BY <1>4, <1>7
  <2>2. LastIsUp(Coming', c, held[c] => Scripted(c))
    BY <1>2, <1>5, <1>7, LastWithout DEF Remembered
  <2> QED BY <1>6, <2>1, <2>2 DEF Remembered, LastIsUp
<1>8. CASE e.code = c
  <2>1. e.up => ~held'[c]
    BY <1>4, <1>8
  <2> DEFINE m == held'[c] => Scripted(c)
             k == held[c] => Scripted(c)
  <2>2. e.up => m
    BY <2>1
  <2>3. LastIsUp(Coming, c, k) /\ Coming[1].code = c /\ (Coming[1].up => m)
    BY <1>2, <1>8, <2>2 DEF Remembered
  <2>4. m \in BOOLEAN /\ k \in BOOLEAN
    OBVIOUS
  <2> HIDE DEF m, k
  <2>5. LastIsUp(Coming', c, m)
    BY <1>2, <1>5, <2>3, <2>4, LastFirst
  <2> QED BY <1>6, <2>5 DEF Remembered, LastIsUp, m
<1> QED BY <1>7, <1>8

\* The script presses its key and keeps it in mind, or lets go of it.
LEMMA ScriptRemembers ==
  ASSUME TypeOK, ScriptTypes, NEW c \in Code, Remembered(c)
  PROVE  Remembered(c)'
<1>1. /\ Inject(Script[key_i], releasing) /\ releasing' = ~releasing
      /\ UNCHANGED <<keyq, messages, named>>
      /\ key_i' = IF releasing /\ key_i < Len(Script) THEN key_i + 1 ELSE key_i
  BY DEF ScriptTypes
<1>2. Coming' = Coming /\ Script' = Script
  BY <1>1 DEF Coming, Script
<1>3. /\ releasing \in BOOLEAN /\ held \in [Code -> BOOLEAN]
      /\ held' = [held EXCEPT ![Script[key_i]] = ~releasing]
  BY <1>1 DEF TypeOK, Inject
<1>4. (held[c] => Scripted(c)) => (held[c] => Scripted(c))'
  <2>1. CASE c = Script[key_i]
    BY <1>1, <1>2, <1>3, <2>1 DEF Scripted
  <2>2. CASE c # Script[key_i]
    BY <1>3, <2>2 DEF Scripted
  <2> QED BY <2>1, <2>2
<1> QED BY <1>2, <1>4 DEF Remembered, LastIsUp

\* No step forgets a release.
LEMMA ReleaseNext ==
  ASSUME TypeOK, ReleaseNotForgotten, [Next]_vars
  PROVE  ReleaseNotForgotten'
<1> SUFFICES ASSUME NEW c \in Code \ down', ~lost'[c] PROVE Remembered(c)'
  BY InThoseTerms
<1>0. /\ c \in Code
      /\ c \notin down /\ ~lost[c] => Remembered(c)
      /\ lost \in [Code -> BOOLEAN]
  BY InThoseTerms DEF TypeOK
<1>1. ASSUME NEW d \in Typed, Press(d) PROVE Remembered(c)'
  <2>1. d # c /\ c \notin down /\ ~lost[c] /\ d \in Code
    BY <1>0, <1>1, KeyboardAssumption DEF Press
  <2>2. UNCHANGED <<keyq, held, releasing, key_i, named>>
    BY <1>1 DEF Press, Machine
  <2>3. CASE focus
    <3> DEFINE e == [code |-> d, up |-> FALSE]
    <3>1. e \in Message /\ e.code # c /\ messages' = Append(messages, e)
      BY <1>1, <2>1, <2>3 DEF Press, Post, Message, KeyEvent
    <3> HIDE DEF e
    <3>2. Remembered(c)
      BY <1>0, <2>1
    <3>3. (e.code # c /\ Remembered(c)) \/ (e.code = c /\ e.up)
      BY <3>1, <3>2
    <3> QED BY <1>0, <2>2, <3>1, <3>3, PostedRemembered
  <2>4. CASE ~focus
    BY <1>0, <1>1, <2>1, <2>2, <2>4, StillRemembered DEF Press, Post, Coming
  <2> QED BY <2>3, <2>4
<1>2. ASSUME NEW d \in Typed, Release(d) PROVE Remembered(c)'
  <2>1. d \in Code
    BY KeyboardAssumption
  <2>2. UNCHANGED <<keyq, held, releasing, key_i, named>>
    BY <1>2 DEF Release, Machine
  <2>3. c = d => focus
    BY <1>0, <1>2 DEF Release
  <2>4. c # d => c \notin down /\ ~lost[c]
    BY <1>0, <1>2, <2>1 DEF Release
  <2>5. CASE focus
    <3> DEFINE e == [code |-> d, up |-> TRUE]
    <3>1. e \in Message /\ e.code = d /\ e.up /\ messages' = Append(messages, e)
      BY <1>2, <2>1, <2>5 DEF Release, Post, Message, KeyEvent
    <3> HIDE DEF e
    <3> QED BY <1>0, <2>2, <2>4, <3>1, PostedRemembered
  <2>6. CASE ~focus
    BY <1>0, <1>2, <2>2, <2>3, <2>4, <2>6, StillRemembered DEF Release, Post, Coming
  <2> QED BY <2>5, <2>6
<1>3. CASE UNCHANGED <<down, lost, keyq, messages, held, releasing, key_i, named>>
  BY <1>0, <1>3, StillRemembered DEF Coming
<1>4. CASE CloseWindow
  <2>1. /\ messages' = Append(messages, Close) /\ Close \in Message /\ Close.code # c
        /\ UNCHANGED <<down, lost, keyq, held, releasing, key_i, named>>
    BY <1>4, KeyboardAssumption DEF CloseWindow, Machine, Message, Close
  <2>2. Remembered(c)
    BY <1>0, <2>1
  <2> DEFINE e == Close
  <2>3. e \in Message /\ e.code # c /\ messages' = Append(messages, e)
    BY <2>1
  <2> HIDE DEF e
  <2>4. (e.code # c /\ Remembered(c)) \/ (e.code = c /\ e.up)
    BY <2>2, <2>3
  <2> QED BY <1>0, <2>1, <2>3, <2>4, PostedRemembered
<1>5. CASE PumpKey
  BY <1>0, <1>5, PumpRemembers DEF PumpKey, world
<1>6. CASE PumpClose
  BY <1>0, <1>6, CloseRemembers DEF PumpClose, world
<1>7. CASE Drain
  BY <1>0, <1>7, DrainRemembers DEF Drain, world
<1>8. CASE ScriptTypes
  BY <1>0, <1>8, ScriptRemembers DEF ScriptTypes, world
<1>9. CASE FocusChange \/ ReadRing
  BY <1>3, <1>9 DEF FocusChange, ReadRing, Machine, world, script
<1>10. CASE RetracePoll \/ \E s \in Service, due \in BOOLEAN : Interrupt(s, due) \/ TimerIsr(s, due)
  BY <1>3, <1>10 DEF RetracePoll, Interrupt, TimerIsr, AtRest, world, guest, script
<1>11. CASE PumpEnd \/ ScriptIdle \/ TimerDone \/ Peek \/ Take \/ Mode13 \/ Other
  BY <1>3, <1>11 DEF PumpEnd, ScriptIdle, TimerDone, Peek, Take, Mode13, Other,
                     AtRest, world, guest, script
<1>12. CASE UNCHANGED vars
  BY <1>3, <1>12 DEF vars
<1> QED BY <1>1, <1>2, <1>4, <1>5, <1>6, <1>7, <1>8, <1>9, <1>10, <1>11, <1>12,
           KeyboardAssumption DEF Next, Handler, Service

\* A key the person has let go of is let go of in the game, or its release is
\* the last thing on the way about it, or was dropped by the full queue or
\* sent to another window, or the script holds the key: for queues of any
\* length and any number of keys.
THEOREM ReleasesAreNotForgotten == Spec => []ReleaseNotForgotten
<1>1. Init => ReleaseNotForgotten
  <2> SUFFICES ASSUME Init, NEW c \in Code PROVE Remembered(c)
    BY InThoseTerms
  <2>1. TypeOK /\ ~held[c] /\ keyq = <<>> /\ messages = <<>>
    BY TypeInit DEF Init
  <2>2. Len(Coming) = 0
    BY <2>1, EmptySeq DEF Coming
  <2>3. {i \in 1 .. Len(Coming) : Coming[i].code = c} = {}
    BY <2>2
  <2> QED BY <2>1, <2>3 DEF Remembered, LastIsUp
<1>2. TypeOK /\ ReleaseNotForgotten /\ [Next]_vars => ReleaseNotForgotten'
  BY ReleaseNext
<1> QED BY <1>1, <1>2, KeyboardTypeCorrect, PTL DEF Spec
=============================================================================
