--------------------------- MODULE RingQueueProofs ---------------------------
(***************************************************************************)
(* The ring of RingQueue is a bounded queue, whatever its size.  The state *)
(* function Contents reads the ring as a sequence; a put appends to it, a  *)
(* take removes its head, and neither disturbs the rest.                   *)
(***************************************************************************)
EXTENDS RingQueue, SequenceTheorems, TLAPS

\* The two ways the next slot can lie.
LEMMA AfterCases ==
  ASSUME NEW i \in Slot
  PROVE  After(i) = IF i = N - 1 THEN 0 ELSE i + 1
<1>1. N \in Nat \ {0}
  BY RingAssumption
<1>2. CASE i = N - 1
  BY <1>1, <1>2 DEF After
<1>3. CASE i # N - 1
  <2>1. i + 1 \in 0 .. N - 1
    BY <1>1, <1>3 DEF Slot
  <2>2. (i + 1) % N = i + 1
    BY <1>1, <2>1
  <2> QED BY <1>3, <2>2 DEF After
<1> QED BY <1>2, <1>3

\* The indices stay inside the array.
LEMMA TypeInit == Init => TypeOK
BY RingAssumption DEF Init, TypeOK, Slot

\* And no step takes them out of it.
LEMMA TypeNext == TypeOK /\ [Next]_vars => TypeOK'
<1> SUFFICES ASSUME TypeOK, [Next]_vars PROVE TypeOK'
  OBVIOUS
<1> USE DEF TypeOK
<1>0. \A i \in Slot : After(i) \in Slot
  BY AfterCases, RingAssumption DEF Slot
<1>1. ASSUME NEW v \in Value, Put(v) PROVE TypeOK'
  BY <1>0, <1>1 DEF Put
<1>2. ASSUME Take PROVE TypeOK'
  BY <1>0, <1>2 DEF Take
<1>3. ASSUME UNCHANGED vars PROVE TypeOK'
  BY <1>3 DEF vars
<1> QED BY <1>1, <1>2, <1>3 DEF Next

\* The ring is never read or written outside its slots.
THEOREM RingTypeCorrect == Spec => []TypeOK
BY TypeInit, TypeNext, PTL DEF Spec
-----------------------------------------------------------------------------
\* Read as a sequence, the ring has Count values, at most N - 1.
LEMMA ContentsType ==
  TypeOK => /\ Count \in 0 .. N - 1
            /\ \A k \in 0 .. Count - 1 : At(k) \in Value
            /\ Contents \in Seq(Value)
            /\ Len(Contents) = Count
<1> SUFFICES ASSUME TypeOK
             PROVE  /\ Count \in 0 .. N - 1
                    /\ \A k \in 0 .. Count - 1 : At(k) \in Value
                    /\ Contents \in Seq(Value)
                    /\ Len(Contents) = Count
  OBVIOUS
<1>1. Count \in 0 .. N - 1
  BY RingAssumption DEF TypeOK, Slot, Count
<1>2. ASSUME NEW k \in 0 .. Count - 1 PROVE At(k) \in Value
  BY <1>1, <1>2, RingAssumption DEF TypeOK, Slot, At, Count
<1>3. \A k \in 1 .. Count : At(k - 1) \in Value
  BY <1>1, <1>2
<1>4. Contents \in Seq(Value)
  BY <1>1, <1>3, IsASeq DEF Contents
<1>5. Len(Contents) = Count
  BY <1>1, <1>4 DEF Contents
<1> QED BY <1>1, <1>2, <1>4, <1>5

\* A put on a ring that is not full appends.
LEMMA PutAppends ==
  ASSUME TypeOK, NEW v \in Value, Put(v), After(tail) # head
  PROVE  Contents' = Append(Contents, v)
<1>1. TypeOK'
  BY TypeNext DEF Next
<1>2. PICK n \in 0 .. N - 2 : n = Count
  <2>1. After(tail) = IF tail = N - 1 THEN 0 ELSE tail + 1
    BY AfterCases DEF TypeOK
  <2>2. Count \in 0 .. N - 2
    BY <2>1, RingAssumption DEF TypeOK, Count, Slot
  <2> QED BY <2>2
<1>3. Count' = n + 1
  BY <1>2, AfterCases, RingAssumption DEF TypeOK, Put, Count, Slot
<1>4. Contents' \in Seq(Value) /\ Len(Contents') = n + 1
  <2>1. (/\ Count \in 0 .. N - 1
         /\ \A k \in 0 .. Count - 1 : At(k) \in Value
         /\ Contents \in Seq(Value)
         /\ Len(Contents) = Count)'
    BY <1>1, ContentsType, PTL
  <2> QED BY <1>3, <2>1
<1>5. Contents \in Seq(Value) /\ Len(Contents) = n
  BY <1>2, ContentsType
<1>6. /\ Append(Contents, v) \in Seq(Value)
      /\ Len(Append(Contents, v)) = n + 1
      /\ \A k \in 1 .. n : Append(Contents, v)[k] = Contents[k]
      /\ Append(Contents, v)[n + 1] = v
  BY <1>5, AppendProperties
<1>7. ASSUME NEW k \in 1 .. n PROVE Contents'[k] = Contents[k]
  <2>1. Contents'[k] = At(k - 1)' /\ Contents[k] = At(k - 1)
    BY <1>2, <1>3 DEF Contents
  <2>2. At(k - 1)' = At(k - 1)
    BY <1>2, RingAssumption DEF TypeOK, Put, At, Count, Slot
  <2> QED BY <2>1, <2>2
<1>8. Contents'[n + 1] = v
  <2>1. n + 1 \in 1 .. n + 1 /\ n + 1 - 1 = n
    BY <1>2
  <2>2. Contents'[n + 1] = At(n)'
    BY <1>3, <2>1 DEF Contents
  <2>3. At(n)' = v
    BY <1>2, RingAssumption DEF TypeOK, Put, At, Count, Slot
  <2> QED BY <2>2, <2>3
<1>9. \A k \in 1 .. n + 1 : Contents'[k] = Append(Contents, v)[k]
  <2> TAKE k \in 1 .. n + 1
  <2>1. CASE k \in 1 .. n
    BY <2>1, <1>6, <1>7
  <2>2. CASE k = n + 1
    BY <2>2, <1>6, <1>8
  <2>3. k \in 1 .. n \/ k = n + 1
    BY RingAssumption
  <2> QED BY <2>1, <2>2, <2>3
<1> QED BY <1>4, <1>6, <1>9, SeqEqual

\* A put is a put of the queue: dropped when N - 1 values are there.
LEMMA PutRefines ==
  ASSUME TypeOK, NEW v \in Value, Put(v)
  PROVE  Queue!Put(v)
<1>1. CASE After(tail) = head
  <2>1. Contents' = Contents
    BY <1>1 DEF Put, Contents, Count, At
  <2>2. Len(Contents) = N - 1
    BY <1>1, ContentsType, AfterCases, RingAssumption DEF TypeOK, Slot, Count
  <2> QED BY <2>1, <2>2 DEF Queue!Put, Put
<1>2. CASE After(tail) # head
  <2>1. Len(Contents) # N - 1
    BY <1>2, ContentsType, AfterCases, RingAssumption DEF TypeOK, Slot, Count
  <2> QED BY <1>2, <2>1, PutAppends DEF Queue!Put, Put
<1> QED BY <1>1, <1>2
\* A take from a ring that is not empty removes the oldest value.
LEMMA TakeRemovesHead ==
  ASSUME TypeOK, Take, head # tail
  PROVE  /\ Contents # <<>>
         /\ slots[head] = Head(Contents)
         /\ Contents' = Tail(Contents)
<1>1. TypeOK'
  BY TypeNext DEF Next
<1>2. PICK n \in 1 .. N - 1 : n = Count
  <2>1. Count \in 1 .. N - 1
    BY RingAssumption DEF TypeOK, Count, Slot
  <2> QED BY <2>1
<1>3. Count' = n - 1
  <2>1. After(head) = IF head = N - 1 THEN 0 ELSE head + 1
    BY AfterCases DEF TypeOK
  <2> QED BY <1>2, <2>1, RingAssumption DEF TypeOK, Take, Count, Slot
<1>4. Contents' \in Seq(Value) /\ Len(Contents') = n - 1
  <2>1. (/\ Count \in 0 .. N - 1
         /\ \A k \in 0 .. Count - 1 : At(k) \in Value
         /\ Contents \in Seq(Value)
         /\ Len(Contents) = Count)'
    BY <1>1, ContentsType, PTL
  <2> QED BY <1>3, <2>1
<1>5. Contents \in Seq(Value) /\ Len(Contents) = n /\ Contents # <<>>
  BY <1>2, ContentsType, RingAssumption
<1>6. /\ Tail(Contents) \in Seq(Value)
      /\ Len(Tail(Contents)) = n - 1
      /\ \A k \in 1 .. n - 1 : Tail(Contents)[k] = Contents[k + 1]
  BY <1>5, HeadTailProperties
<1>7. slots[head] = Head(Contents)
  <2>1. Head(Contents) = Contents[1]
    BY <1>5
  <2>2. 1 \in 1 .. n /\ 1 - 1 = 0
    BY <1>2, RingAssumption
  <2>3. Contents[1] = At(0)
    BY <1>2, <2>2 DEF Contents
  <2>4. At(0) = slots[head]
    BY RingAssumption DEF At, TypeOK, Slot
  <2> QED BY <2>1, <2>3, <2>4
<1>8. ASSUME NEW k \in 1 .. n - 1 PROVE Contents'[k] = Tail(Contents)[k]
  <2>1. k + 1 \in 1 .. n /\ k + 1 - 1 = k /\ k - 1 \in Nat
    BY <1>2, RingAssumption
  <2>2. Contents'[k] = At(k - 1)'
    BY <1>3 DEF Contents
  <2>3. Contents[k + 1] = At(k)
    BY <1>2, <2>1 DEF Contents
  <2>4. At(k - 1)' = At(k)
    <3>1. After(head) = IF head = N - 1 THEN 0 ELSE head + 1
      BY AfterCases DEF TypeOK
    <3> QED BY <3>1, <1>2, RingAssumption DEF TypeOK, Take, At, Count, Slot
  <2> QED BY <1>6, <2>2, <2>3, <2>4
<1> QED BY <1>4, <1>5, <1>6, <1>7, <1>8, SeqEqual

\* A take from the ring takes the head of the queue.
LEMMA TakeRefines ==
  ASSUME TypeOK, Take
  PROVE  Queue!Take
<1>1. CASE head = tail
  <2>1. Len(Contents) = 0 /\ Contents \in Seq(Value)
    BY <1>1, ContentsType DEF Count, TypeOK, Slot
  <2>2. Contents = <<>>
    BY <2>1, EmptySeq
  <2>3. Contents' = Contents
    BY <1>1 DEF Take, Contents, Count, At
  <2> QED BY <1>1, <2>2, <2>3 DEF Queue!Take, Take
<1>2. CASE head # tail
  BY <1>2, TakeRemovesHead DEF Queue!Take, Take
<1> QED BY <1>1, <1>2

\* The ring, of any size and for any values, implements the bounded queue:
\* g_keyq and the game's key ring hand keys on in order, whole, and drop only
\* the one that finds no room.
THEOREM RingIsQueue == Spec => KeepsQueue
<1>1. Init => Queue!Init
  <2> SUFFICES ASSUME Init PROVE Queue!Init
    OBVIOUS
  <2>1. Count = 0
    BY DEF Init, Count
  <2>2. Len(Contents) = 0 /\ Contents \in Seq(Value)
    BY <2>1, TypeInit, ContentsType
  <2> QED BY <2>2, EmptySeq DEF Init, Queue!Init
<1>2. TypeOK /\ [Next]_vars => [Queue!Next]_<<Contents, answer>>
  <2> SUFFICES ASSUME TypeOK, [Next]_vars
               PROVE  [Queue!Next]_<<Contents, answer>>
    OBVIOUS
  <2>1. ASSUME NEW v \in Value, Put(v) PROVE Queue!Next
    BY <2>1, PutRefines DEF Queue!Next
  <2>2. ASSUME Take PROVE Queue!Next
    BY <2>2, TakeRefines DEF Queue!Next
  <2>3. ASSUME UNCHANGED vars PROVE UNCHANGED <<Contents, answer>>
    BY <2>3 DEF vars, Contents, Count, At
  <2> QED BY <2>1, <2>2, <2>3 DEF Next
<1> QED BY <1>1, <1>2, RingTypeCorrect, PTL DEF Spec, KeepsQueue, Queue!Spec
=============================================================================
