---------------------------- MODULE MusicProofs ----------------------------
(***************************************************************************)
(* Proofs about Xmi.tla and Music.tla, for any tunes, any size of the      *)
(* table, any number of threads, and a host that may or may not block a    *)
(* player for longer than music_stop waits.                                *)
(*                                                                         *)
(* First what the parser makes of a tune.  The functions it is written     *)
(* with are recursive; a set of numbers that has 0 and, with each, the     *)
(* next one has them all (UpTo), and that is all the induction there is.   *)
(* Then the sort, which is a count of what comes before.  Then the player. *)
(***************************************************************************)
EXTENDS Music, FiniteSetTheorems, SequenceTheorems, WellFoundedInduction, TLAPS

Kinds == {"on", "off", "other"}
Msg   == [tick : Nat, order : Nat, kind : Kinds, note : Note]

\* Whatever holds at 0 and is handed from each number to the next one holds up
\* to n.
LEMMA UpTo ==
  ASSUME NEW n \in Nat, NEW S, 0 \in S, \A i \in 1 .. n : i - 1 \in S => i \in S
  PROVE  \A i \in 0 .. n : i \in S
<1> SUFFICES ASSUME NEW b \in 0 .. n, b \notin S PROVE FALSE
  OBVIOUS
<1> DEFINE T == (0 .. n) \ S
<1>1. T \subseteq Nat /\ T # {}
  OBVIOUS
<1>2. PICK x \in T : \A y \in T : ~ (<<y, x>> \in OpToRel(<, Nat))
  <2> HIDE DEF T
  <2> QED BY <1>1, NatLessThanWellFounded, WFMin
<1>3. \A y \in T : ~(y < x)
  BY <1>1, <1>2 DEF OpToRel
<1>4. x \in 0 .. n /\ x \notin S /\ x # 0
  BY <1>2
<1>5. x - 1 \in T
  BY <1>4
<1> QED BY <1>3, <1>4, <1>5

\* The parts of an item.
LEMMA ItemParts ==
  ASSUME NEW items \in Seq(Items), NEW i \in 1 .. Len(items)
  PROVE  /\ items[i].kind \in {"skip", "other", "note"} /\ items[i].note \in Note
         /\ items[i].delay \in Nat /\ items[i].dur \in Nat
<1>1. items[i] \in Items
  BY ElementOfSeq
<1> QED BY <1>1 DEF Items

-----------------------------------------------------------------------------
(* The ticks.                                                              *)

\* The recursive definition of the ticks has a solution, and so it says what
\* it seems to say.
LEMMA TickIs ==
  ASSUME NEW items \in Seq(Items)
  PROVE  Tick(items) = [i \in 0 .. Len(items) |->
                          IF i = 0 THEN 0 ELSE Tick(items)[i - 1] + items[i].delay]
<1> DEFINE n == Len(items)
           Upto(f, k) == f = [i \in 0 .. k |-> IF i = 0 THEN 0 ELSE f[i - 1] + items[i].delay]
           S == {k \in 0 .. n : \E f : Upto(f, k)}
<1>1. n \in Nat
  BY LenProperties
<1>2. 0 \in S
  <2> DEFINE f == [i \in 0 .. 0 |-> 0]
  <2>1. Upto(f, 0)
    OBVIOUS
  <2> HIDE DEF Upto, f
  <2> QED BY <1>1, <2>1
<1>3. ASSUME NEW k \in 1 .. n, k - 1 \in S PROVE k \in S
  <2>1. PICK f : Upto(f, k - 1)
    BY <1>3
  <2> DEFINE g == [i \in 0 .. k |-> IF i = k THEN f[k - 1] + items[k].delay ELSE f[i]]
  <2>2. \A i \in 0 .. k - 1 : g[i] = f[i]
    OBVIOUS
  <2>3. ASSUME NEW i \in 0 .. k
        PROVE  g[i] = IF i = 0 THEN 0 ELSE g[i - 1] + items[i].delay
    <3>1. CASE i = k
      <4>1. g[i] = f[k - 1] + items[k].delay /\ g[i - 1] = f[k - 1] /\ i # 0
        BY <2>2, <3>1
      <4> QED BY <3>1, <4>1
    <3>2. CASE i # k
      <4>1. i \in 0 .. k - 1 /\ g[i] = f[i]
        BY <2>2, <3>2
      <4>2. f[i] = IF i = 0 THEN 0 ELSE f[i - 1] + items[i].delay
        BY <2>1, <4>1
      <4>3. i # 0 => g[i - 1] = f[i - 1]
        BY <2>2, <4>1
      <4> QED BY <4>1, <4>2, <4>3
    <3> QED BY <3>1, <3>2
  <2>4. Upto(g, k)
    <3>1. g = [i \in 0 .. k |-> g[i]]
      OBVIOUS
    <3> HIDE DEF g
    <3> QED BY <2>3, <3>1
  <2> HIDE DEF Upto, g
  <2> QED BY <2>4
<1>4. n \in S
  <2> HIDE DEF S
  <2> QED BY <1>1, <1>2, <1>3, UpTo
<1>5. \E f : Upto(f, n)
  BY <1>4
<1> QED BY <1>5 DEF Tick

\* Ticks are numbers.
LEMMA TickType ==
  ASSUME NEW items \in Seq(Items)
  PROVE  \A i \in 0 .. Len(items) : Tick(items)[i] \in Nat
<1> DEFINE n == Len(items)
           T == Tick(items)
           S == {i \in 0 .. n : T[i] \in Nat}
<1>1. n \in Nat
  BY LenProperties
<1>2. T = [i \in 0 .. n |-> IF i = 0 THEN 0 ELSE T[i - 1] + items[i].delay]
  BY TickIs
<1> HIDE DEF T
<1>3. 0 \in S
  BY <1>1, <1>2
<1>4. ASSUME NEW i \in 1 .. n, i - 1 \in S PROVE i \in S
  <2>1. items[i].delay \in Nat
    BY ItemParts
  <2>2. T[i] = T[i - 1] + items[i].delay
    BY <1>2
  <2> QED BY <1>4, <2>1, <2>2
<1> HIDE DEF n
<1>5. \A i \in 0 .. n : i \in S
  <2> HIDE DEF S
  <2> QED BY <1>1, <1>3, <1>4, UpTo
<1> QED BY <1>5 DEF n, T

-----------------------------------------------------------------------------
(* One item after another.                                                 *)

\* An off stands right behind the on it answers, in the order of the table.
Pair(t, j, k) ==
  /\ j \in 1 .. Len(t) /\ k = j + 1
  /\ t[j].kind = "on" /\ t[k].kind = "off"
  /\ t[j].note = t[k].note /\ t[j].tick <= t[k].tick

\* A table as emit leaves it.
Made(t) ==
  /\ t \in Seq(Msg) /\ Len(t) <= MaxEvents
  /\ \A k \in 1 .. Len(t) :
        /\ t[k].order = k - 1
        /\ t[k].kind = "off" => Pair(t, k - 1, k)

\* None of its notes has lost its off.
Whole(t) ==
  \A j \in 1 .. Len(t) : t[j].kind = "on" => j + 1 \in 1 .. Len(t) /\ Pair(t, j, j + 1)

\* How many messages an item makes.
Makes(item) == CASE item.kind = "skip"  -> 0
                 [] item.kind = "other" -> 1
                 [] item.kind = "note"  -> 2

\* emit appends one message, or none when the table is full.
LEMMA EmitIs ==
  ASSUME NEW t \in Seq(Msg), Len(t) <= MaxEvents,
         NEW tick \in Nat, NEW kind \in Kinds, NEW note \in Note
  PROVE  LET r == Emit(t, tick, kind, note)
         IN  /\ Len(t) \in Nat
             /\ r \in Seq(Msg) /\ Len(r) <= MaxEvents
             /\ Len(t) >= MaxEvents => r = t
             /\ Len(t) < MaxEvents =>
                  /\ Len(r) = Len(t) + 1
                  /\ \A i \in 1 .. Len(t) : r[i] = t[i]
                  /\ r[Len(t) + 1] = Message(tick, Len(t), kind, note)
<1>1. Len(t) \in Nat /\ MaxEvents \in Nat
  BY LenProperties, MusicAssumption
<1> DEFINE e == Message(tick, Len(t), kind, note)
<1>2. e \in Msg
  BY <1>1 DEF Message, Msg
<1> HIDE DEF e
<1>3. /\ Append(t, e) \in Seq(Msg) /\ Len(Append(t, e)) = Len(t) + 1
      /\ \A i \in 1 .. Len(t) : Append(t, e)[i] = t[i]
      /\ Append(t, e)[Len(t) + 1] = e
  BY <1>2
<1>4. Emit(t, tick, kind, note) = IF Len(t) >= MaxEvents THEN t ELSE Append(t, e)
  BY DEF Emit, e
<1> QED BY <1>1, <1>3, <1>4 DEF e

\* A note's two messages go in together, or its on goes in last, or neither.
LEMMA NoteMade ==
  ASSUME NEW t, Made(t), NEW tick \in Nat, NEW dur \in Nat, NEW note \in Note
  PROVE  LET r == Emit(Emit(t, tick, "on", note), tick + dur, "off", note)
         IN  /\ Made(r)
             /\ (Whole(t) /\ Len(t) + 2 <= MaxEvents) => Whole(r) /\ Len(r) = Len(t) + 2
<1> DEFINE q == Emit(t, tick, "on", note)
           r == Emit(q, tick + dur, "off", note)
           n == Len(t)
<1>1. t \in Seq(Msg) /\ n <= MaxEvents /\ n \in Nat /\ MaxEvents \in Nat
  BY LenProperties, MusicAssumption DEF Made
<1>2. /\ q \in Seq(Msg) /\ Len(q) <= MaxEvents
      /\ n >= MaxEvents => q = t
      /\ n < MaxEvents =>
           /\ Len(q) = n + 1
           /\ \A i \in 1 .. n : q[i] = t[i]
           /\ q[n + 1] = Message(tick, n, "on", note)
  BY <1>1, EmitIs DEF Kinds
<1> HIDE DEF q
<1>3. /\ r \in Seq(Msg) /\ Len(r) <= MaxEvents
      /\ Len(q) >= MaxEvents => r = q
      /\ Len(q) < MaxEvents =>
           /\ Len(r) = Len(q) + 1
           /\ \A i \in 1 .. Len(q) : r[i] = q[i]
           /\ r[Len(q) + 1] = Message(tick + dur, Len(q), "off", note)
  <2> DEFINE d == tick + dur
  <2>1. d \in Nat /\ "off" \in Kinds
    BY DEF Kinds
  <2> HIDE DEF d
  <2>2. LET e == Emit(q, d, "off", note)
        IN  /\ e \in Seq(Msg) /\ Len(e) <= MaxEvents
            /\ Len(q) >= MaxEvents => e = q
            /\ Len(q) < MaxEvents =>
                  /\ Len(e) = Len(q) + 1
                  /\ \A i \in 1 .. Len(q) : e[i] = q[i]
                  /\ e[Len(q) + 1] = Message(d, Len(q), "off", note)
    BY <1>2, <2>1, EmitIs
  <2> QED BY <2>2 DEF d
<1> HIDE DEF r
<1>4. \A k \in 1 .. n : t[k].order = k - 1 /\ (t[k].kind = "off" => Pair(t, k - 1, k))
  BY DEF Made
<1> HIDE DEF n
<1>5. CASE n >= MaxEvents
  <2>1. r = t
    BY <1>1, <1>2, <1>3, <1>5 DEF n
  <2> QED BY <1>1, <1>5, <2>1 DEF q, r, n
<1>6. CASE n + 1 = MaxEvents
  <2>1. /\ r \in Seq(Msg) /\ Len(r) = n + 1
        /\ \A i \in 1 .. n : r[i] = t[i]
        /\ r[n + 1] = Message(tick, n, "on", note)
    BY <1>1, <1>2, <1>3, <1>6
  <2>2. ASSUME NEW k \in 1 .. Len(r)
        PROVE  r[k].order = k - 1 /\ (r[k].kind = "off" => Pair(r, k - 1, k))
    <3>1. CASE k = n + 1
      BY <1>1, <2>1, <3>1 DEF Message
    <3>2. CASE k \in 1 .. n
      <4>1. r[k] = t[k] /\ t[k].order = k - 1 /\ (t[k].kind = "off" => Pair(t, k - 1, k))
        BY <1>4, <2>1, <3>2
      <4>2. Pair(t, k - 1, k) => Pair(r, k - 1, k)
        BY <1>1, <2>1, <3>2 DEF Pair, n
      <4> QED BY <4>1, <4>2
    <3> QED BY <1>1, <2>1, <3>1, <3>2
  <2>3. Made(r)
    BY <1>3, <2>1, <2>2 DEF Made
  <2>4. ~(n + 2 <= MaxEvents)
    BY <1>1, <1>6
  <2> QED BY <2>3, <2>4 DEF q, r, n
<1>7. CASE n + 2 <= MaxEvents
  <2>1. /\ r \in Seq(Msg) /\ Len(r) = n + 2 /\ Len(r) <= MaxEvents
        /\ \A i \in 1 .. n : r[i] = t[i]
        /\ r[n + 1] = Message(tick, n, "on", note)
        /\ r[n + 2] = Message(tick + dur, n + 1, "off", note)
    <3>1. Len(q) = n + 1 /\ Len(q) < MaxEvents /\ n < MaxEvents
      BY <1>1, <1>2, <1>7
    <3> QED BY <1>1, <1>2, <1>3, <3>1
  <2>2. Pair(r, n + 1, n + 2)
    BY <1>1, <2>1 DEF Pair, Message
  <2>3. ASSUME NEW k \in 1 .. Len(r)
        PROVE  r[k].order = k - 1 /\ (r[k].kind = "off" => Pair(r, k - 1, k))
    <3>1. CASE k = n + 1
      BY <1>1, <2>1, <3>1 DEF Message
    <3>2. CASE k = n + 2
      <4>1. r[k].order = k - 1 /\ k - 1 = n + 1
        BY <1>1, <2>1, <3>2 DEF Message
      <4> QED BY <2>2, <3>2, <4>1
    <3>3. CASE k \in 1 .. n
      <4>1. r[k] = t[k] /\ t[k].order = k - 1 /\ (t[k].kind = "off" => Pair(t, k - 1, k))
        BY <1>4, <2>1, <3>3
      <4>2. Pair(t, k - 1, k) => Pair(r, k - 1, k)
        BY <1>1, <2>1, <3>3 DEF Pair, n
      <4> QED BY <4>1, <4>2
    <3> QED BY <1>1, <2>1, <3>1, <3>2, <3>3
  <2>4. Made(r)
    BY <2>1, <2>3 DEF Made
  <2>5. ASSUME Whole(t), NEW j \in 1 .. Len(r), r[j].kind = "on"
        PROVE  j + 1 \in 1 .. Len(r) /\ Pair(r, j, j + 1)
    <3>1. CASE j = n + 1
      <4>1. j + 1 = n + 2 /\ j + 1 \in 1 .. Len(r)
        BY <1>1, <2>1, <3>1
      <4> QED BY <2>2, <3>1, <4>1
    <3>2. CASE j = n + 2
      BY <2>1, <2>5, <3>2 DEF Message
    <3>3. CASE j \in 1 .. n
      <4>1. r[j] = t[j] /\ j + 1 \in 1 .. n /\ Pair(t, j, j + 1)
        BY <2>1, <2>5, <3>3 DEF Whole, n
      <4>2. Pair(r, j, j + 1)
        BY <1>1, <2>1, <3>3, <4>1 DEF Pair, n
      <4> QED BY <1>1, <2>1, <4>1, <4>2
    <3> QED BY <1>1, <2>1, <3>1, <3>2, <3>3
  <2>6. Whole(t) => Whole(r)
    BY <2>5 DEF Whole
  <2> QED BY <2>1, <2>4, <2>6 DEF q, r, n
<1> QED BY <1>1, <1>5, <1>6, <1>7

\* A message that is neither on nor off changes nothing of the others.
LEMMA OtherMade ==
  ASSUME NEW t, Made(t), NEW tick \in Nat, NEW note \in Note
  PROVE  LET r == Emit(t, tick, "other", note)
         IN  /\ Made(r)
             /\ (Whole(t) /\ Len(t) + 1 <= MaxEvents) => Whole(r) /\ Len(r) = Len(t) + 1
<1> DEFINE r == Emit(t, tick, "other", note)
           n == Len(t)
<1>1. t \in Seq(Msg) /\ n <= MaxEvents /\ n \in Nat /\ MaxEvents \in Nat
  BY LenProperties, MusicAssumption DEF Made
<1>2. /\ r \in Seq(Msg) /\ Len(r) <= MaxEvents
      /\ n >= MaxEvents => r = t
      /\ n < MaxEvents =>
           /\ Len(r) = n + 1
           /\ \A i \in 1 .. n : r[i] = t[i]
           /\ r[n + 1] = Message(tick, n, "other", note)
  BY <1>1, EmitIs DEF Kinds
<1>3. \A k \in 1 .. n : t[k].order = k - 1 /\ (t[k].kind = "off" => Pair(t, k - 1, k))
  BY DEF Made
<1> HIDE DEF n, r
<1>4. CASE n >= MaxEvents
  <2>1. r = t /\ ~(n + 1 <= MaxEvents)
    BY <1>1, <1>2, <1>4
  <2> QED BY <2>1 DEF r, n
<1>5. CASE n < MaxEvents
  <2>1. /\ r \in Seq(Msg) /\ Len(r) = n + 1 /\ Len(r) <= MaxEvents
        /\ \A i \in 1 .. n : r[i] = t[i]
        /\ r[n + 1] = Message(tick, n, "other", note)
    BY <1>2, <1>5
  <2>2. ASSUME NEW k \in 1 .. Len(r)
        PROVE  r[k].order = k - 1 /\ (r[k].kind = "off" => Pair(r, k - 1, k))
    <3>1. CASE k = n + 1
      <4>1. r[k].order = n /\ r[k].kind = "other" /\ k - 1 = n
        BY <1>1, <2>1, <3>1 DEF Message
      <4> QED BY <4>1
    <3>2. CASE k \in 1 .. n
      <4>1. r[k] = t[k] /\ t[k].order = k - 1 /\ (t[k].kind = "off" => Pair(t, k - 1, k))
        BY <1>3, <2>1, <3>2
      <4>2. Pair(t, k - 1, k) => Pair(r, k - 1, k)
        BY <1>1, <2>1, <3>2 DEF Pair, n
      <4> QED BY <4>1, <4>2
    <3> QED BY <1>1, <2>1, <3>1, <3>2
  <2>3. Made(r)
    BY <2>1, <2>2 DEF Made
  <2>4. ASSUME Whole(t), NEW j \in 1 .. Len(r), r[j].kind = "on"
        PROVE  j + 1 \in 1 .. Len(r) /\ Pair(r, j, j + 1)
    <3>1. CASE j = n + 1
      BY <2>1, <2>4, <3>1 DEF Message
    <3>2. CASE j \in 1 .. n
      <4>1. r[j] = t[j] /\ j + 1 \in 1 .. n /\ Pair(t, j, j + 1)
        BY <2>1, <2>4, <3>2 DEF Whole, n
      <4>2. Pair(r, j, j + 1)
        BY <1>1, <2>1, <3>2, <4>1 DEF Pair, n
      <4> QED BY <1>1, <2>1, <4>1, <4>2
    <3> QED BY <1>1, <2>1, <3>1, <3>2
  <2>5. Whole(t) => Whole(r)
    BY <2>4 DEF Whole
  <2> QED BY <2>1, <2>3, <2>5 DEF r, n
<1> QED BY <1>1, <1>4, <1>5

\* One item more.
LEMMA ItemMade ==
  ASSUME NEW t, Made(t), NEW tick \in Nat, NEW item \in Items
  PROVE  LET r == EmitItem(t, tick, item)
         IN  /\ Made(r)
             /\ (Whole(t) /\ Len(t) + Makes(item) <= MaxEvents)
                  => Whole(r) /\ Len(r) = Len(t) + Makes(item)
<1>1. /\ item.kind \in {"skip", "other", "note"} /\ item.note \in Note /\ item.dur \in Nat
      /\ Len(t) \in Nat
  BY LenProperties DEF Items, Made
<1>2. CASE item.kind = "skip"
  <2>1. EmitItem(t, tick, item) = t /\ Makes(item) = 0
    BY <1>2 DEF EmitItem, Makes
  <2> QED BY <1>1, <2>1
<1>3. CASE item.kind = "other"
  <2>1. EmitItem(t, tick, item) = Emit(t, tick, "other", item.note) /\ Makes(item) = 1
    BY <1>3 DEF EmitItem, Makes
  <2> QED BY <1>1, <2>1, OtherMade
<1>4. CASE item.kind = "note"
  <2>1. /\ EmitItem(t, tick, item) =
             Emit(Emit(t, tick, "on", item.note), tick + item.dur, "off", item.note)
        /\ Makes(item) = 2
    BY <1>4 DEF EmitItem, Makes
  <2> DEFINE r == Emit(Emit(t, tick, "on", item.note), tick + item.dur, "off", item.note)
  <2>2. Made(r) /\ ((Whole(t) /\ Len(t) + 2 <= MaxEvents) => Whole(r) /\ Len(r) = Len(t) + 2)
    BY <1>1, NoteMade
  <2>3. EmitItem(t, tick, item) = r
    BY <2>1
  <2> HIDE DEF r
  <2> QED BY <2>1, <2>2, <2>3
<1> QED BY <1>1, <1>2, <1>3, <1>4

\* The recursive definition of the table has a solution.
LEMMA CollectedIs ==
  ASSUME NEW items \in Seq(Items)
  PROVE  Collected(items) =
           [i \in 0 .. Len(items) |->
              IF i = 0 THEN <<>>
              ELSE EmitItem(Collected(items)[i - 1], Tick(items)[i], items[i])]
<1> DEFINE n == Len(items)
           Upto(f, k) == f = [i \in 0 .. k |-> IF i = 0 THEN <<>>
                                ELSE EmitItem(f[i - 1], Tick(items)[i], items[i])]
           S == {k \in 0 .. n : \E f : Upto(f, k)}
<1>1. n \in Nat
  BY LenProperties
<1>2. 0 \in S
  <2> DEFINE f == [i \in 0 .. 0 |-> <<>>]
  <2>1. Upto(f, 0)
    OBVIOUS
  <2> HIDE DEF Upto, f
  <2> QED BY <1>1, <2>1
<1>3. ASSUME NEW k \in 1 .. n, k - 1 \in S PROVE k \in S
  <2>1. PICK f : Upto(f, k - 1)
    BY <1>3
  <2> DEFINE g == [i \in 0 .. k |-> IF i = k THEN EmitItem(f[k - 1], Tick(items)[k], items[k])
                                    ELSE f[i]]
  <2>2. \A i \in 0 .. k - 1 : g[i] = f[i]
    OBVIOUS
  <2>3. ASSUME NEW i \in 0 .. k
        PROVE  g[i] = IF i = 0 THEN <<>>
                      ELSE EmitItem(g[i - 1], Tick(items)[i], items[i])
    <3>1. CASE i = k
      <4>1. /\ g[i] = EmitItem(f[k - 1], Tick(items)[k], items[k])
            /\ g[i - 1] = f[k - 1] /\ i # 0
        BY <2>2, <3>1
      <4> QED BY <3>1, <4>1
    <3>2. CASE i # k
      <4>1. i \in 0 .. k - 1 /\ g[i] = f[i]
        BY <2>2, <3>2
      <4>2. f[i] = IF i = 0 THEN <<>> ELSE EmitItem(f[i - 1], Tick(items)[i], items[i])
        BY <2>1, <4>1
      <4>3. i # 0 => g[i - 1] = f[i - 1]
        BY <2>2, <4>1
      <4> QED BY <4>1, <4>2, <4>3
    <3> QED BY <3>1, <3>2
  <2>4. Upto(g, k)
    <3>1. g = [i \in 0 .. k |-> g[i]]
      OBVIOUS
    <3> HIDE DEF g
    <3> QED BY <2>3, <3>1
  <2> HIDE DEF Upto, g
  <2> QED BY <2>4
<1>4. n \in S
  <2> HIDE DEF S
  <2> QED BY <1>1, <1>2, <1>3, UpTo
<1>5. \E f : Upto(f, n)
  BY <1>4
<1> QED BY <1>5 DEF Collected

\* The recursive definition of the size has a solution.
LEMMA SizeIs ==
  ASSUME NEW items \in Seq(Items)
  PROVE  Size(items) = [i \in 0 .. Len(items) |->
                          IF i = 0 THEN 0 ELSE Size(items)[i - 1] + Makes(items[i])]
<1> DEFINE n == Len(items)
           Upto(f, k) == f = [i \in 0 .. k |-> IF i = 0 THEN 0 ELSE f[i - 1] + Makes(items[i])]
           S == {k \in 0 .. n : \E f : Upto(f, k)}
<1>1. n \in Nat
  BY LenProperties
<1>2. 0 \in S
  <2> DEFINE f == [i \in 0 .. 0 |-> 0]
  <2>1. Upto(f, 0)
    OBVIOUS
  <2> HIDE DEF Upto, f
  <2> QED BY <1>1, <2>1
<1>3. ASSUME NEW k \in 1 .. n, k - 1 \in S PROVE k \in S
  <2>1. PICK f : Upto(f, k - 1)
    BY <1>3
  <2> DEFINE g == [i \in 0 .. k |-> IF i = k THEN f[k - 1] + Makes(items[k]) ELSE f[i]]
  <2>2. \A i \in 0 .. k - 1 : g[i] = f[i]
    OBVIOUS
  <2>3. ASSUME NEW i \in 0 .. k
        PROVE  g[i] = IF i = 0 THEN 0 ELSE g[i - 1] + Makes(items[i])
    <3>1. CASE i = k
      <4>1. g[i] = f[k - 1] + Makes(items[k]) /\ g[i - 1] = f[k - 1] /\ i # 0
        BY <2>2, <3>1
      <4> QED BY <3>1, <4>1
    <3>2. CASE i # k
      <4>1. i \in 0 .. k - 1 /\ g[i] = f[i]
        BY <2>2, <3>2
      <4>2. f[i] = IF i = 0 THEN 0 ELSE f[i - 1] + Makes(items[i])
        BY <2>1, <4>1
      <4>3. i # 0 => g[i - 1] = f[i - 1]
        BY <2>2, <4>1
      <4> QED BY <4>1, <4>2, <4>3
    <3> QED BY <3>1, <3>2
  <2>4. Upto(g, k)
    <3>1. g = [i \in 0 .. k |-> g[i]]
      OBVIOUS
    <3> HIDE DEF g
    <3> QED BY <2>3, <3>1
  <2> HIDE DEF Upto, g
  <2> QED BY <2>4
<1>4. n \in S
  <2> HIDE DEF S
  <2> QED BY <1>1, <1>2, <1>3, UpTo
<1>5. \E f : Upto(f, n)
  BY <1>4
<1> QED BY <1>5 DEF Size, Makes

\* What the parser collects of a tune: each off right behind its on, and when
\* the tune fits, each on right before its off.
LEMMA CollectMade ==
  ASSUME NEW items \in Seq(Items)
  PROVE  Made(Collect(items)) /\ (Fits(items) => Whole(Collect(items)))
<1> DEFINE n == Len(items)
           C == Collected(items)
           T == Tick(items)
           Z == Size(items)
           S == {i \in 0 .. n : /\ Made(C[i]) /\ Z[i] \in Nat
                                /\ Z[i] <= MaxEvents => Whole(C[i]) /\ Len(C[i]) = Z[i]}
<1>1. n \in Nat /\ MaxEvents \in Nat
  BY LenProperties, MusicAssumption
<1>2. /\ C = [i \in 0 .. n |-> IF i = 0 THEN <<>> ELSE EmitItem(C[i - 1], T[i], items[i])]
      /\ Z = [i \in 0 .. n |-> IF i = 0 THEN 0 ELSE Z[i - 1] + Makes(items[i])]
      /\ \A i \in 0 .. n : T[i] \in Nat
  BY CollectedIs, SizeIs, TickType
<1> HIDE DEF C, T, Z
<1>3. 0 \in S
  <2>1. C[0] = <<>> /\ Z[0] = 0
    BY <1>1, <1>2
  <2>2. <<>> \in Seq(Msg) /\ Len(<<>>) = 0
    BY EmptySeq
  <2>3. Made(<<>>) /\ Whole(<<>>)
    BY <1>1, <2>2 DEF Made, Whole
  <2> QED BY <1>1, <2>1, <2>2, <2>3
<1>4. ASSUME NEW i \in 1 .. n, i - 1 \in S PROVE i \in S
  <2>1. /\ C[i] = EmitItem(C[i - 1], T[i], items[i])
        /\ Z[i] = Z[i - 1] + Makes(items[i])
    BY <1>2
  <2>2. items[i] \in Items /\ T[i] \in Nat /\ Makes(items[i]) \in Nat
    <3>1. items[i] \in Items
      BY ElementOfSeq
    <3> QED BY <1>2, <3>1 DEF Items, Makes
  <2>3. /\ Made(C[i - 1]) /\ Z[i - 1] \in Nat
        /\ Z[i - 1] <= MaxEvents => Whole(C[i - 1]) /\ Len(C[i - 1]) = Z[i - 1]
    BY <1>4
  <2> DEFINE t == C[i - 1]
  <2>4. /\ Made(C[i])
        /\ (Whole(t) /\ Len(t) + Makes(items[i]) <= MaxEvents)
             => Whole(C[i]) /\ Len(C[i]) = Len(t) + Makes(items[i])
    BY <2>1, <2>2, <2>3, ItemMade
  <2>5. Z[i] \in Nat /\ (Z[i] <= MaxEvents => Whole(C[i]) /\ Len(C[i]) = Z[i])
    BY <1>1, <2>1, <2>2, <2>3, <2>4
  <2> QED BY <2>4, <2>5
<1>5. n \in S
  <2> HIDE DEF S
  <2>1. n \in Nat /\ \A i \in 1 .. n : i - 1 \in S => i \in S
    BY <1>1, <1>4
  <2> HIDE DEF n
  <2>2. \A i \in 0 .. n : i \in S
    BY <1>3, <2>1, UpTo
  <2>3. n \in 0 .. n
    BY <2>1
  <2> QED BY <2>2, <2>3
<1> QED BY <1>5 DEF Collect, Fits, C, Z

-----------------------------------------------------------------------------
(* The sort.  A message's rank is how many come before it.                 *)

Rank(t, j)  == Cardinality({k \in 1 .. Len(t) : Before(t[k], t[j])})
Place(t, i) == CHOOSE j \in 1 .. Len(t) : Rank(t, j) = i - 1

\* A set that can be mapped one to one into another has no more elements.
LEMMA NoMore ==
  ASSUME NEW A, NEW B, IsFiniteSet(B), NEW f \in [A -> B],
         \A x, y \in A : f[x] = f[y] => x = y
  PROVE  Cardinality(A) <= Cardinality(B)
<1>1. f \in Injection(A, B)
  BY DEF Injection, IsInjective
<1> QED BY <1>1, FS_Injection

\* There are n numbers up to n.
LEMMA NumbersUpTo ==
  ASSUME NEW n \in Nat
  PROVE  IsFiniteSet(1 .. n) /\ Cardinality(1 .. n) = n
BY FS_Interval

\* The messages of a table, with the parts the sort looks at.
LEMMA MadeParts ==
  ASSUME NEW t, Made(t)
  PROVE  /\ Len(t) \in Nat
         /\ \A j \in 1 .. Len(t) :
              /\ t[j] \in Msg /\ t[j].tick \in Nat /\ t[j].order = j - 1
              /\ t[j].kind \in Kinds /\ t[j].note \in Note
              /\ t[j].kind = "off" => Pair(t, j - 1, j)
<1>1. t \in Seq(Msg) /\ Len(t) \in Nat
  BY LenProperties DEF Made
<1>2. ASSUME NEW j \in 1 .. Len(t)
      PROVE  /\ t[j] \in Msg /\ t[j].tick \in Nat /\ t[j].order = j - 1
             /\ t[j].kind \in Kinds /\ t[j].note \in Note
             /\ t[j].kind = "off" => Pair(t, j - 1, j)
  <2>1. t[j] \in Msg
    BY <1>1, ElementOfSeq
  <2>2. t[j].tick \in Nat /\ t[j].kind \in Kinds /\ t[j].note \in Note
    BY <2>1 DEF Msg
  <2> QED BY <2>1, <2>2 DEF Made
<1> QED BY <1>1, <1>2

\* What comes before what is a strict total order.
LEMMA BeforeOrders ==
  ASSUME NEW t, Made(t)
  PROVE  /\ \A j \in 1 .. Len(t) : ~Before(t[j], t[j])
         /\ \A j, k \in 1 .. Len(t) : j # k => Before(t[j], t[k]) \/ Before(t[k], t[j])
         /\ \A i, j, k \in 1 .. Len(t) :
              Before(t[i], t[j]) /\ Before(t[j], t[k]) => Before(t[i], t[k])
<1> DEFINE n == Len(t)
<1>1. n \in Nat /\ \A j \in 1 .. n : t[j].tick \in Nat /\ t[j].order = j - 1
  BY MadeParts
<1> HIDE DEF n
<1>2. \A j \in 1 .. n : ~Before(t[j], t[j])
  BY <1>1 DEF Before
<1>3. \A j, k \in 1 .. n : j # k => Before(t[j], t[k]) \/ Before(t[k], t[j])
  BY <1>1 DEF Before
<1>4. \A i, j, k \in 1 .. n :
        Before(t[i], t[j]) /\ Before(t[j], t[k]) => Before(t[i], t[k])
  BY <1>1 DEF Before
<1> QED BY <1>2, <1>3, <1>4 DEF n

\* Ranks grow with the order.
LEMMA RankGrows ==
  ASSUME NEW t, Made(t)
  PROVE  /\ \A j \in 1 .. Len(t) : Rank(t, j) \in 0 .. Len(t) - 1
         /\ \A j, k \in 1 .. Len(t) : Before(t[j], t[k]) => Rank(t, j) < Rank(t, k)
<1> DEFINE n == Len(t)
           D(j) == {k \in 1 .. n : Before(t[k], t[j])}
<1>1. n \in Nat
  BY MadeParts
<1>2. IsFiniteSet(1 .. n) /\ Cardinality(1 .. n) = n
  BY <1>1, NumbersUpTo
<1>3. /\ \A j \in 1 .. n : ~Before(t[j], t[j])
      /\ \A i, j, k \in 1 .. n : Before(t[i], t[j]) /\ Before(t[j], t[k]) => Before(t[i], t[k])
  BY BeforeOrders
<1>4. \A j \in 1 .. n : Rank(t, j) = Cardinality(D(j))
  BY DEF Rank
<1>5. ASSUME NEW j \in 1 .. n
      PROVE  /\ IsFiniteSet(D(j)) /\ Cardinality(D(j)) \in Nat
             /\ Cardinality(D(j)) < n
  <2> DEFINE d == D(j)
  <2>1. d \in SUBSET (1 .. n) /\ j \notin d
    BY <1>3
  <2> HIDE DEF d
  <2>2. /\ IsFiniteSet(d) /\ Cardinality(d) <= Cardinality(1 .. n)
        /\ Cardinality(1 .. n) = Cardinality(d) => 1 .. n = d
    BY <1>2, <2>1, FS_Subset
  <2>3. Cardinality(d) \in Nat
    BY <2>2, FS_CardinalityType
  <2> QED BY <1>1, <1>2, <2>1, <2>2, <2>3 DEF d
<1>6. ASSUME NEW j \in 1 .. n, NEW k \in 1 .. n, Before(t[j], t[k])
      PROVE  Cardinality(D(j)) < Cardinality(D(k))
  <2> DEFINE d == D(j)
             e == D(k)
  <2>1. d \in SUBSET e /\ j \in e /\ j \notin d
    BY <1>3, <1>6
  <2>2. /\ IsFiniteSet(e) /\ Cardinality(d) \in Nat /\ Cardinality(e) \in Nat
    BY <1>5
  <2> HIDE DEF d, e
  <2>3. Cardinality(d) <= Cardinality(e) /\ (Cardinality(e) = Cardinality(d) => e = d)
    BY <2>1, <2>2, FS_Subset
  <2>4. Cardinality(d) < Cardinality(e)
    BY <2>1, <2>2, <2>3
  <2> QED BY <2>4 DEF d, e
<1> HIDE DEF D
<1> QED BY <1>1, <1>4, <1>5, <1>6

\* There is one message of each rank.
LEMMA PlaceIs ==
  ASSUME NEW t, Made(t)
  PROVE  /\ \A i \in 1 .. Len(t) : Place(t, i) \in 1 .. Len(t) /\ Rank(t, Place(t, i)) = i - 1
         /\ \A j \in 1 .. Len(t) : Rank(t, j) + 1 \in 1 .. Len(t) /\ Place(t, Rank(t, j) + 1) = j
<1> DEFINE n == Len(t)
           f == [j \in 1 .. n |-> Rank(t, j) + 1]
<1>1. n \in Nat
  BY MadeParts
<1>2. \A j \in 1 .. n : Rank(t, j) \in 0 .. n - 1
  BY RankGrows
<1>3. ASSUME NEW j \in 1 .. n, NEW k \in 1 .. n, Rank(t, j) = Rank(t, k) PROVE j = k
  <2> SUFFICES ASSUME j # k PROVE FALSE
    OBVIOUS
  <2>1. Before(t[j], t[k]) \/ Before(t[k], t[j])
    BY BeforeOrders
  <2>2. Rank(t, j) < Rank(t, k) \/ Rank(t, k) < Rank(t, j)
    BY <2>1, RankGrows
  <2> QED BY <1>2, <1>3, <2>2
<1>4. f \in Injection(1 .. n, 1 .. n)
  <2>1. f \in [1 .. n -> 1 .. n]
    BY <1>1, <1>2
  <2>2. ASSUME NEW j \in 1 .. n, NEW k \in 1 .. n, f[j] = f[k] PROVE j = k
    BY <1>2, <1>3, <2>2
  <2> HIDE DEF f
  <2> QED BY <2>1, <2>2 DEF Injection, IsInjective
<1>5. f \in Surjection(1 .. n, 1 .. n)
  <2>1. IsFiniteSet(1 .. n)
    BY <1>1, NumbersUpTo
  <2> HIDE DEF f
  <2> QED BY <1>4, <2>1, FS_Injection
<1>6. ASSUME NEW i \in 1 .. n PROVE Place(t, i) \in 1 .. n /\ Rank(t, Place(t, i)) = i - 1
  <2>1. PICK j \in 1 .. n : f[j] = i
    <3> HIDE DEF f
    <3> QED BY <1>5 DEF Surjection
  <2>2. Rank(t, j) = i - 1
    BY <1>2, <2>1
  <2> HIDE DEF f
  <2> QED BY <2>2 DEF Place
<1>7. ASSUME NEW j \in 1 .. n
      PROVE  Rank(t, j) + 1 \in 1 .. n /\ Place(t, Rank(t, j) + 1) = j
  <2> DEFINE i == Rank(t, j) + 1
  <2>1. i \in 1 .. n /\ i - 1 = Rank(t, j)
    BY <1>1, <1>2
  <2> HIDE DEF i
  <2>2. Place(t, i) \in 1 .. n /\ Rank(t, Place(t, i)) = Rank(t, j)
    BY <1>6, <2>1
  <2>3. Place(t, i) = j
    BY <1>3, <2>2
  <2> QED BY <2>1, <2>3 DEF i
<1> HIDE DEF f
<1> QED BY <1>6, <1>7

\* The sorted table has the same messages, each at its rank.
LEMMA SortedIs ==
  ASSUME NEW t, Made(t)
  PROVE  /\ Sorted(t) \in Seq(Msg) /\ Len(Sorted(t)) = Len(t)
         /\ \A i \in 1 .. Len(t) : Sorted(t)[i] = t[Place(t, i)]
<1> DEFINE n == Len(t)
           s == [i \in 1 .. n |-> t[Place(t, i)]]
<1>1. Sorted(t) = s
  BY DEF Sorted, Rank, Place
<1>2. n \in Nat /\ \A i \in 1 .. n : t[Place(t, i)] \in Msg
  BY MadeParts, PlaceIs
<1>3. s \in Seq(Msg) /\ Len(s) = n
  <2>1. s \in [1 .. n -> Msg]
    BY <1>2
  <2>2. DOMAIN s = 1 .. n
    OBVIOUS
  <2> HIDE DEF s
  <2>3. s \in Seq(Msg)
    BY <1>2, <2>1
  <2> QED BY <1>2, <2>2, <2>3, LenProperties
<1> QED BY <1>1, <1>3

\* What comes earlier in a sorted table was not later in the order, and an off
\* has the place of its on before it.
LEMMA SortedOrders ==
  ASSUME NEW t, Made(t)
  PROVE  /\ \A i \in 2 .. Len(t) : Sorted(t)[i - 1].tick <= Sorted(t)[i].tick
         /\ \A j, k \in 1 .. Len(t) : Pair(t, j, k) => Rank(t, j) < Rank(t, k)
<1> DEFINE n == Len(t)
<1>1. n \in Nat /\ \A j \in 1 .. n : t[j].tick \in Nat /\ t[j].order = j - 1
  BY MadeParts
<1>2. /\ \A j \in 1 .. n : Rank(t, j) \in 0 .. n - 1
      /\ \A j, k \in 1 .. n : Before(t[j], t[k]) => Rank(t, j) < Rank(t, k)
  BY RankGrows
<1>3. \A i \in 1 .. n : /\ Place(t, i) \in 1 .. n /\ Rank(t, Place(t, i)) = i - 1
                        /\ Sorted(t)[i] = t[Place(t, i)]
  BY PlaceIs, SortedIs
<1> HIDE DEF n
<1>4. ASSUME NEW i \in 2 .. n PROVE Sorted(t)[i - 1].tick <= Sorted(t)[i].tick
  <2> DEFINE p == Place(t, i - 1)
             q == Place(t, i)
  <2>1. i \in 1 .. n /\ i - 1 \in 1 .. n
    BY <1>1
  <2>2. /\ p \in 1 .. n /\ q \in 1 .. n /\ Rank(t, p) = (i - 1) - 1 /\ Rank(t, q) = i - 1
        /\ Sorted(t)[i - 1] = t[p] /\ Sorted(t)[i] = t[q]
    BY <1>3, <2>1
  <2> HIDE DEF p, q
  <2>3. ~Before(t[q], t[p])
    <3>1. ~(Rank(t, q) < Rank(t, p))
      BY <2>1, <2>2
    <3> QED BY <1>2, <2>2, <3>1
  <2>4. t[p].tick <= t[q].tick
    BY <1>1, <2>2, <2>3 DEF Before
  <2> QED BY <2>2, <2>4
<1>5. ASSUME NEW j \in 1 .. n, NEW k \in 1 .. n, Pair(t, j, k)
      PROVE  Rank(t, j) < Rank(t, k)
  <2>1. Before(t[j], t[k])
    BY <1>1, <1>5 DEF Pair, Before
  <2> QED BY <1>2, <2>1
<1> QED BY <1>4, <1>5 DEF n

\* Every off in a sorted table has its on at a place before it.
LEMMA OffsHaveOns ==
  ASSUME NEW t, Made(t), NEW i \in 1 .. Len(t), NEW note
  PROVE  Cardinality(Places(Sorted(t), i, "off", note))
           <= Cardinality(Places(Sorted(t), i, "on", note))
<1> DEFINE n == Len(t)
           s == Sorted(t)
           A == Places(s, i, "off", note)
           B == Places(s, i, "on", note)
           f == [x \in A |-> Rank(t, Place(t, x) - 1) + 1]
<1>1. n \in Nat /\ i \in 1 .. n /\ \A j \in 1 .. n : t[j].kind = "off" => Pair(t, j - 1, j)
  BY MadeParts
<1>2. /\ \A x \in 1 .. n : /\ Place(t, x) \in 1 .. n /\ Rank(t, Place(t, x)) = x - 1
                           /\ s[x] = t[Place(t, x)]
      /\ \A j \in 1 .. n : /\ Rank(t, j) \in 0 .. n - 1 /\ Rank(t, j) + 1 \in 1 .. n
                           /\ Place(t, Rank(t, j) + 1) = j
  BY PlaceIs, SortedIs, RankGrows
<1>3. \A j, k \in 1 .. n : Pair(t, j, k) => Rank(t, j) < Rank(t, k)
  BY SortedOrders
<1> HIDE DEF n, s
<1>4. ASSUME NEW x \in A
      PROVE  /\ x \in 1 .. i /\ Place(t, x) \in 1 .. n /\ Place(t, x) - 1 \in 1 .. n
             /\ f[x] \in B /\ Place(t, f[x]) = Place(t, x) - 1
  <2> DEFINE p == Place(t, x)
             y == Rank(t, p - 1) + 1
  <2>1. x \in 1 .. n /\ x <= i /\ s[x].kind = "off" /\ s[x].note = note
    BY <1>1 DEF Places
  <2>2. p \in 1 .. n /\ Rank(t, p) = x - 1 /\ t[p].kind = "off" /\ t[p].note = note
    BY <1>2, <2>1
  <2>3. Pair(t, p - 1, p)
    BY <1>1, <2>2
  <2>4. p - 1 \in 1 .. n /\ t[p - 1].kind = "on" /\ t[p - 1].note = note
    BY <2>2, <2>3 DEF Pair, n
  <2>5. Rank(t, p - 1) < x - 1 /\ Rank(t, p - 1) \in 0 .. n - 1
    BY <1>2, <1>3, <2>2, <2>3, <2>4
  <2>6. y \in 1 .. i /\ y \in 1 .. n /\ Place(t, y) = p - 1
    <3>1. y \in 1 .. n /\ Place(t, y) = p - 1
      BY <1>2, <2>4
    <3>2. x \in Nat /\ i \in Nat /\ x <= i
      BY <1>1, <2>1
    <3>3. y \in 1 .. i
      <4> DEFINE r == Rank(t, p - 1)
      <4>1. r \in Nat /\ r < x - 1
        BY <1>1, <2>5
      <4> HIDE DEF r
      <4>2. r + 1 \in 1 .. i
        BY <3>2, <4>1
      <4> QED BY <4>2 DEF r
    <3> QED BY <3>1, <3>3
  <2>7. f[x] = y
    OBVIOUS
  <2> HIDE DEF p, y, f
  <2>8. s[y] = t[p - 1]
    BY <1>2, <2>6
  <2>9. y \in B
    BY <2>4, <2>6, <2>8 DEF Places
  <2> QED BY <2>1, <2>2, <2>4, <2>6, <2>7, <2>9 DEF p
<1>5. f \in [A -> B]
  BY <1>4
<1>6. ASSUME NEW x \in A, NEW y \in A, f[x] = f[y] PROVE x = y
  <2> DEFINE p == Place(t, x)
             q == Place(t, y)
  <2>1. /\ x \in 1 .. n /\ y \in 1 .. n /\ p \in 1 .. n /\ q \in 1 .. n
        /\ p - 1 = q - 1
    BY <1>1, <1>4, <1>6
  <2>2. Rank(t, p) = x - 1 /\ Rank(t, q) = y - 1
    BY <1>2, <2>1
  <2> HIDE DEF p, q
  <2> QED BY <2>1, <2>2
<1>7. IsFiniteSet(B)
  <2>1. B \in SUBSET (1 .. i) /\ IsFiniteSet(1 .. i)
    BY <1>1, NumbersUpTo DEF Places
  <2> QED BY <2>1, FS_Subset
<1> HIDE DEF f, A, B
<1>8. Cardinality(A) <= Cardinality(B)
  BY <1>5, <1>6, <1>7, NoMore
<1> QED BY <1>8 DEF A, B, s

\* When no note has lost its off, every on has its off at a place behind it.
LEMMA OnsHaveOffs ==
  ASSUME NEW t, Made(t), Whole(t), NEW note
  PROVE  Cardinality(Places(Sorted(t), Len(t), "on", note))
           <= Cardinality(Places(Sorted(t), Len(t), "off", note))
<1> DEFINE n == Len(t)
           s == Sorted(t)
           A == Places(s, n, "on", note)
           B == Places(s, n, "off", note)
           f == [x \in A |-> Rank(t, Place(t, x) + 1) + 1]
<1>1. /\ n \in Nat
      /\ \A j \in 1 .. n : t[j].kind = "on" => j + 1 \in 1 .. n /\ Pair(t, j, j + 1)
  BY MadeParts DEF Whole
<1>2. /\ \A x \in 1 .. n : /\ Place(t, x) \in 1 .. n /\ Rank(t, Place(t, x)) = x - 1
                           /\ s[x] = t[Place(t, x)]
      /\ \A j \in 1 .. n : /\ Rank(t, j) + 1 \in 1 .. n
                           /\ Place(t, Rank(t, j) + 1) = j
  BY PlaceIs, SortedIs
<1> HIDE DEF n, s
<1>3. ASSUME NEW x \in A
      PROVE  /\ x \in 1 .. n /\ Place(t, x) \in 1 .. n /\ Place(t, x) + 1 \in 1 .. n
             /\ f[x] \in B /\ Place(t, f[x]) = Place(t, x) + 1
  <2> DEFINE p == Place(t, x)
             y == Rank(t, p + 1) + 1
  <2>1. x \in 1 .. n /\ s[x].kind = "on" /\ s[x].note = note
    BY <1>1 DEF Places
  <2>2. p \in 1 .. n /\ t[p].kind = "on" /\ t[p].note = note
    BY <1>2, <2>1
  <2>3. p + 1 \in 1 .. n /\ Pair(t, p, p + 1)
    BY <1>1, <2>2
  <2>4. t[p + 1].kind = "off" /\ t[p + 1].note = note
    BY <2>2, <2>3 DEF Pair
  <2>5. y \in 1 .. n /\ Place(t, y) = p + 1
    BY <1>2, <2>3
  <2>6. f[x] = y
    OBVIOUS
  <2> HIDE DEF p, y, f
  <2>7. s[y] = t[p + 1]
    BY <1>2, <2>5
  <2>8. y \in B
    BY <2>4, <2>5, <2>7 DEF Places
  <2> QED BY <2>1, <2>2, <2>3, <2>5, <2>6, <2>8 DEF p
<1>4. f \in [A -> B]
  BY <1>3
<1>5. ASSUME NEW x \in A, NEW y \in A, f[x] = f[y] PROVE x = y
  <2> DEFINE p == Place(t, x)
             q == Place(t, y)
  <2>1. /\ x \in 1 .. n /\ y \in 1 .. n /\ p \in 1 .. n /\ q \in 1 .. n
        /\ p + 1 = q + 1
    BY <1>3, <1>5
  <2>2. Rank(t, p) = x - 1 /\ Rank(t, q) = y - 1
    BY <1>2, <2>1
  <2> HIDE DEF p, q
  <2> QED BY <2>1, <2>2
<1>6. IsFiniteSet(B)
  <2>1. B \in SUBSET (1 .. n) /\ IsFiniteSet(1 .. n)
    BY <1>1, NumbersUpTo DEF Places
  <2> QED BY <2>1, FS_Subset
<1> HIDE DEF f, A, B
<1>7. Cardinality(A) <= Cardinality(B)
  BY <1>4, <1>5, <1>6, NoMore
<1> QED BY <1>7 DEF A, B, n, s

\* What becomes of a tune: a table that can be played, and one in which every
\* note is let go of when the tune fits.
LEMMA TuneSorted ==
  ASSUME NEW items \in Seq(Items)
  PROVE  LET s == Sorted(Collect(items))
         IN  /\ Collect(items) \in Seq(Msg) /\ Len(Collect(items)) <= MaxEvents
             /\ s \in Seq(Msg) /\ Len(s) <= MaxEvents
             /\ Playable(s, Note)
             /\ Fits(items) => Answered(s, Note)
<1> DEFINE t == Collect(items)
           s == Sorted(t)
           n == Len(t)
<1>1. Made(t) /\ (Fits(items) => Whole(t))
  BY CollectMade
<1> HIDE DEF t
<1>2. t \in Seq(Msg) /\ n <= MaxEvents /\ n \in Nat
  BY <1>1, MadeParts DEF Made
<1>3. s \in Seq(Msg) /\ Len(s) = n
  BY <1>1, SortedIs
<1>4. \A i \in 2 .. n : s[i - 1].tick <= s[i].tick
  BY <1>1, SortedOrders
<1>5. \A i \in 1 .. n, k \in Note :
        Cardinality(Places(s, i, "off", k)) <= Cardinality(Places(s, i, "on", k))
  BY <1>1, OffsHaveOns
<1>6. Playable(s, Note)
  <2> HIDE DEF s, n
  <2> QED BY <1>3, <1>4, <1>5 DEF Playable
<1>7. ASSUME Whole(t), NEW k \in Note
      PROVE  Cardinality(Places(s, n, "off", k)) = Cardinality(Places(s, n, "on", k))
  <2> DEFINE A == Places(s, n, "off", k)
             B == Places(s, n, "on", k)
  <2>1. Cardinality(B) <= Cardinality(A)
    BY <1>1, <1>7, OnsHaveOffs
  <2>2. Cardinality(A) <= Cardinality(B)
    <3>1. CASE n = 0
      <4>1. A = {} /\ B = {}
        BY <3>1 DEF Places
      <4>2. Cardinality({}) = 0
        BY FS_EmptySet
      <4> HIDE DEF A, B
      <4> QED BY <4>1, <4>2
    <3>2. CASE n # 0
      <4> HIDE DEF n, s
      <4>1. n \in 1 .. n
        BY <1>2, <3>2
      <4> QED BY <1>5, <4>1
    <3> QED BY <3>1, <3>2
  <2>3. Cardinality(A) \in Nat /\ Cardinality(B) \in Nat
    <3>1. A \in SUBSET (1 .. n) /\ B \in SUBSET (1 .. n) /\ IsFiniteSet(1 .. n)
      BY <1>2, NumbersUpTo DEF Places
    <3> HIDE DEF A, B, n
    <3> QED BY <3>1, FS_Subset, FS_CardinalityType
  <2> HIDE DEF A, B
  <2>4. Cardinality(A) = Cardinality(B)
    BY <2>1, <2>2, <2>3
  <2> QED BY <2>4 DEF A, B
<1>8. Fits(items) => Answered(s, Note)
  <2> HIDE DEF s, n
  <2> QED BY <1>1, <1>3, <1>7 DEF Answered
<1> HIDE DEF s, n
<1>9. Len(s) <= MaxEvents
  BY <1>2, <1>3
<1> QED BY <1>2, <1>3, <1>6, <1>8, <1>9 DEF s, t, n

-----------------------------------------------------------------------------
(* The player.                                                             *)

\* The types of all there is but the table.
Typed ==
  /\ g_stop \in BOOLEAN /\ g_thread \in Player \cup {0} /\ g_midi \in BOOLEAN
  /\ gpc \in {"game", "wait", "quiet", "fill", "sort", "start"}
  /\ tune \in Tune \cup {NoTune}
  /\ ppc \in [Player -> {"none", "look", "due", "send", "off", "ended"}]
  /\ next \in [Player -> 1 .. MaxEvents + 1]
  /\ sounding \subseteq Note /\ timedOut \in BOOLEAN

\* The table is one, and a player that has passed the loop's test had a
\* message to send.
InTable ==
  /\ table \in Seq(Msg) /\ Len(table) <= MaxEvents
  /\ \A t \in Player : ppc[t] \in {"due", "send"} => next[t] <= MaxEvents

\* Where the guest is in registering a tune: who plays, and what is in the
\* table.
Registering ==
  /\ gpc = "wait" => g_thread # 0
  /\ gpc \in {"quiet", "fill", "sort", "start"} => g_thread = 0
  /\ gpc \in {"fill", "sort", "start"} => tune \in Tune
  /\ gpc = "sort" => table = Collect(tune)
  /\ gpc = "start" => table = Sorted(Collect(tune))

\* The one player, while the guest does not register another tune: nobody asks
\* it to stop, and it is in the table until it has played all of it.
Unstopped ==
  \A t \in Player :
    (t = g_thread /\ gpc = "game" /\ ~timedOut) =>
      /\ ~g_stop
      /\ ppc[t] = "look" => next[t] <= Len(table) + 1
      /\ ppc[t] \in {"due", "send"} => next[t] <= Len(table)
      /\ ppc[t] \in {"off", "ended"} => next[t] = Len(table) + 1

IInv == Typed /\ InTable /\ Registering /\ OnePlayer /\ SilentAtRest /\ Unstopped

\* The parts of a message.
LEMMA MessageParts ==
  ASSUME NEW s \in Seq(Msg), NEW i \in 1 .. Len(s)
  PROVE  s[i].kind \in Kinds /\ s[i].note \in Note /\ s[i].tick \in Nat
<1>1. s[i] \in Msg
  BY ElementOfSeq
<1> QED BY <1>1 DEF Msg

\* What a device makes of a message is a set of notes.
LEMMA HeardType ==
  ASSUME sounding \subseteq Note, NEW kind \in Kinds, NEW note \in Note
  PROVE  Heard(kind, note) \subseteq Note
BY DEF Heard, Kinds

\* Types from the invariant.
LEMMA TypesFollow == IInv => TypeOK
<1> SUFFICES ASSUME IInv PROVE TypeOK
  OBVIOUS
<1>1. \A i \in 1 .. Len(table) :
        table[i].kind \in Kinds /\ table[i].note \in Note /\ table[i].tick \in Nat
  BY MessageParts DEF IInv, InTable
<1>2. \A t \in Player : next[t] \in 1 .. MaxEvents + 1
  BY DEF IInv, Typed
<1> QED BY <1>1, <1>2 DEF TypeOK, IInv, Typed, InTable, Kinds

\* It holds at first.
LEMMA InitHolds == Init => IInv
<1> SUFFICES ASSUME Init PROVE IInv
  OBVIOUS
<1>1. MaxEvents \in Nat /\ 1 \in 1 .. MaxEvents + 1
  BY MusicAssumption
<1>2. table \in Seq(Msg) /\ Len(table) = 0
  BY EmptySeq DEF Init
<1>3. 0 \notin Player
  BY DEF Player
<1>4. Live = {}
  BY DEF Init, Live
<1>5. Typed
  BY <1>1 DEF Init, Typed
<1>6. InTable
  BY <1>1, <1>2 DEF Init, InTable
<1>7. Registering
  BY DEF Init, Registering
<1>8. OnePlayer /\ SilentAtRest /\ Unstopped
  BY <1>3, <1>4 DEF Init, OnePlayer, SilentAtRest, Unstopped
<1> QED BY <1>5, <1>6, <1>7, <1>8 DEF IInv

\* A step of the program.
LEMMA Steps ==
  ASSUME [Next]_vars
  PROVE  \/ \E x \in Tune \cup {NoTune} : Register(x)
         \/ WaitOver \/ WaitGivenUp \/ Quiet \/ Fill \/ Sort \/ StartFails \/ Start
         \/ \E t \in Player : Look(t) \/ Due(t) \/ Send(t) \/ Leave(t)
         \/ UNCHANGED vars
BY DEF Next, Guest, Play

\* Types are kept.
LEMMA TypedStep == IInv /\ [Next]_vars => Typed'
<1> SUFFICES ASSUME IInv, [Next]_vars PROVE Typed'
  OBVIOUS
<1> USE DEF Typed
<1>1. Typed /\ MaxEvents \in Nat /\ MayTimeOut \in BOOLEAN
  BY MusicAssumption DEF IInv
<1>2. ASSUME NEW x \in Tune \cup {NoTune}, Register(x) PROVE Typed'
  BY <1>1, <1>2 DEF Register, player
<1>3. CASE WaitOver
  BY <1>1, <1>3 DEF WaitOver, player
<1>4. CASE WaitGivenUp
  BY <1>1, <1>4 DEF WaitGivenUp, player
<1>5. CASE Quiet
  BY <1>1, <1>5 DEF Quiet, player
<1>6. CASE Fill
  BY <1>1, <1>6 DEF Fill, player
<1>7. CASE Sort
  BY <1>1, <1>7 DEF Sort, player
<1>8. CASE StartFails
  BY <1>1, <1>8 DEF StartFails, player
<1>9. CASE Start
  <2>1. PICK t \in Player : NewPlayer(t)
    BY <1>9 DEF Start
  <2>2. 1 \in 1 .. MaxEvents + 1
    BY <1>1
  <2>3. next' \in [Player -> 1 .. MaxEvents + 1]
    BY <1>1, <2>1, <2>2 DEF NewPlayer
  <2>4. /\ ppc' \in [Player -> {"none", "look", "due", "send", "off", "ended"}]
        /\ g_thread' \in Player \cup {0}
    BY <1>1, <2>1 DEF NewPlayer
  <2>5. /\ g_midi' = TRUE /\ g_stop' = FALSE /\ gpc' = "game"
        /\ UNCHANGED <<tune, sounding, timedOut>>
    BY <1>9 DEF Start
  <2> QED BY <1>1, <2>3, <2>4, <2>5
<1>10. ASSUME NEW t \in Player, Look(t) PROVE Typed'
  BY <1>1, <1>10 DEF Look, At, Goes, guest
<1>11. ASSUME NEW t \in Player, Due(t) PROVE Typed'
  BY <1>1, <1>11 DEF Due, At, Goes, guest
<1>12. ASSUME NEW t \in Player, Send(t) PROVE Typed'
  <2>1. next[t] \in 1 .. MaxEvents /\ next'[t] \in 1 .. MaxEvents + 1
    BY <1>1, <1>12 DEF Send, At, IInv, InTable
  <2>2. /\ next' \in [Player -> 1 .. MaxEvents + 1]
        /\ ppc' \in [Player -> {"none", "look", "due", "send", "off", "ended"}]
    BY <1>1, <1>12, <2>1 DEF Send, Goes
  <2>3. sounding' \subseteq Note
    <3>1. CASE \E kind \in Kinds, n \in Note : sounding' = Heard(kind, n)
      BY <1>1, <3>1, HeardType
    <3>2. CASE next[t] <= Len(table) /\ sounding' = Heard(table[next[t]].kind, table[next[t]].note)
      <4>1. next[t] \in 1 .. Len(table) /\ table \in Seq(Msg)
        BY <2>1, <3>2, LenProperties DEF IInv, InTable
      <4>2. table[next[t]].kind \in Kinds /\ table[next[t]].note \in Note
        BY <4>1, MessageParts
      <4> QED BY <1>1, <3>2, <4>2, HeardType
    <3> QED BY <1>12, <3>1, <3>2 DEF Send, Kinds
  <2>4. UNCHANGED <<g_stop, guest>>
    BY <1>12 DEF Send
  <2> QED BY <1>1, <2>2, <2>3, <2>4 DEF guest
<1>13. ASSUME NEW t \in Player, Leave(t) PROVE Typed'
  BY <1>1, <1>13 DEF Leave, At, Goes, guest
<1>14. CASE UNCHANGED vars
  BY <1>1, <1>14 DEF vars
<1> HIDE DEF Typed
<1> QED BY <1>2, <1>3, <1>4, <1>5, <1>6, <1>7, <1>8, <1>9, <1>10, <1>11, <1>12, <1>13, <1>14, Steps

\* The table is one, and its reader is within it.
LEMMA InTableStep == IInv /\ [Next]_vars => InTable'
<1> SUFFICES ASSUME IInv, [Next]_vars PROVE InTable'
  OBVIOUS
<1>1. InTable /\ Typed /\ Registering /\ MaxEvents \in Nat
  BY MusicAssumption DEF IInv
<1>2. ASSUME UNCHANGED <<table, player>> PROVE InTable'
  BY <1>1, <1>2 DEF InTable, player
<1>3. ASSUME NEW x \in Tune \cup {NoTune}, Register(x) PROVE InTable'
  BY <1>2, <1>3 DEF Register
<1>4. CASE WaitOver \/ WaitGivenUp \/ StartFails \/ UNCHANGED vars
  BY <1>2, <1>4 DEF WaitOver, WaitGivenUp, StartFails, vars, player
<1>5. CASE Quiet
  <2>1. table' \in Seq(Msg) /\ Len(table') <= MaxEvents
    <3>1. CASE table' = <<>>
      BY <1>1, <3>1, EmptySeq
    <3>2. CASE table' = table
      BY <1>1, <3>2 DEF InTable
    <3> QED BY <1>5, <3>1, <3>2 DEF Quiet
  <2> QED BY <1>1, <1>5, <2>1 DEF Quiet, InTable, player
<1>6. CASE Fill
  <2>1. tune \in Seq(Items)
    BY <1>1, <1>6, MusicAssumption DEF Fill, Registering
  <2>2. table' \in Seq(Msg) /\ Len(table') <= MaxEvents
    BY <1>6, <2>1, TuneSorted DEF Fill
  <2> QED BY <1>1, <1>6, <2>2 DEF Fill, InTable, player
<1>7. CASE Sort
  <2>1. tune \in Seq(Items) /\ table = Collect(tune)
    BY <1>1, <1>7, MusicAssumption DEF Sort, Registering
  <2>2. table' \in Seq(Msg) /\ Len(table') <= MaxEvents
    BY <1>7, <2>1, TuneSorted DEF Sort
  <2> QED BY <1>1, <1>7, <2>2 DEF Sort, InTable, player
<1>8. CASE Start
  <2>1. PICK t \in Player : NewPlayer(t)
    BY <1>8 DEF Start
  <2>2. ASSUME NEW u \in Player, ppc'[u] \in {"due", "send"} PROVE next'[u] <= MaxEvents
    BY <1>1, <2>1, <2>2 DEF NewPlayer, Typed, InTable
  <2>3. UNCHANGED table
    BY <1>8 DEF Start
  <2> QED BY <1>1, <2>2, <2>3 DEF InTable
<1>9. ASSUME NEW t \in Player, Look(t) \/ Due(t) \/ Send(t) \/ Leave(t) PROVE InTable'
  <2>1. UNCHANGED table
    BY <1>9 DEF Look, Due, Send, Leave
  <2>2. ASSUME NEW u \in Player, u # t, ppc'[u] \in {"due", "send"}
        PROVE  next'[u] <= MaxEvents
    <3>1. ppc'[u] = ppc[u] /\ next'[u] = next[u]
      BY <1>1, <1>9, <2>2 DEF Look, Due, Send, Leave, Goes, Typed
    <3> QED BY <1>1, <2>2, <3>1 DEF InTable
  <2>3. ASSUME ppc'[t] \in {"due", "send"} PROVE next'[t] <= MaxEvents
    <3>1. CASE Look(t)
      <4>1. next'[t] = next[t] /\ next[t] <= Len(table)
        BY <1>1, <2>3, <3>1 DEF Look, Goes, Typed
      <4>2. next[t] \in Nat /\ Len(table) \in Nat /\ Len(table) <= MaxEvents
        BY <1>1, LenProperties DEF Typed, InTable
      <4> QED BY <1>1, <4>1, <4>2
    <3>2. CASE Due(t)
      BY <1>1, <3>2 DEF Due, At, InTable
    <3>3. CASE Send(t) \/ Leave(t)
      BY <1>1, <2>3, <3>3 DEF Send, Leave, Goes, Typed
    <3> QED BY <1>9, <3>1, <3>2, <3>3
  <2> QED BY <1>1, <2>1, <2>2, <2>3 DEF InTable
<1> QED BY <1>3, <1>4, <1>5, <1>6, <1>7, <1>8, <1>9, Steps

\* Who plays and what is in the table while a tune is registered.
LEMMA RegisteringStep == IInv /\ [Next]_vars => Registering'
<1> SUFFICES ASSUME IInv, [Next]_vars PROVE Registering'
  OBVIOUS
<1>1. Registering /\ Typed
  BY DEF IInv
<1>2. ASSUME UNCHANGED <<table, guest>> PROVE Registering'
  BY <1>1, <1>2 DEF Registering, guest
<1>3. ASSUME NEW x \in Tune \cup {NoTune}, Register(x) PROVE Registering'
  BY <1>1, <1>3 DEF Register, Registering
<1>4. CASE WaitOver \/ WaitGivenUp
  BY <1>1, <1>4 DEF WaitOver, WaitGivenUp, Registering
<1>5. CASE Quiet
  BY <1>1, <1>5 DEF Quiet, Registering, Typed
<1>6. CASE Fill
  BY <1>1, <1>6 DEF Fill, Registering
<1>7. CASE Sort
  BY <1>1, <1>7 DEF Sort, Registering
<1>8. CASE StartFails \/ Start
  <2>1. gpc' = "game"
    BY <1>8 DEF StartFails, Start
  <2> QED BY <2>1 DEF Registering
<1>9. ASSUME NEW t \in Player, Look(t) \/ Due(t) \/ Send(t) \/ Leave(t) PROVE Registering'
  BY <1>2, <1>9 DEF Look, Due, Send, Leave
<1>10. CASE UNCHANGED vars
  BY <1>2, <1>10 DEF vars, guest
<1> QED BY <1>3, <1>4, <1>5, <1>6, <1>7, <1>8, <1>9, <1>10, Steps

\* There stays one player, and what it leaves is silent.
LEMMA OnePlayerStep == IInv /\ [Next]_vars => OnePlayer'
<1> SUFFICES ASSUME IInv, [Next]_vars, ~timedOut' PROVE Live' \subseteq {g_thread'}
  BY DEF OnePlayer
<1>1. OnePlayer /\ Registering /\ Typed
  BY DEF IInv
<1>2. ~timedOut
  BY Steps DEF Register, WaitOver, WaitGivenUp, Quiet, Fill, Sort, StartFails, Start, Look, Due,
               Send, Leave, guest, vars
<1>3. Live \subseteq {g_thread} /\ 0 \notin Player
  BY <1>1, <1>2 DEF OnePlayer, Player
<1>4. ASSUME UNCHANGED <<g_thread, player>> PROVE Live' \subseteq {g_thread'}
  BY <1>3, <1>4 DEF Live, player
<1>5. ASSUME NEW x \in Tune \cup {NoTune}, Register(x) PROVE Live' \subseteq {g_thread'}
  BY <1>4, <1>5 DEF Register
<1>6. CASE WaitOver
  <2>1. Live' = Live /\ g_thread \notin Live
    BY <1>6 DEF WaitOver, Live, player
  <2> QED BY <1>3, <2>1
<1>7. CASE Quiet \/ Fill \/ Sort \/ StartFails \/ UNCHANGED vars
  BY <1>4, <1>7 DEF Quiet, Fill, Sort, StartFails, vars, player
<1>8. CASE Start
  <2>1. PICK t \in Player : NewPlayer(t)
    BY <1>8 DEF Start
  <2>2. Live = {}
    <3>1. g_thread = 0
      BY <1>1, <1>8 DEF Start, Registering
    <3> QED BY <1>3, <3>1 DEF Live
  <2>3. Live' \subseteq {t}
    BY <1>1, <2>1, <2>2 DEF NewPlayer, Live, Typed
  <2> QED BY <2>1, <2>3 DEF NewPlayer
<1>9. ASSUME NEW t \in Player, Look(t) \/ Due(t) \/ Send(t) \/ Leave(t)
      PROVE  Live' \subseteq {g_thread'}
  <2>1. Live' \subseteq Live
    BY <1>1, <1>9 DEF Look, Due, Send, Leave, At, Goes, Live, Typed
  <2>2. g_thread' = g_thread
    BY <1>9 DEF Look, Due, Send, Leave, guest
  <2> QED BY <1>3, <2>1, <2>2
<1>10. ~WaitGivenUp
  BY DEF WaitGivenUp
<1> QED BY <1>5, <1>6, <1>7, <1>8, <1>9, <1>10, Steps

\* Whoever is the last to leave lets every note go.
LEMMA SilentStep == IInv /\ [Next]_vars => SilentAtRest'
<1> SUFFICES ASSUME IInv, [Next]_vars, Live' = {} PROVE sounding' = {}
  BY DEF SilentAtRest
<1>1. SilentAtRest /\ Typed
  BY DEF IInv
<1>2. ASSUME UNCHANGED <<player, sounding>> PROVE sounding' = {}
  BY <1>1, <1>2 DEF SilentAtRest, Live, player
<1>3. ASSUME NEW x \in Tune \cup {NoTune}, Register(x) PROVE sounding' = {}
  BY <1>2, <1>3 DEF Register
<1>4. CASE WaitOver \/ WaitGivenUp \/ Fill \/ Sort \/ StartFails \/ UNCHANGED vars
  BY <1>2, <1>4 DEF WaitOver, WaitGivenUp, Fill, Sort, StartFails, vars, player
<1>5. CASE Quiet
  BY <1>1, <1>2, <1>5 DEF Quiet, SilentAtRest
<1>6. ~Start
  <2>1. ASSUME NEW t \in Player, NewPlayer(t) PROVE FALSE
    <3>1. t \in Live'
      BY <1>1, <2>1 DEF NewPlayer, Live, Typed
    <3> QED BY <3>1
  <2> QED BY <2>1 DEF Start
<1>7. ASSUME NEW t \in Player, Look(t) \/ Due(t) \/ Send(t) PROVE FALSE
  <2>1. t \in Live'
    BY <1>1, <1>7 DEF Look, Due, Send, Goes, Live, Typed
  <2> QED BY <2>1
<1>8. ASSUME NEW t \in Player, Leave(t) PROVE sounding' = {}
  BY <1>8 DEF Leave
<1> QED BY <1>3, <1>4, <1>5, <1>6, <1>7, <1>8, Steps

\* Nobody stops the one player but by registering the next tune.
LEMMA UnstoppedStep == IInv /\ [Next]_vars => Unstopped'
<1> SUFFICES ASSUME IInv, [Next]_vars PROVE Unstopped'
  OBVIOUS
<1>1. Unstopped /\ Registering /\ Typed /\ 0 \notin Player /\ Len(table) \in Nat
  BY LenProperties DEF IInv, Player, InTable
<1>2. ASSUME gpc' # "game" \/ g_thread' = 0 \/ timedOut' PROVE Unstopped'
  BY <1>1, <1>2 DEF Unstopped
<1>3. ASSUME NEW x \in Tune \cup {NoTune}, Register(x) PROVE Unstopped'
  BY <1>2, <1>3 DEF Register
<1>4. CASE WaitOver \/ WaitGivenUp
  BY <1>2, <1>4 DEF WaitOver, WaitGivenUp
<1>5. CASE Quiet \/ Fill \/ Sort \/ StartFails
  BY <1>1, <1>2, <1>5 DEF Quiet, Fill, Sort, StartFails, Registering
<1>6. CASE Start
  <2>1. PICK t \in Player : NewPlayer(t)
    BY <1>6 DEF Start
  <2>2. /\ g_thread' = t /\ ppc'[t] = "look" /\ next'[t] = 1
        /\ g_stop' = FALSE /\ table' = table
    BY <1>1, <1>6, <2>1 DEF Start, NewPlayer, Typed
  <2>3. 1 <= Len(table) + 1
    BY <1>1
  <2> QED BY <2>2, <2>3 DEF Unstopped
<1>7. ASSUME NEW t \in Player, Look(t) \/ Due(t) \/ Send(t) \/ Leave(t) PROVE Unstopped'
  <2>1. UNCHANGED <<table, g_stop, g_thread, gpc, timedOut>>
    BY <1>7 DEF Look, Due, Send, Leave, guest
  <2> SUFFICES ASSUME t = g_thread, gpc = "game", ~timedOut
               PROVE  /\ ~g_stop
                      /\ ppc'[t] = "look" => next'[t] <= Len(table) + 1
                      /\ ppc'[t] \in {"due", "send"} => next'[t] <= Len(table)
                      /\ ppc'[t] \in {"off", "ended"} => next'[t] = Len(table) + 1
    <3>1. ASSUME NEW u \in Player, u # t PROVE ppc'[u] = ppc[u] /\ next'[u] = next[u]
      BY <1>1, <1>7, <3>1 DEF Look, Due, Send, Leave, Goes, Typed
    <3> QED BY <1>1, <2>1, <3>1 DEF Unstopped
  <2>2. /\ ~g_stop
        /\ ppc[t] = "look" => next[t] <= Len(table) + 1
        /\ ppc[t] \in {"due", "send"} => next[t] <= Len(table)
        /\ ppc[t] \in {"off", "ended"} => next[t] = Len(table) + 1
        /\ next[t] \in Int
    BY <1>1 DEF Unstopped, Typed
  <2>3. CASE Look(t)
    BY <1>1, <2>2, <2>3 DEF Look, At, Goes, Typed
  <2>4. CASE Due(t)
    BY <1>1, <2>2, <2>4 DEF Due, At, Goes, Typed
  <2>5. CASE Send(t)
    BY <1>1, <2>2, <2>5 DEF Send, At, Goes, Typed
  <2>6. CASE Leave(t)
    BY <1>1, <2>2, <2>6 DEF Leave, At, Goes, Typed
  <2> QED BY <1>7, <2>3, <2>4, <2>5, <2>6
<1>8. CASE UNCHANGED vars
  BY <1>1, <1>8 DEF Unstopped, vars
<1> QED BY <1>3, <1>4, <1>5, <1>6, <1>7, <1>8, Steps

\* The invariant is one.
LEMMA PlayerInductive == Spec => []IInv
<1>1. IInv /\ [Next]_vars => IInv'
  BY TypedStep, InTableStep, RegisteringStep, OnePlayerStep, SilentStep, UnstoppedStep DEF IInv
<1> QED BY InitHolds, <1>1, PTL DEF Spec

\* Every variable has its type, and g_ev is never filled past its end.
THEOREM MusicTypeCorrect == Spec => []TypeOK
BY PlayerInductive, TypesFollow, PTL

\* Every tune is parsed into a table whose ticks never go back, in which no
\* note is let go of before it is struck, and every one is let go of in the
\* end when no message had to be dropped: parse_evnt, emit and ev_cmp, for any
\* tune.
THEOREM TunesAreParsed == Spec => []ParsedTune
<1>1. IInv => ParsedTune
  <2> SUFFICES ASSUME IInv, gpc = "start"
               PROVE  Playable(table, Note) /\ (Fits(tune) => Answered(table, Note))
    BY DEF ParsedTune
  <2>1. tune \in Seq(Items) /\ table = Sorted(Collect(tune))
    BY MusicAssumption DEF IInv, Registering
  <2> QED BY <2>1, TuneSorted
<1> QED BY PlayerInductive, <1>1, PTL

\* There is one player at most, the one music_stop can stop, as long as its
\* wait has not been given up.
THEOREM OneAtATime == Spec => []OnePlayer
<1>1. IInv => OnePlayer
  BY DEF IInv
<1> QED BY PlayerInductive, <1>1, PTL

\* No note hangs once every player's thread is over.
THEOREM RestIsSilent == Spec => []SilentAtRest
<1>1. IInv => SilentAtRest
  BY DEF IInv
<1> QED BY PlayerInductive, <1>1, PTL

\* A tune that nobody stopped is played to its last message.
THEOREM TunesAreWhole == Spec => []WholeTune
<1>1. IInv => WholeTune
  BY DEF IInv, Unstopped, WholeTune
<1> QED BY PlayerInductive, <1>1, PTL

\* music_play_xmi fills and sorts the table only while no player reads it.
THEOREM TableIsLeftAlone == Spec => TableIsStill
<1>1. IInv /\ [Next]_vars => [table' # table => timedOut \/ Live = {}]_vars
  <2> SUFFICES ASSUME IInv, [Next]_vars, table' # table, ~timedOut PROVE Live = {}
    OBVIOUS
  <2>1. Quiet \/ Fill \/ Sort
    BY Steps DEF Register, WaitOver, WaitGivenUp, StartFails, Start, Look, Due, Send, Leave, vars
  <2>2. g_thread = 0
    BY <2>1 DEF Quiet, Fill, Sort, IInv, Registering
  <2>3. Live \subseteq {g_thread} /\ 0 \notin Player
    BY DEF IInv, OnePlayer, Player
  <2> QED BY <2>2, <2>3 DEF Live
<1> QED BY PlayerInductive, <1>1, PTL DEF Spec, TableIsStill
=============================================================================
