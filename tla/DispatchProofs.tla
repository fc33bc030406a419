--------------------------- MODULE DispatchProofs ---------------------------
(***************************************************************************)
(* The dispatcher keeps the guest's stack level, counts its depth, and     *)
(* runs one handler at a time, for any program: any set of functions, any  *)
(* depth of calls, any budget.                                             *)
(*                                                                         *)
(* Every action either begins a function (Enter, or an indirect jump that  *)
(* is taken), changes SP and one frame in place, or leaves the running     *)
(* function; the lemmas follow these shapes.  Level alone is not           *)
(* inductive: a return is right only if what it takes off is what the site *)
(* put on (Widths), and the end of a handler only if what was saved is the *)
(* level of the frame below (OneHandler).                                  *)
(***************************************************************************)
EXTENDS Dispatch, FiniteSetTheorems, SequenceTheorems, TLAPS

\* What a return takes off is what the site put on, for all but a handler.
Widths ==
  \A i \in DOMAIN frames :
    LET f == frames[i]
    IN  /\ f.pops <= f.width
        /\ f.kind \in {"start", "near", "far", "jump"} => f.width = f.pops
        /\ f.kind \in {"start", "isr", "chain"} => f.pops = 0

Counted == {i \in DOMAIN frames : frames[i].counted}

StackType == sp \in Int /\ frames \in Seq(Frame) /\ frames # <<>> /\ depth \in 0 .. MaxDepth + 1

\* What an action that changes the stack has to keep.
StackInv == StackType /\ Widths /\ DepthCounts /\ OneHandler /\ Level

\* A frame that may stand on the stack.
Sound(f) ==
  /\ f \in Frame /\ f.pops <= f.width
  /\ f.kind \in {"start", "near", "far", "jump"} => f.width = f.pops
  /\ f.kind \in {"start", "isr", "chain"} => f.pops = 0

\* The running function's frame becomes g.
Same(g) ==
  /\ Sound(g) /\ g.kind = Top.kind /\ g.counted = Top.counted
  /\ g.at + g.width = Top.at + Top.width
-----------------------------------------------------------------------------
\* There is always a frame, and the last one is on top.
LEMMA StackShape ==
  ASSUME StackType
  PROVE  /\ Last \in Nat \ {0} /\ DOMAIN frames = 1 .. Last
         /\ Top = frames[Last]
         /\ \A i \in 1 .. Last : frames[i] \in Frame
<1>1. frames \in Seq(Frame) /\ frames # <<>>
  BY DEF StackType
<1>2. Last \in Nat /\ DOMAIN frames = 1 .. Last /\ \A i \in 1 .. Last : frames[i] \in Frame
  BY <1>1 DEF Last
<1>3. Last # 0
  BY <1>1 DEF Last
<1> QED BY <1>2, <1>3 DEF Top

\* On a level stack every frame is sound.
LEMMA AllSound ==
  ASSUME StackInv
  PROVE  /\ \A i \in 1 .. Last : Sound(frames[i])
         /\ Sound(Top)
         /\ ~Top.off => sp = Top.at - Top.own
         /\ \A i \in 1 .. Last - 1 : ~frames[i].off =>
              frames[i + 1].at + frames[i + 1].width = frames[i].at - frames[i].own
<1> USE StackShape DEF StackInv
<1>1. \A i \in 1 .. Last : Sound(frames[i])
  BY DEF Sound, Widths
<1>2. \A i \in 1 .. Last : ~frames[i].off => LevelOf(i) = frames[i].at - frames[i].own
  BY DEF Level
<1>3. LevelOf(Last) = sp
  BY DEF LevelOf
<1>4. \A i \in 1 .. Last - 1 : LevelOf(i) = frames[i + 1].at + frames[i + 1].width
  BY DEF LevelOf
<1> QED BY <1>1, <1>2, <1>3, <1>4
-----------------------------------------------------------------------------
\* A function begins: g is what its caller's frame has become, f its own.
LEMMA Begins ==
  ASSUME StackInv, NEW f, NEW g, Same(g), Sound(f),
         frames' = Append([frames EXCEPT ![Last] = g], f),
         sp' = f.at - f.own,
         ~g.off => f.at + f.width = g.at - g.own,
         depth' = (IF f.counted THEN depth + 1 ELSE depth),
         f.counted => depth <= MaxDepth,
         IF f.kind = "isr" THEN ~inside /\ inside' /\ save'.sp = f.at + f.width
                           ELSE UNCHANGED isr
  PROVE  StackInv'
<1> DEFINE n == Last
<1>1. n \in Nat \ {0} /\ DOMAIN frames = 1 .. n /\ Top = frames[n] /\ \A i \in 1 .. n : frames[i] \in Frame
  BY StackShape DEF StackInv
<1>2. f \in Frame /\ g \in Frame
  BY DEF Same, Sound
<1>3. PICK h \in Seq(Frame) :
        /\ frames' = Append(h, f) /\ Len(h) = n
        /\ h[n] = g /\ \A i \in 1 .. n - 1 : h[i] = frames[i]
  <2>1. [frames EXCEPT ![Last] = g] \in Seq(Frame) /\ Len([frames EXCEPT ![Last] = g]) = n
    BY <1>1, <1>2 DEF StackInv, StackType, Last
  <2>2. /\ [frames EXCEPT ![Last] = g][n] = g
        /\ \A i \in 1 .. n - 1 : [frames EXCEPT ![Last] = g][i] = frames[i]
    BY <1>1
  <2> QED BY <2>1, <2>2
<1>4. /\ frames' \in Seq(Frame) /\ Len(frames') = n + 1 /\ DOMAIN frames' = 1 .. n + 1
      /\ \A i \in 1 .. n - 1 : frames'[i] = frames[i]
      /\ frames'[n] = g /\ frames'[n + 1] = f
  <2> HIDE DEF n
  <2>1. /\ Append(h, f) \in Seq(Frame) /\ Len(Append(h, f)) = n + 1
        /\ \A i \in 1 .. n : Append(h, f)[i] = h[i]
        /\ Append(h, f)[n + 1] = f
    BY <1>2, <1>3, AppendProperties
  <2>2. DOMAIN Append(h, f) = 1 .. n + 1
    BY <2>1
  <2>3. frames' \in Seq(Frame) /\ Len(frames') = n + 1 /\ DOMAIN frames' = 1 .. n + 1
    BY <1>3, <2>1, <2>2
  <2>4. n \in 1 .. n /\ \A i \in 1 .. n - 1 : i \in 1 .. n
    BY <1>1
  <2>5. frames'[n] = g /\ \A i \in 1 .. n - 1 : frames'[i] = frames[i]
    BY <1>3, <2>1, <2>4
  <2>6. frames'[n + 1] = f
    BY <1>3, <2>1
  <2> QED BY <2>3, <2>5, <2>6
<1>5. Last' = n + 1 /\ Top' = f
  BY <1>4 DEF Last, Top
<1> HIDE DEF n
<1>6. StackType'
  <2>1. depth \in 0 .. MaxDepth + 1 /\ MaxDepth \in Nat
    BY DispatchAssumption DEF StackInv, StackType
  <2>2. sp' \in Int
    BY <1>2 DEF Frame
  <2>3. frames' # <<>>
    BY <1>1, <1>4
  <2> QED BY <1>4, <2>1, <2>2, <2>3 DEF StackType
<1>7. \A i \in 1 .. n + 1 : Sound(frames'[i])
  <2>1. \A i \in 1 .. n : Sound(frames[i])
    BY AllSound DEF n
  <2> QED BY <1>1, <1>4, <2>1 DEF Same
<1>8. Widths'
  BY <1>4, <1>7 DEF Widths, Sound
<1>9. DepthCounts'
  <2> DEFINE C == {i \in 1 .. n : frames[i].counted}
  <2>1. Counted = C /\ depth = Cardinality(C)
    BY <1>1 DEF Counted, StackInv, DepthCounts
  <2>2. IsFiniteSet(C)
    <3>1. IsFiniteSet(1 .. n)
      BY <1>1, FS_Interval
    <3> QED BY <3>1, FS_Subset
  <2>3. Counted' = IF f.counted THEN C \cup {n + 1} ELSE C
    <3>1. Counted' = {i \in 1 .. n + 1 : frames'[i].counted}
      BY <1>4 DEF Counted
    <3>2. \A i \in 1 .. n : frames'[i].counted = frames[i].counted
      BY <1>1, <1>4 DEF Same
    <3>3. ASSUME f.counted PROVE {i \in 1 .. n + 1 : frames'[i].counted} = C \cup {n + 1}
      BY <1>1, <1>4, <3>2, <3>3
    <3>4. ASSUME ~f.counted PROVE {i \in 1 .. n + 1 : frames'[i].counted} = C
      BY <1>1, <1>4, <3>2, <3>4
    <3> QED BY <3>1, <3>3, <3>4
  <2>4. n + 1 \notin C
    BY <1>1
  <2>5. Cardinality(C \cup {n + 1}) = Cardinality(C) + 1
    BY <2>2, <2>4, FS_AddElement
  <2> QED BY <2>1, <2>3, <2>5 DEF DepthCounts, Counted
<1>10. OneHandler'
  <2>1. /\ inside <=> \E i \in 1 .. n : frames[i].kind = "isr"
        /\ \A i, j \in 1 .. n : frames[i].kind = "isr" /\ frames[j].kind = "isr" => i = j
        /\ \A i \in 1 .. n : frames[i].kind = "isr" => save.sp = frames[i].at + frames[i].width
    BY <1>1 DEF StackInv, OneHandler
  <2>2. \A i \in 1 .. n : /\ frames'[i].kind = frames[i].kind
                          /\ frames'[i].at + frames'[i].width = frames[i].at + frames[i].width
    BY <1>1, <1>4 DEF Same
  <2>3. CASE f.kind = "isr"
    <3>1. \A i \in 1 .. n : frames'[i].kind # "isr"
      BY <2>1, <2>2, <2>3
    <3>2. \A i \in 1 .. n + 1 : frames'[i].kind = "isr" => i = n + 1
      BY <1>1, <3>1
    <3> QED BY <1>1, <1>4, <2>3, <3>2 DEF OneHandler
  <2>4. CASE f.kind # "isr"
    <3>1. \A i \in 1 .. n + 1 : frames'[i].kind = "isr" => i \in 1 .. n /\ frames[i].kind = "isr"
      BY <1>1, <1>4, <2>2, <2>4
    <3>2. inside' = inside /\ save' = save
      BY <2>4 DEF isr
    <3>3. inside' <=> \E i \in 1 .. n + 1 : frames'[i].kind = "isr"
      BY <1>1, <2>1, <2>2, <3>1, <3>2
    <3>4. \A i, j \in 1 .. n + 1 : frames'[i].kind = "isr" /\ frames'[j].kind = "isr" => i = j
      BY <2>1, <3>1
    <3>5. \A i \in 1 .. n + 1 :
            frames'[i].kind = "isr" => save'.sp = frames'[i].at + frames'[i].width
      BY <2>1, <2>2, <3>1, <3>2
    <3> QED BY <1>4, <3>3, <3>4, <3>5 DEF OneHandler
  <2> QED BY <2>3, <2>4
<1>11. Level'
  <2> SUFFICES ASSUME NEW i \in 1 .. n + 1, ~frames'[i].off
               PROVE  LevelOf(i)' = frames'[i].at - frames'[i].own
    BY <1>4 DEF Level
  <2>1. CASE i = n + 1
    BY <1>4, <1>5, <2>1 DEF LevelOf
  <2>2. CASE i = n
    <3>1. LevelOf(i)' = f.at + f.width
      BY <1>1, <1>4, <1>5, <2>2 DEF LevelOf
    <3> QED BY <1>4, <2>2, <3>1
  <2>3. CASE i < n
    <3>1. i \in 1 .. n - 1 /\ i + 1 \in 1 .. n
      BY <1>1, <2>3
    <3>2. LevelOf(i)' = frames'[i + 1].at + frames'[i + 1].width
      BY <1>1, <1>5, <2>3 DEF LevelOf
    <3>3. frames'[i + 1].at + frames'[i + 1].width = frames[i + 1].at + frames[i + 1].width
      BY <1>1, <1>4, <3>1 DEF Same
    <3>4. frames'[i] = frames[i]
      BY <1>4, <3>1
    <3> QED BY <3>1, <3>2, <3>3, <3>4, AllSound DEF n
  <2> QED BY <1>1, <2>1, <2>2, <2>3
<1> QED BY <1>6, <1>8, <1>9, <1>10, <1>11 DEF StackInv

\* The running function's frame becomes g, in place.
LEMMA Stays ==
  ASSUME StackInv, NEW g, Same(g),
         frames' = [frames EXCEPT ![Last] = g],
         sp' \in Int, ~g.off => sp' = g.at - g.own,
         depth' = depth, UNCHANGED isr
  PROVE  StackInv'
<1> DEFINE n == Last
<1>1. n \in Nat \ {0} /\ DOMAIN frames = 1 .. n /\ Top = frames[n] /\ \A i \in 1 .. n : frames[i] \in Frame
  BY StackShape DEF StackInv
<1>2. g \in Frame
  BY DEF Same, Sound
<1>3. /\ frames' \in Seq(Frame) /\ Len(frames') = n /\ DOMAIN frames' = 1 .. n
      /\ frames'[n] = g /\ \A i \in 1 .. n - 1 : frames'[i] = frames[i]
  <2>1. frames' \in Seq(Frame) /\ Len(frames') = n
    BY <1>1, <1>2 DEF StackInv, StackType, Last
  <2> QED BY <1>1, <2>1
<1>4. Last' = n
  BY <1>3 DEF Last
<1> HIDE DEF n
<1>5. StackType'
  <2>1. frames' # <<>>
    BY <1>1, <1>3
  <2> QED BY <1>3, <2>1 DEF StackInv, StackType
<1>6. \A i \in 1 .. n : Sound(frames'[i])
  <2>1. \A i \in 1 .. n : Sound(frames[i])
    BY AllSound DEF n
  <2> QED BY <1>1, <1>3, <2>1 DEF Same
<1>7. Widths'
  BY <1>3, <1>6 DEF Widths, Sound
<1>8. \A i \in 1 .. n : /\ frames'[i].kind = frames[i].kind
                        /\ frames'[i].counted = frames[i].counted
                        /\ frames'[i].at + frames'[i].width = frames[i].at + frames[i].width
  BY <1>1, <1>3 DEF Same
<1>9. DepthCounts'
  <2>1. {i \in 1 .. n : frames'[i].counted} = {i \in 1 .. n : frames[i].counted}
    BY <1>8
  <2> QED BY <1>1, <1>3, <2>1 DEF DepthCounts, StackInv
<1>10. OneHandler'
  <2>1. inside' = inside /\ save' = save
    BY DEF isr
  <2> QED BY <1>1, <1>3, <1>8, <2>1 DEF OneHandler, StackInv
<1>11. Level'
  <2> SUFFICES ASSUME NEW i \in 1 .. n, ~frames'[i].off
               PROVE  LevelOf(i)' = frames'[i].at - frames'[i].own
    BY <1>3 DEF Level
  <2>1. CASE i = n
    BY <1>3, <1>4, <2>1 DEF LevelOf
  <2>2. CASE i # n
    <3>1. i \in 1 .. n - 1 /\ i + 1 \in 1 .. n
      BY <1>1, <2>2
    <3>2. LevelOf(i)' = frames'[i + 1].at + frames'[i + 1].width
      BY <1>4, <2>2 DEF LevelOf
    <3>3. frames'[i] = frames[i]
      BY <1>3, <3>1
    <3> QED BY <1>8, <3>1, <3>2, <3>3, AllSound DEF n
  <2> QED BY <2>1, <2>2
<1> QED BY <1>5, <1>7, <1>9, <1>10, <1>11 DEF StackInv

\* The running function is left.  Where it leaves SP matters only if its
\* caller is to stay level, and not at the end of a handler.
LEMMA Leaves ==
  ASSUME StackInv, Last > 1, NEW level \in Int, NEW spoil \in BOOLEAN, NEW stops,
         Leave(level, spoil, stops), save \in [sp : Int, halted : BOOLEAN],
         Top.kind # "isr" /\ ~spoil => level = Top.at + Top.width
  PROVE  StackInv'
<1> DEFINE n == Last - 1
<1>1. n \in Nat \ {0} /\ Last = n + 1 /\ DOMAIN frames = 1 .. n + 1 /\ Top = frames[n + 1]
      /\ \A i \in 1 .. n + 1 : frames[i] \in Frame
  BY StackShape DEF StackInv
<1>2. PICK b \in BOOLEAN :
        /\ frames' = Below(b) /\ depth' = OuterDepth /\ save' = save
        /\ IF Top.kind = "isr" THEN ~b /\ sp' = save.sp /\ inside' = FALSE
                               ELSE b = spoil /\ sp' = level /\ inside' = inside
  BY DEF Leave
<1>3. /\ frames' = [i \in 1 .. n |-> IF i = n /\ b THEN [frames[i] EXCEPT !.off = TRUE]
                                                  ELSE frames[i]]
  BY <1>2 DEF Below
<1> HIDE DEF n
<1>4. \A i \in 1 .. n : [frames[i] EXCEPT !.off = TRUE] \in Frame
  <2>1. \A f \in Frame : [f EXCEPT !.off = TRUE] \in Frame
    BY DEF Frame
  <2> QED BY <1>1, <2>1
<1>5. /\ frames' \in Seq(Frame) /\ Len(frames') = n /\ DOMAIN frames' = 1 .. n
  <2>1. \A i \in 1 .. n : frames'[i] \in Frame
    BY <1>1, <1>3, <1>4
  <2>2. frames' \in [1 .. n -> Frame]
    BY <1>3, <2>1
  <2> QED BY <1>1, <2>2
<1>6. Last' = n
  BY <1>5 DEF Last
<1>7. \A i \in 1 .. n : /\ frames'[i].kind = frames[i].kind
                        /\ frames'[i].counted = frames[i].counted
                        /\ frames'[i].at = frames[i].at /\ frames'[i].own = frames[i].own
                        /\ frames'[i].width = frames[i].width /\ frames'[i].pops = frames[i].pops
                        /\ frames'[i].off = (frames[i].off \/ (i = n /\ b))
  <2> SUFFICES ASSUME NEW i \in 1 .. n
               PROVE  /\ frames'[i].kind = frames[i].kind
                      /\ frames'[i].counted = frames[i].counted
                      /\ frames'[i].at = frames[i].at /\ frames'[i].own = frames[i].own
                      /\ frames'[i].width = frames[i].width /\ frames'[i].pops = frames[i].pops
                      /\ frames'[i].off = (frames[i].off \/ (i = n /\ b))
    OBVIOUS
  <2>1. frames[i] \in Frame
    BY <1>1
  <2>2. CASE i = n /\ b
    BY <1>3, <2>1, <2>2 DEF Frame
  <2>3. CASE ~(i = n /\ b)
    BY <1>3, <2>1, <2>3 DEF Frame
  <2> QED BY <2>2, <2>3
<1>8. \A i \in 1 .. n + 1 : Sound(frames[i])
  BY <1>1, AllSound
<1>9. Widths'
  BY <1>1, <1>5, <1>7, <1>8 DEF Widths, Sound
<1>10. DepthCounts' /\ depth' \in 0 .. MaxDepth + 1
  <2> DEFINE C == {i \in 1 .. n : frames[i].counted}
  <2>1. IsFiniteSet(C)
    <3>1. IsFiniteSet(1 .. n)
      BY <1>1, FS_Interval
    <3> QED BY <3>1, FS_Subset
  <2>2. Cardinality(C) \in Nat
    BY <2>1, FS_CardinalityType
  <2>3. n + 1 \notin C
    BY <1>1
  <2>4. Cardinality(C \cup {n + 1}) = Cardinality(C) + 1
    BY <2>1, <2>3, FS_AddElement
  <2>5. depth = Cardinality({i \in 1 .. n + 1 : frames[i].counted})
    BY <1>1 DEF StackInv, DepthCounts
  <2>6. {i \in 1 .. n : frames'[i].counted} = C
    BY <1>7
  <2>7. depth' = Cardinality(C)
    <3>1. CASE Top.counted
      <4>1. {i \in 1 .. n + 1 : frames[i].counted} = C \cup {n + 1}
        BY <1>1, <3>1
      <4>2. depth = Cardinality(C) + 1
        BY <2>4, <2>5, <4>1
      <4>3. depth' = depth - 1
        BY <1>2, <3>1 DEF OuterDepth
      <4> HIDE DEF C
      <4> QED BY <2>2, <4>2, <4>3
    <3>2. CASE ~Top.counted
      <4>1. {i \in 1 .. n + 1 : frames[i].counted} = C
        BY <1>1, <3>2
      <4> QED BY <1>2, <2>5, <3>2, <4>1 DEF OuterDepth
    <3> QED BY <3>1, <3>2
  <2>8. depth \in 0 .. MaxDepth + 1 /\ depth' \in {depth, depth - 1}
    BY <1>2 DEF OuterDepth, StackInv, StackType
  <2>9. depth' \in 0 .. MaxDepth + 1
    BY <2>2, <2>7, <2>8, DispatchAssumption
  <2> QED BY <1>5, <2>6, <2>7, <2>9 DEF DepthCounts
<1>11. StackType'
  <2>1. sp' \in Int
    BY <1>2
  <2>2. frames' # <<>>
    BY <1>1, <1>5
  <2> QED BY <1>5, <1>10, <2>1, <2>2 DEF StackType
<1>12. OneHandler'
  <2>1. /\ inside <=> \E i \in 1 .. n + 1 : frames[i].kind = "isr"
        /\ \A i, j \in 1 .. n + 1 : frames[i].kind = "isr" /\ frames[j].kind = "isr" => i = j
        /\ \A i \in 1 .. n + 1 : frames[i].kind = "isr" => save.sp = frames[i].at + frames[i].width
    BY <1>1 DEF StackInv, OneHandler
  <2>2. \A i \in 1 .. n : i \in 1 .. n + 1 /\ i # n + 1
    BY <1>1
  <2>3. inside' <=> \E i \in 1 .. n : frames'[i].kind = "isr"
    <3>1. CASE Top.kind = "isr"
      <4>1. \A i \in 1 .. n : frames'[i].kind # "isr"
        BY <1>1, <1>7, <2>1, <2>2, <3>1
      <4> QED BY <1>2, <3>1, <4>1
    <3>2. CASE Top.kind # "isr"
      <4>1. \A i \in 1 .. n + 1 : frames[i].kind = "isr" => i \in 1 .. n
        BY <1>1, <3>2
      <4> QED BY <1>2, <1>7, <2>1, <2>2, <3>2, <4>1
    <3> QED BY <3>1, <3>2
  <2> QED BY <1>2, <1>5, <1>7, <2>1, <2>2, <2>3 DEF OneHandler
<1>13. Level'
  <2> SUFFICES ASSUME NEW i \in 1 .. n, ~frames'[i].off
               PROVE  LevelOf(i)' = frames'[i].at - frames'[i].own
    BY <1>5 DEF Level
  <2>1. ~frames[i].off /\ ~(i = n /\ b)
    BY <1>7
  <2>2. frames[i + 1].at + frames[i + 1].width = frames[i].at - frames[i].own
    BY <1>1, <2>1, AllSound
  <2>3. CASE i = n
    <3>1. LevelOf(i)' = sp'
      BY <1>6, <2>3 DEF LevelOf
    <3>2. sp' = Top.at + Top.width
      <4>1. CASE Top.kind = "isr"
        BY <1>1, <1>2, <4>1 DEF StackInv, OneHandler
      <4>2. CASE Top.kind # "isr"
        BY <1>2, <2>1, <2>3, <4>2
      <4> QED BY <4>1, <4>2
    <3> QED BY <1>1, <1>7, <2>2, <2>3, <3>1, <3>2
  <2>4. CASE i # n
    <3>1. i + 1 \in 1 .. n
      BY <1>1, <2>4
    <3>2. LevelOf(i)' = frames'[i + 1].at + frames'[i + 1].width
      BY <1>6, <2>4 DEF LevelOf
    <3> QED BY <1>7, <2>2, <3>1, <3>2
  <2> QED BY <2>3, <2>4
<1> QED BY <1>9, <1>10, <1>11, <1>12, <1>13 DEF StackInv
-----------------------------------------------------------------------------
\* Nothing happens to the stack.
LEMMA Rests == StackInv /\ UNCHANGED <<stack, isr>> => StackInv'
BY DEF StackInv, StackType, Widths, DepthCounts, OneHandler, Level, LevelOf, Last,
       stack, isr

\* A step that leaves the frames alone leaves the top as it was.
LEMMA TopMayStay == StackInv => Same(Top) /\ frames = [frames EXCEPT ![Last] = Top]
<1> SUFFICES ASSUME StackInv PROVE Same(Top) /\ frames = [frames EXCEPT ![Last] = Top]
  OBVIOUS
<1>1. Last \in 1 .. Last /\ DOMAIN frames = 1 .. Last /\ Top = frames[Last]
  BY StackShape DEF StackInv
<1>2. frames = [i \in DOMAIN frames |-> frames[i]]
  BY DEF StackInv, StackType
<1> QED BY <1>1, <1>2, AllSound DEF Same

\* A site that nothing is lost at changes nothing.
LEMMA ResumeKeeps ==
  ASSUME StackInv, Resume(0), UNCHANGED isr
  PROVE  StackInv'
<1>1. UNCHANGED <<sp, frames, depth>>
  BY DEF Resume, StackInv, StackType
<1> QED BY <1>1, Rests DEF stack

\* A site that comes back n bytes too low has marked its function.
LEMMA BackLowKeeps ==
  ASSUME StackInv, NEW n \in Int, BackLow(n), UNCHANGED isr
  PROVE  StackInv'
<1> DEFINE g == [Top EXCEPT !.off = TRUE]
<1>1. Sound(Top) /\ Top \in Frame
  BY AllSound DEF Sound
<1>2. \A f \in Frame : /\ [f EXCEPT !.off = TRUE] \in Frame
                       /\ [f EXCEPT !.off = TRUE].kind = f.kind
                       /\ [f EXCEPT !.off = TRUE].width = f.width
                       /\ [f EXCEPT !.off = TRUE].pops = f.pops
                       /\ [f EXCEPT !.off = TRUE].at = f.at
                       /\ [f EXCEPT !.off = TRUE].counted = f.counted
                       /\ [f EXCEPT !.off = TRUE].off
  BY DEF Frame
<1>3. Same(g) /\ g.off
  BY <1>1, <1>2 DEF Same, Sound
<1>4. frames' = [frames EXCEPT ![Last] = g] /\ sp' \in Int /\ depth' = depth
  <2>1. [frames EXCEPT ![Last].off = TRUE] = [frames EXCEPT ![Last] = g]
    BY DEF Top
  <2> QED BY <2>1 DEF BackLow, StackInv, StackType
<1> HIDE DEF g
<1> QED BY <1>3, <1>4, Stays

\* A call that is taken begins a function.
LEMMA EnterKeeps ==
  ASSUME StackInv, NEW k \in {"near", "far", "isr", "chain"}, NEW t, NEW c \in BOOLEAN,
         Enter(k, Width[k], IF k \in {"near", "far"} THEN Width[k] ELSE 0, t, c),
         c => depth <= MaxDepth,
         IF k = "isr" THEN ~inside /\ inside' /\ save'.sp = sp ELSE UNCHANGED isr
  PROVE  StackInv'
<1> DEFINE f == [kind |-> k, width |-> Width[k],
                 pops |-> IF k \in {"near", "far"} THEN Width[k] ELSE 0,
                 at |-> sp - Width[k], own |-> 0, framed |-> t \in Framed,
                 counted |-> c, off |-> FALSE]
<1>1. Width[k] \in Nat /\ k \in Kind /\ sp \in Int
  BY DEF Width, Kind, StackInv, StackType
<1>2. Sound(f)
  BY <1>1 DEF Sound, Frame
<1>3. /\ f.at + f.width = sp /\ f.own = 0 /\ f.kind = k /\ f.counted = c
      /\ sp' = f.at - f.own
  BY <1>1 DEF Enter
<1>4. frames' = Append([frames EXCEPT ![Last] = Top], f)
  BY TopMayStay DEF Enter
<1>5. depth' = IF f.counted THEN depth + 1 ELSE depth
  BY DEF Enter
<1>6. ~Top.off => f.at + f.width = Top.at - Top.own
  BY <1>3, AllSound
<1>7. IF f.kind = "isr" THEN ~inside /\ inside' /\ save'.sp = f.at + f.width
                        ELSE UNCHANGED isr
  BY <1>3
<1>8. f.counted => depth <= MaxDepth
  BY <1>3
<1> HIDE DEF f
<1> QED BY <1>2, <1>3, <1>4, <1>5, <1>6, <1>7, <1>8, TopMayStay, Begins
-----------------------------------------------------------------------------
(* One lemma for each action that can change the stack.                    *)

\* An indirect call: a frame begins, or what was pushed is taken off again.
LEMMA CallKeeps ==
  ASSUME StackInv, NEW k \in {"near", "far", "chain"}, NEW t, CallIndirect(k, t)
  PROVE  StackInv'
<1>1. Width[k] \in Int /\ Width[k] - Repair(k) \in Int
  BY DEF Width, Repair
<1>2. UNCHANGED isr
  BY DEF CallIndirect
<1>3. CASE BackLow(Width[k] - Repair(k)) \/ BackLow(Width[k])
  BY <1>1, <1>2, <1>3, BackLowKeeps
<1>4. CASE k # "chain" /\ Resume(Width[k] - Repair(k))
  <2>1. Width[k] - Repair(k) = 0
    BY <1>4 DEF Width, Repair
  <2> QED BY <1>2, <1>4, <2>1, ResumeKeeps
<1>5. CASE ~Declines(t) /\ Enter(k, Width[k], IF k = "chain" THEN 0 ELSE Width[k], t, TRUE)
  <2>1. (IF k = "chain" THEN 0 ELSE Width[k]) = IF k \in {"near", "far"} THEN Width[k] ELSE 0
    OBVIOUS
  <2>2. depth <= MaxDepth
    BY <1>5, DispatchAssumption DEF Declines, TooDeep, StackInv, StackType
  <2> QED BY <1>2, <1>5, <2>1, <2>2, EnterKeeps
<1> QED BY <1>3, <1>4, <1>5 DEF CallIndirect

\* A direct call begins a frame.
LEMMA DirectKeeps ==
  ASSUME StackInv, NEW k \in {"near", "far"}, NEW t, CallDirect(k, t)
  PROVE  StackInv'
<1>1. Width[k] \in Int
  BY DEF Width
<1>2. UNCHANGED isr
  BY DEF CallDirect
<1>3. CASE BackLow(Width[k])
  BY <1>1, <1>2, <1>3, BackLowKeeps
<1>4. CASE Enter(k, Width[k], Width[k], t, FALSE)
  BY <1>2, <1>4, EnterKeeps
<1> QED BY <1>3, <1>4 DEF CallDirect

\* A call of a stub takes off what was pushed for it.
LEMMA StubKeeps ==
  ASSUME StackInv, NEW k \in {"near", "far"}, CallStub(k)
  PROVE  StackInv'
<1>1. Width[k] - StubPops(k) = 0
  BY DEF Width, StubPops
<1> QED BY <1>1, ResumeKeeps DEF CallStub

\* A function's own pushes and pops move its level and SP together.
LEMMA OwnKeeps ==
  ASSUME StackInv, PushOwn \/ PopOwn
  PROVE  StackInv'
<1>1. Sound(Top) /\ Top \in Frame /\ (~Top.off => sp = Top.at - Top.own)
  BY AllSound DEF Sound
<1>2. ASSUME NEW f \in Frame, NEW o \in Nat
      PROVE  /\ [f EXCEPT !.own = o] \in Frame
             /\ [f EXCEPT !.own = o].kind = f.kind /\ [f EXCEPT !.own = o].at = f.at
             /\ [f EXCEPT !.own = o].width = f.width /\ [f EXCEPT !.own = o].pops = f.pops
             /\ [f EXCEPT !.own = o].off = f.off /\ [f EXCEPT !.own = o].own = o
             /\ [f EXCEPT !.own = o].counted = f.counted
  BY DEF Frame
<1>3. PICK d \in {2, -2} : /\ Top.own + d \in Nat /\ sp' = sp - d
                          /\ frames' = [frames EXCEPT ![Last].own = @ + d]
  <2>1. Top.own \in Nat
    BY <1>1 DEF Frame
  <2>2. CASE PushOwn
    BY <2>1, <2>2 DEF PushOwn
  <2>3. CASE PopOwn
    <3>1. Top.own + (-2) = Top.own - 2 /\ Top.own - 2 \in Nat /\ sp + 2 = sp - (-2)
      BY <2>1, <2>3 DEF PopOwn, StackInv, StackType
    <3>2. [frames EXCEPT ![Last].own = @ - 2] = [frames EXCEPT ![Last].own = @ + (-2)]
      BY <3>1 DEF Top
    <3> QED BY <2>3, <3>1, <3>2 DEF PopOwn
  <2> QED BY <2>2, <2>3
<1> DEFINE g == [Top EXCEPT !.own = Top.own + d]
<1>4. Same(g) /\ g.off = Top.off /\ g.own = Top.own + d /\ g.at = Top.at
  BY <1>1, <1>2, <1>3 DEF Same, Sound
<1>5. frames' = [frames EXCEPT ![Last] = g]
  BY <1>3 DEF Top
<1> HIDE DEF g
<1>6. sp' \in Int /\ (~g.off => sp' = g.at - g.own)
  <2>1. sp \in Int /\ Top.at \in Int /\ Top.own \in Nat
    BY <1>1 DEF StackInv, StackType, Frame
  <2>2. d \in Int /\ sp' = sp - d
    BY <1>3
  <2>3. ~g.off => sp = Top.at - Top.own
    BY <1>1, <1>4
  <2> QED BY <1>4, <2>1, <2>2, <2>3
<1>7. depth' = depth /\ UNCHANGED isr
  BY DEF PushOwn, PopOwn
<1> QED BY <1>4, <1>5, <1>6, <1>7, Stays

\* A return takes off the frame and what the site pushed.
LEMMA ReturnKeeps ==
  ASSUME StackInv, save \in [sp : Int, halted : BOOLEAN], Return
  PROVE  StackInv'
<1>1. Sound(Top) /\ Top \in Frame /\ (~Top.off => sp = Top.at - Top.own)
  BY AllSound DEF Sound
<1>2. /\ sp \in Int /\ Top.at \in Int /\ Top.pops \in Nat /\ Top.width \in Nat
      /\ Top.own \in Nat /\ Top.off \in BOOLEAN /\ Top.kind \in Kind
  BY <1>1 DEF StackInv, StackType, Frame
<1>3. Last > 1
  BY DEF Return
<1>4. Top.kind \in {"near", "far", "jump"} \/ Top.kind = "start" \/ Top.kind \in {"isr", "chain"}
  BY <1>2 DEF Kind
<1>5. Top.kind \notin {"isr", "chain"} => Top.pops = Top.width
  BY <1>1, <1>2, <1>4 DEF Sound
<1>6. CASE Leave(Top.at + Top.pops, Top.kind = "chain", halted)
  <2>1. Top.at + Top.pops \in Int /\ (Top.kind = "chain") \in BOOLEAN
    BY <1>2
  <2>2. Top.kind # "isr" /\ ~(Top.kind = "chain") => Top.at + Top.pops = Top.at + Top.width
    BY <1>5
  <2> QED BY <1>3, <1>6, <2>1, <2>2, Leaves
<1>7. CASE Top.own = 0 /\ Leave(sp + Top.pops, Top.off \/ Top.kind = "chain", halted)
  <2>1. sp + Top.pops \in Int /\ (Top.off \/ Top.kind = "chain") \in BOOLEAN
    BY <1>2
  <2>2. Top.kind # "isr" /\ ~(Top.off \/ Top.kind = "chain") => sp + Top.pops = Top.at + Top.width
    BY <1>1, <1>2, <1>5, <1>7
  <2> QED BY <1>3, <1>7, <2>1, <2>2, Leaves
<1> QED BY <1>6, <1>7 DEF Return

\* A tail jump puts one frame in the place of another, of the same width.
LEMMA JumpKeeps ==
  ASSUME StackInv, save \in [sp : Int, halted : BOOLEAN], NEW t, JumpIndirect(t)
  PROVE  StackInv'
<1>1. Sound(Top) /\ Top \in Frame /\ (~Top.off => sp = Top.at - Top.own)
  BY AllSound DEF Sound
<1>2. /\ sp \in Int /\ Top.at \in Int /\ Top.pops \in Nat /\ Top.width \in Nat
      /\ Top.pops <= Top.width /\ Top.own = 0 /\ Last > 1
  BY <1>1 DEF StackInv, StackType, Frame, Sound, JumpIndirect
<1>3. CASE Leave(sp, TRUE, halted \/ Exhausts(t))
  BY <1>2, <1>3, Leaves
<1>4. CASE /\ ~Declines(t)
           /\ frames' = Append([frames EXCEPT ![Last] =
                                 [Top EXCEPT !.at = Top.at + Top.pops,
                                             !.width = Top.width - Top.pops, !.pops = 0]],
                               [kind |-> "jump", width |-> Top.pops, pops |-> Top.pops,
                                at |-> sp, own |-> 0, framed |-> t \in Framed,
                                counted |-> TRUE, off |-> FALSE])
           /\ depth' = depth + 1 /\ UNCHANGED <<sp, halted, isr>>
  <2> DEFINE g == [Top EXCEPT !.at = Top.at + Top.pops, !.width = Top.width - Top.pops,
                              !.pops = 0]
             f == [kind |-> "jump", width |-> Top.pops, pops |-> Top.pops,
                   at |-> sp, own |-> 0, framed |-> t \in Framed,
                   counted |-> TRUE, off |-> FALSE]
             R(h, a, w) == [h EXCEPT !.at = a, !.width = w, !.pops = 0]
  <2>1. ASSUME NEW h \in Frame, NEW a \in Int, NEW w \in Nat
        PROVE  /\ R(h, a, w) \in Frame /\ R(h, a, w).kind = h.kind
               /\ R(h, a, w).at = a /\ R(h, a, w).width = w
               /\ R(h, a, w).pops = 0 /\ R(h, a, w).own = h.own
               /\ R(h, a, w).off = h.off /\ R(h, a, w).counted = h.counted
    BY DEF Frame
  <2>2. /\ g \in Frame /\ g.kind = Top.kind /\ g.at = Top.at + Top.pops
        /\ g.width = Top.width - Top.pops
        /\ g.pops = 0 /\ g.own = 0 /\ g.off = Top.off /\ g.counted = Top.counted
    <3>1. Top.at + Top.pops \in Int /\ Top.width - Top.pops \in Nat
      BY <1>2
    <3>2. g = R(Top, Top.at + Top.pops, Top.width - Top.pops)
      OBVIOUS
    <3> HIDE DEF g, R
    <3> QED BY <1>1, <1>2, <2>1, <3>1, <3>2
  <2>3. frames' = Append([frames EXCEPT ![Last] = g], f)
    BY <1>4
  <2>4. Sound(f) /\ f.at = sp /\ f.own = 0 /\ f.width = Top.pops /\ f.counted /\ f.kind = "jump"
    BY <1>2 DEF Sound, Frame, Kind
  <2> HIDE DEF f, g, R
  <2>5. Same(g)
    <3>1. g.at + g.width = Top.at + Top.width
      BY <1>2, <2>2
    <3>2. g.kind \in {"start", "near", "far", "jump"} => g.width = g.pops
      BY <1>1, <1>2, <2>2 DEF Sound
    <3> QED BY <1>2, <2>2, <3>1, <3>2 DEF Same, Sound
  <2>6. ~g.off => f.at + f.width = g.at - g.own
    BY <1>1, <1>2, <2>2, <2>4
  <2>7. depth <= MaxDepth
    BY <1>4, DispatchAssumption DEF Declines, TooDeep, StackInv, StackType
  <2>8. sp' = f.at - f.own
    BY <1>2, <1>4, <2>4
  <2>9. depth' = (IF f.counted THEN depth + 1 ELSE depth) /\ UNCHANGED isr
    BY <1>4, <2>4
  <2> QED BY <2>3, <2>4, <2>5, <2>6, <2>7, <2>8, <2>9, Begins
<1> QED BY <1>3, <1>4 DEF JumpIndirect

\* A tick lets the handler begin on top, or does nothing.
LEMMA TickKeeps ==
  ASSUME StackInv, Tick
  PROVE  StackInv'
<1>1. CASE UNCHANGED <<stack, halted, isr>>
  BY <1>1, Rests
<1>2. CASE ~Declines(vector) /\ Enter("isr", 6, 0, vector, TRUE)
           /\ save' = [sp |-> sp, halted |-> halted] /\ inside'
  <2>1. Width["isr"] = 6
    BY DEF Width
  <2>2. depth <= MaxDepth
    BY <1>2, DispatchAssumption DEF Declines, TooDeep, StackInv, StackType
  <2>3. ~inside /\ save'.sp = sp
    BY <1>2 DEF Tick, MayInterrupt
  <2>4. Enter("isr", Width["isr"], IF "isr" \in {"near", "far"} THEN Width["isr"] ELSE 0, vector, TRUE)
    BY <1>2, <2>1
  <2> QED BY <1>2, <2>2, <2>3, <2>4, EnterKeeps
<1> QED BY <1>1, <1>2 DEF Tick
-----------------------------------------------------------------------------
\* The rest of the state.
RestType ==
  /\ budget \in 0 .. Budget
  /\ halted \in BOOLEAN
  /\ misses \in Seq(Missing) /\ Len(misses) <= MaxMiss
  /\ \A i, j \in DOMAIN misses : misses[i] = misses[j] => i = j
  /\ vector \in Handlers \cup {Null}
  /\ inside \in BOOLEAN
  /\ save \in [sp : Int, halted : BOOLEAN]

IInv == RestType /\ StackInv

\* A look into the table keeps the list of misses a list of different
\* addresses that fits the array, and the budget within what was set.
LEMMA LookUpKeeps ==
  ASSUME RestType, NEW t, LookUp(t)
  PROVE  /\ budget' \in 0 .. Budget
         /\ misses' \in Seq(Missing) /\ Len(misses') <= MaxMiss
         /\ \A i, j \in DOMAIN misses' : misses'[i] = misses'[j] => i = j
<1>1. budget' \in 0 .. Budget
  BY DispatchAssumption DEF RestType, LookUp
<1>2. CASE misses' = misses
  BY <1>1, <1>2 DEF RestType
<1>3. CASE t \in Missing /\ t \notin Range(misses) /\ Len(misses) < MaxMiss
           /\ misses' = Append(misses, t)
  <2>1. PICK n \in Nat : n = Len(misses)
    BY DEF RestType
  <2>2. /\ misses' \in Seq(Missing) /\ Len(misses') = n + 1
        /\ \A i \in 1 .. n : misses'[i] = misses[i]
        /\ misses'[n + 1] = t
    BY <1>3, <2>1, AppendProperties DEF RestType
  <2>3. DOMAIN misses' = 1 .. n + 1 /\ DOMAIN misses = 1 .. n
    BY <2>1, <2>2 DEF RestType
  <2>4. \A i \in 1 .. n : misses[i] # t
    BY <1>3, <2>3 DEF Range
  <2>5. \A i, j \in 1 .. n : misses[i] = misses[j] => i = j
    BY <2>3 DEF RestType
  <2>6. \A i \in 1 .. n + 1 : i \in 1 .. n \/ i = n + 1
    BY <2>1
  <2>7. \A i, j \in 1 .. n + 1 : misses'[i] = misses'[j] => i = j
    BY <2>2, <2>4, <2>5, <2>6
  <2>8. n + 1 <= MaxMiss
    BY <1>3, <2>1, DispatchAssumption
  <2> QED BY <1>1, <2>2, <2>3, <2>7, <2>8
<1> QED BY <1>2, <1>3 DEF LookUp, NoteMiss

\* At first nothing is missing and nothing runs.
LEMMA RestInit == Init => RestType
<1> SUFFICES ASSUME Init PROVE RestType
  OBVIOUS
<1>1. misses = <<>> /\ misses \in Seq(Missing) /\ Len(misses) = 0 /\ DOMAIN misses = {}
  BY DEF Init
<1>2. budget \in 0 .. Budget /\ 0 <= MaxMiss
  BY DispatchAssumption DEF Init
<1>3. halted \in BOOLEAN /\ inside \in BOOLEAN /\ vector = Null
  BY DEF Init
<1>4. save \in [sp : Int, halted : BOOLEAN]
  BY DEF Init
<1> QED BY <1>1, <1>2, <1>3, <1>4 DEF RestType

\* The list of misses holds different addresses, and the rest its types.
LEMMA RestNext == IInv /\ [Next]_vars => RestType'
<1> SUFFICES ASSUME RestType, StackInv, [Next]_vars PROVE RestType'
  BY DEF IInv
<1>0. /\ halted \in BOOLEAN /\ inside \in BOOLEAN /\ save \in [sp : Int, halted : BOOLEAN]
      /\ save.halted \in BOOLEAN /\ sp \in Int
      /\ \A t : Exhausts(t) \in BOOLEAN
  BY DEF RestType, StackInv, StackType, Exhausts
<1>1. ASSUME NEW t, NEW k, CallIndirect(k, t) PROVE RestType'
  <2>1. LookUp(t) /\ halted' = (halted \/ Exhausts(t)) /\ UNCHANGED <<vector, isr>>
    BY <1>1 DEF CallIndirect
  <2>2. halted' \in BOOLEAN
    BY <1>0, <2>1
  <2>3. vector' = vector /\ inside' = inside /\ save' = save
    BY <2>1 DEF isr
  <2> QED BY <2>1, <2>2, <2>3, LookUpKeeps DEF RestType
<1>2. ASSUME NEW t, NEW k, CallDirect(k, t) PROVE RestType'
  BY <1>2 DEF CallDirect, RestType, isr
<1>3. ASSUME NEW k, CallStub(k) PROVE RestType'
  BY <1>3 DEF CallStub, RestType, isr
<1>4. ASSUME PushOwn \/ PopOwn PROVE RestType'
  BY <1>4 DEF PushOwn, PopOwn, RestType, isr
<1>5. ASSUME NEW l, NEW b, NEW h \in BOOLEAN, Leave(l, b, h)
      PROVE  halted' \in BOOLEAN /\ inside' \in BOOLEAN /\ save' \in [sp : Int, halted : BOOLEAN]
  BY <1>0, <1>5 DEF Leave
<1>6. ASSUME Return PROVE RestType'
  <2>1. halted' \in BOOLEAN /\ inside' \in BOOLEAN /\ save' \in [sp : Int, halted : BOOLEAN]
    BY <1>0, <1>5, <1>6 DEF Return
  <2> QED BY <1>6, <2>1 DEF Return, RestType
<1>7. ASSUME NEW t, JumpIndirect(t) PROVE RestType'
  <2>1. (halted \/ Exhausts(t)) \in BOOLEAN
    BY <1>0
  <2>2. halted' \in BOOLEAN /\ inside' \in BOOLEAN /\ save' \in [sp : Int, halted : BOOLEAN]
    BY <1>0, <1>5, <1>7, <2>1 DEF JumpIndirect, isr
  <2>3. LookUp(t) /\ vector' = vector
    BY <1>7 DEF JumpIndirect
  <2> QED BY <2>2, <2>3, LookUpKeeps DEF RestType
<1>8. ASSUME Tick PROVE RestType'
  <2>1. halted' = halted /\ inside' \in BOOLEAN /\ save' \in [sp : Int, halted : BOOLEAN]
    <3>1. CASE UNCHANGED <<stack, halted, isr>>
      BY <1>0, <3>1 DEF isr
    <3>2. CASE save' = [sp |-> sp, halted |-> halted] /\ inside' = TRUE /\ UNCHANGED halted
      BY <1>0, <3>2
    <3> QED BY <1>8, <3>1, <3>2 DEF Tick
  <2>2. LookUp(vector) /\ vector' = vector
    BY <1>8 DEF Tick
  <2> QED BY <1>0, <2>1, <2>2, LookUpKeeps DEF RestType
<1>9. ASSUME NEW t \in Handlers, SetVector(t) PROVE RestType'
  BY <1>9 DEF SetVector, RestType, isr
<1>10. ASSUME UNCHANGED vars PROVE RestType'
  BY <1>10 DEF vars, RestType
<1> QED BY <1>1, <1>2, <1>3, <1>4, <1>6, <1>7, <1>8, <1>9, <1>10 DEF Next, ChainOld

\* At first one function runs, level with itself.
LEMMA StackInit == Init => StackInv
<1> SUFFICES ASSUME Init PROVE StackInv
  OBVIOUS
<1> DEFINE f == [kind |-> "start", width |-> 0, pops |-> 0, at |-> 0, own |-> 0,
                 framed |-> FALSE, counted |-> FALSE, off |-> FALSE]
<1>1. frames = <<f>> /\ sp = 0 /\ depth = 0 /\ inside = FALSE
  BY DEF Init
<1>2. f \in Frame
  BY DEF Frame, Kind
<1>3. DOMAIN frames = {1} /\ Last = 1 /\ frames[1] = f
  BY <1>1 DEF Last
<1>4. StackType
  BY <1>1, <1>2, DispatchAssumption DEF StackType
<1>5. Widths
  BY <1>3 DEF Widths
<1>6. {i \in DOMAIN frames : frames[i].counted} = {}
  BY <1>3
<1>7. DepthCounts
  BY <1>1, <1>6, FS_EmptySet DEF DepthCounts
<1>8. OneHandler
  BY <1>1, <1>3 DEF OneHandler
<1>9. Level
  BY <1>1, <1>3 DEF Level, LevelOf
<1> QED BY <1>4, <1>5, <1>7, <1>8, <1>9 DEF StackInv

\* Every step keeps the frames in order.
LEMMA StackNext == IInv /\ [Next]_vars => StackInv'
<1> SUFFICES ASSUME RestType, StackInv, [Next]_vars PROVE StackInv'
  BY DEF IInv
<1>0. save \in [sp : Int, halted : BOOLEAN]
  BY DEF RestType
<1>1. ASSUME NEW t \in Target, NEW k \in {"near", "far"}, CallIndirect(k, t) PROVE StackInv'
  BY <1>1, CallKeeps
<1>2. ASSUME NEW t \in Target, ChainOld(t) PROVE StackInv'
  BY <1>2, CallKeeps DEF ChainOld
<1>3. ASSUME NEW t \in Code, NEW k \in {"near", "far"}, CallDirect(k, t) PROVE StackInv'
  BY <1>3, DirectKeeps
<1>4. ASSUME NEW k \in {"near", "far"}, CallStub(k) PROVE StackInv'
  BY <1>4, StubKeeps
<1>5. ASSUME PushOwn \/ PopOwn PROVE StackInv'
  BY <1>5, OwnKeeps
<1>6. ASSUME Return PROVE StackInv'
  BY <1>0, <1>6, ReturnKeeps
<1>7. ASSUME NEW t \in Target, JumpIndirect(t) PROVE StackInv'
  BY <1>0, <1>7, JumpKeeps
<1>8. ASSUME Tick PROVE StackInv'
  BY <1>8, TickKeeps
<1>9. ASSUME NEW t \in Handlers, SetVector(t) PROVE StackInv'
  BY <1>9, Rests DEF SetVector
<1>10. ASSUME UNCHANGED vars PROVE StackInv'
  BY <1>10, Rests DEF vars, stack, isr
<1> QED BY <1>1, <1>2, <1>3, <1>4, <1>5, <1>6, <1>7, <1>8, <1>9, <1>10 DEF Next

\* The inductive invariant.
LEMMA Invariance == Spec => []IInv
<1>1. Init => IInv
  BY RestInit, StackInit DEF IInv
<1>2. IInv /\ [Next]_vars => IInv'
  BY RestNext, StackNext DEF IInv
<1> QED BY <1>1, <1>2, PTL DEF Spec
-----------------------------------------------------------------------------
\* Every variable keeps its type: the depth never passes the cap by more than
\* one, and an address is on the list of misses once.
THEOREM DispatchTypeCorrect == Spec => []TypeOK
<1>1. IInv => TypeOK
  BY DEF IInv, RestType, StackInv, StackType, TypeOK
<1> QED BY <1>1, Invariance, PTL

\* The stack is level in every function that nothing was lost in, whatever was
\* called, found, refused, jumped to or interrupted.
THEOREM StackIsLevel == Spec => []Level
<1>1. IInv => Level
  BY DEF IInv, StackInv
<1> QED BY <1>1, Invariance, PTL

\* The depth the cap looks at counts the dispatched functions that run.
THEOREM DepthIsCounted == Spec => []DepthCounts
<1>1. IInv => DepthCounts
  BY DEF IInv, StackInv
<1> QED BY <1>1, Invariance, PTL

\* One handler at a time, and inside is set exactly while it runs.
THEOREM HandlersDoNotNest == Spec => []OneHandler
<1>1. IInv => OneHandler
  BY DEF IInv, StackInv
<1> QED BY <1>1, Invariance, PTL
=============================================================================
