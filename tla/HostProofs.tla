----------------------------- MODULE HostProofs -----------------------------
(***************************************************************************)
(* What lies between the guest and the host, for any screen, any display   *)
(* memory and any program: a planar write paints one group of pixels       *)
(* (Vga), two threads that compose one frame agree on it (Sampler), the    *)
(* list of misses grows (Converge), and no two torn readings of the tick   *)
(* count follow each other (Clock); and all of it keeps its types.         *)
(***************************************************************************)
EXTENDS MCHost, TLAPS

-----------------------------------------------------------------------------
(* The picture of a planar write. *)

\* Quotient and remainder.
LEMMA DivMod ==
  ASSUME NEW m \in Nat \ {0}, NEW x \in Int
  PROVE  /\ x % m \in 0 .. m - 1 /\ x \div m \in Int
         /\ x = m * (x \div m) + (x % m)
OBVIOUS

\* There is one of each.
LEMMA OneDivMod ==
  ASSUME NEW m \in Nat \ {0}, NEW q \in Int, NEW r \in 0 .. m - 1
  PROVE  (m * q + r) % m = r /\ (m * q + r) \div m = q
<1>1. m * q + r \in Int
  OBVIOUS
<1> DEFINE x == m * q + r
           k == x \div m
<1>2. x % m \in 0 .. m - 1 /\ x = m * k + (x % m) /\ k \in Int
  BY DivMod
<1>3. m * (q - k) = (x % m) - r
  BY <1>2
<1>4. q = k
  BY <1>2, <1>3
<1>5. QED
  BY <1>2, <1>3, <1>4

\* A pixel's number in one long row of p * d is its group's, p at a time, and
\* its place in the group, and the group wraps as the number does.
LEMMA Interleaved ==
  ASSUME NEW p \in Nat \ {0}, NEW d \in Nat \ {0}, NEW s \in Nat, NEW x \in Nat
  PROVE  LET n == (p * s + x) % (p * d) IN
           n % p = x % p /\ n \div p = (s + (x \div p)) % d
<1> DEFINE q == x \div p
           r == x % p
           g == (s + q) % d
           k == (s + q) \div d
<1>1. r \in 0 .. p - 1 /\ q \in Int /\ x = p * q + r
  BY DivMod
<1>2. g \in 0 .. d - 1 /\ k \in Int /\ s + q = d * k + g
  <2>1. s + q \in Int
    BY <1>1
  <2> HIDE DEF q
  <2>2. QED
    BY <2>1, DivMod
<1> HIDE DEF q, r, g, k
<1>3. p * s + x = p * (s + q) + r
  <2>1. p * (s + q) = p * s + p * q /\ p * s \in Int /\ p * q \in Int
    BY <1>1
  <2>2. QED
    BY <1>1, <2>1
<1>4. p * (s + q) = p * (d * k + g)
  BY <1>2
<1>5. p * (d * k + g) = (p * d) * k + p * g
  BY <1>2
<1>6. p * s + x = (p * d) * k + (p * g + r)
  BY <1>1, <1>2, <1>3, <1>4, <1>5
<1>7. p * g + r \in 0 .. p * d - 1
  <2>1. g + 1 <= d
    BY <1>2
  <2>2. p * (g + 1) <= p * d
    BY <1>2, <2>1
  <2>3. p * (g + 1) = p * g + p /\ p * g \in Nat
    BY <1>2
  <2>4. QED
    BY <1>1, <1>2, <2>2, <2>3
<1>8. p * d \in Nat \ {0}
  OBVIOUS
<1>9. (p * s + x) % (p * d) = p * g + r
  BY <1>2, <1>6, <1>7, <1>8, OneDivMod
<1>10. (p * g + r) % p = r /\ (p * g + r) \div p = g
  BY <1>1, <1>2, OneDivMod
<1>11. QED
  BY <1>9, <1>10 DEF q, r, g

\* Where vga_frame finds a pixel is where its number says.
LEMMA FrameByNumber ==
  ASSUME VgaTypeOK, NEW px \in Pixel
  PROVE  /\ PixelNumber(px) % Planes = px[1] % Planes
         /\ PixelNumber(px) \div Planes
              = (Start + px[2] * Row + px[1] \div Planes) % Depth
         /\ PixelNumber(px) % Planes \in Plane
         /\ PixelNumber(px) \div Planes \in Addr
<1>1. px[1] \in Nat /\ px[2] \in Nat
  BY VgaAssumption DEF Pixel
<1>2. Start \in Nat /\ Row \in Nat
  <2>1. Radix \in Nat /\ RowBytes \in Nat
    BY VgaAssumption
  <2>2. startHi \in Nat /\ startLo \in Nat /\ rowWidth \in Nat
    BY <2>1 DEF VgaTypeOK
  <2>3. startHi * Radix \in Nat
    BY <2>1, <2>2
  <2>4. QED
    BY <2>1, <2>2, <2>3 DEF Start, Row
<1> DEFINE s == Start + px[2] * Row
<1>3. s \in Nat
  BY <1>1, <1>2
<1>4. Planes \in Nat \ {0} /\ Depth \in Nat \ {0}
  BY VgaAssumption
<1>5. PixelNumber(px) = (Planes * s + px[1]) % (Planes * Depth)
  <2>1. Planes * Start + px[2] * Planes * Row + px[1] = Planes * s + px[1]
    BY <1>1, <1>2, <1>4
  <2>2. QED
    BY <2>1 DEF PixelNumber
<1> HIDE DEF s
<1>6. /\ PixelNumber(px) % Planes = px[1] % Planes
      /\ PixelNumber(px) \div Planes = (s + (px[1] \div Planes)) % Depth
  <2>1. \A p, d \in Nat \ {0}, x \in Nat :
          LET n == (p * s + x) % (p * d) IN
            n % p = x % p /\ n \div p = (s + (x \div p)) % d
    BY <1>3, Interleaved
  <2>2. LET n == (Planes * s + px[1]) % (Planes * Depth) IN
          n % Planes = px[1] % Planes
          /\ n \div Planes = (s + (px[1] \div Planes)) % Depth
    BY <1>1, <1>4, <2>1
  <2>3. QED
    BY <1>5, <2>2
<1>7. px[1] \div Planes \in Int /\ px[1] % Planes \in 0 .. Planes - 1
  <2>1. \A i \in Int : i \div Planes \in Int /\ i % Planes \in 0 .. Planes - 1
    BY <1>4, DivMod
  <2>2. QED
    BY <2>1, <1>1
<1>8. (s + (px[1] \div Planes)) % Depth \in 0 .. Depth - 1
  <2>1. s + (px[1] \div Planes) \in Int
    BY <1>3, <1>7
  <2>2. QED
    BY <2>1, <1>4, DivMod
<1>9. QED
  BY <1>6, <1>7, <1>8 DEF s, Plane, Addr

\* The registers and the memory keep their types.
LEMMA VgaTypeStays ==
  ASSUME VgaTypeOK, [VgaNext]_vgaVars
  PROVE  VgaTypeOK'
<1> USE DEF VgaTypeOK, memory, registers
<1>1. ASSUME SetMode13 PROVE VgaTypeOK'
  BY <1>1, VgaAssumption DEF SetMode13
<1>2. ASSUME NEW b \in BOOLEAN, SetChain4(b) \/ SetWriteMode(b) PROVE VgaTypeOK'
  BY <1>2 DEF SetChain4, SetWriteMode
<1>3. ASSUME NEW m \in Masks, SetMapMask(m) PROVE VgaTypeOK'
  BY <1>3, VgaAssumption DEF SetMapMask
<1>4. ASSUME NEW b \in 0 .. Radix - 1,
             SetStartHi(b) \/ SetStartLo(b) \/ SetRowWidth(b)
      PROVE  VgaTypeOK'
  BY <1>4 DEF SetStartHi, SetStartLo, SetRowWidth
<1>5. ASSUME NEW px \in Pixel, NEW v \in Colour,
             WriteFlat(px, v) \/ HostStore(px, v)
      PROVE  VgaTypeOK'
  BY <1>5 DEF WriteFlat, HostStore
<1>6. ASSUME NEW a \in Addr, NEW v \in Colour, WritePlanes(a, v)
      PROVE  VgaTypeOK'
  BY <1>6 DEF WritePlanes
<1>7. ASSUME NEW a \in Addr, ReadPlanes(a) PROVE VgaTypeOK'
  BY <1>7 DEF ReadPlanes
<1>8. CASE UNCHANGED vgaVars
  BY <1>8 DEF vgaVars
<1>9. QED
  BY <1>1, <1>2, <1>3, <1>4, <1>5, <1>6, <1>7, <1>8 DEF VgaNext

\* One write, and the picture.
LEMMA WritePaints ==
  ASSUME VgaTypeOK, NEW a \in Addr, NEW v \in Colour, WritePlanes(a, v),
         NEW px \in Pixel
  PROVE  LET n == PixelNumber(px)
             p == n % Planes IN
           Frame'[px] = IF n \div Planes = a /\ p \in mapMask
                        THEN IF writeMode1 THEN latch[p] ELSE v
                        ELSE Frame[px]
<1> DEFINE n == PixelNumber(px)
           p == n % Planes
           g == n \div Planes
<1>1. /\ p = px[1] % Planes
      /\ g = (Start + px[2] * Row + px[1] \div Planes) % Depth
      /\ p \in Plane /\ g \in Addr
  BY FrameByNumber
<1>2. ~chain4 /\ ~chain4' /\ Start' = Start /\ Row' = Row
  BY DEF WritePlanes, registers, Start, Row
<1>3. Frame[px] = planes[p][g]
  BY <1>1, <1>2 DEF Frame
<1>4. Frame'[px] = planes'[p][g]
  BY <1>1, <1>2 DEF Frame
<1>5. planes'[p] = IF p \in mapMask
                   THEN [planes[p] EXCEPT ![a] = IF writeMode1 THEN latch[p]
                                                               ELSE v]
                   ELSE planes[p]
  BY <1>1 DEF WritePlanes
<1>6. planes[p] \in [Addr -> Colour]
  BY <1>1 DEF VgaTypeOK
<1> HIDE DEF n, p, g
<1>7. planes'[p][g] = IF g = a /\ p \in mapMask
                      THEN IF writeMode1 THEN latch[p] ELSE v
                      ELSE planes[p][g]
  BY <1>1, <1>5, <1>6
<1>8. QED
  BY <1>3, <1>4, <1>7 DEF n, p, g

\* A step that changes the planes is a planar write, and paints as one.
LEMMA VgaStepPaints ==
  ASSUME VgaTypeOK, [VgaNext]_vgaVars
  PROVE  planes' # planes =>
       \E a \in Addr, v \in Colour : \A px \in Pixel :
         LET n == PixelNumber(px)
             p == n % Planes IN
           Frame'[px] = IF n \div Planes = a /\ p \in mapMask
                        THEN IF writeMode1 THEN latch[p] ELSE v
                        ELSE Frame[px]
<1> SUFFICES ASSUME planes' # planes
             PROVE  \E a \in Addr, v \in Colour : \A px \in Pixel :
                      LET n == PixelNumber(px)
                          p == n % Planes IN
                        Frame'[px] = IF n \div Planes = a /\ p \in mapMask
                                     THEN IF writeMode1 THEN latch[p] ELSE v
                                     ELSE Frame[px]
  OBVIOUS
<1>1. \E a \in Addr, v \in Colour : WritePlanes(a, v)
  BY DEF VgaNext, vgaVars, memory, registers, SetMode13, SetChain4,
         SetWriteMode, SetMapMask, SetStartHi, SetStartLo, SetRowWidth,
         WriteFlat, HostStore, ReadPlanes
<1>2. PICK a \in Addr, v \in Colour : WritePlanes(a, v)
  BY <1>1
<1>3. QED
  BY <1>2, WritePaints

\* Display memory and the registers begin well typed.
LEMMA VgaTypeStarts ==
  VgaInit => VgaTypeOK
<1>1. 0 \in 0 .. Radix - 1
  BY VgaAssumption
<1> SUFFICES ASSUME VgaInit PROVE VgaTypeOK
  OBVIOUS
<1>2. planes \in [Plane -> [Addr -> Colour]] /\ flat \in [Pixel -> Colour]
      /\ latch \in [Plane -> Colour]
  BY VgaAssumption DEF VgaInit
<1>3. QED
  BY <1>1, <1>2 DEF VgaInit, VgaTypeOK

\* On a screen of any size, with any start address and row width, a planar
\* write paints the pixels of one group that the map mask lets through.
THEOREM PlanarWritePaints == VgaSpec => OneBytePaints
<1>1. VgaInit => VgaTypeOK
  BY VgaTypeStarts
<1>2. VgaTypeOK /\ [VgaNext]_vgaVars => VgaTypeOK'
  BY VgaTypeStays
<1>3. VgaTypeOK /\ [VgaNext]_vgaVars =>
        [planes' # planes =>
           \E a \in Addr, v \in Colour : \A px \in Pixel :
             LET n == PixelNumber(px)
                 p == n % Planes IN
               Frame'[px] = IF n \div Planes = a /\ p \in mapMask
                            THEN IF writeMode1 THEN latch[p] ELSE v
                            ELSE Frame[px]]_vgaVars
  BY VgaStepPaints
<1>4. QED
  BY <1>1, <1>2, <1>3, PTL DEF VgaSpec, OneBytePaints

-----------------------------------------------------------------------------
(* Two threads and one frame. *)

\* What the clock's thread and the guest's agree on.  The clock's loop reads
\* the page on show unless it is stale.  The guest's reads it always, because
\* the guest neither draws nor flips meanwhile; and what lies behind it in
\* the buffer is that page, because the other thread, when not spoiled, can
\* only write the same there.
SamplerInv ==
  /\ SamplerTypeOK
  /\ InLoop("clock") /\ ~stale => from["clock"] = shown
  /\ next["guest"] # Idle => from["guest"] = shown
  /\ next["guest"] # Idle /\ ~spoiled =>
       /\ InLoop("clock") => from["clock"] = shown
       /\ \A i \in ScreenPixel : i < next["guest"] => compose[i] = vram[shown][i]

\* A thread that is composing is neither idle nor done.
LEMMA LoopEnds == Idle \notin ScreenPixel /\ Composed \notin ScreenPixel
                  /\ Idle # Composed /\ 0 \in ScreenPixel /\ Pixels \in Nat
BY SamplerAssumption DEF Idle, Composed, ScreenPixel

\* The guest changes what there is to see between frames only.
LEMMA DrawKeeps ==
  ASSUME SamplerInv,
         \/ \E g \in Page, i \in ScreenPixel, v \in Shade : Draw(g, i, v)
         \/ \E g \in Page : Flip(g)
  PROVE  SamplerInv'
<1>1. ASSUME NEW g \in Page, NEW i \in ScreenPixel, NEW v \in Shade, Draw(g, i, v)
      PROVE  SamplerInv'
  <2>1. vram' \in [Page -> Picture]
    BY <1>1 DEF Draw, SamplerInv, SamplerTypeOK, Picture
  <2>2. SamplerTypeOK'
    BY <1>1, <2>1 DEF Draw, SamplerInv, SamplerTypeOK, InLoop
  <2>3. QED
    BY <1>1, <2>2 DEF Draw, SamplerInv, InLoop
<1>2. ASSUME NEW g \in Page, Flip(g) PROVE SamplerInv'
  <2>1. SamplerTypeOK'
    BY <1>2 DEF Flip, SamplerInv, SamplerTypeOK, InLoop
  <2>2. QED
    BY <1>2, <2>1 DEF Flip, SamplerInv, InLoop
<1>3. QED
  BY <1>1, <1>2

\* A loop begins.
LEMMA BeginKeeps ==
  ASSUME SamplerInv, NEW t \in Thread, Begin(t)
  PROVE  SamplerInv'
<1>1. /\ next \in [Thread -> 0 .. Idle] /\ from \in [Thread -> Page]
      /\ shown \in Page
  BY DEF SamplerInv, SamplerTypeOK
<1>2. /\ next' = [next EXCEPT ![t] = 0] /\ from' = [from EXCEPT ![t] = shown]
      /\ vram' = vram /\ shown' = shown /\ compose' = compose
      /\ screen' = screen
  BY DEF Begin
<1>3. SamplerTypeOK'
  <2>1. 0 \in 0 .. Idle
    BY LoopEnds DEF Idle
  <2>2. stale' \in BOOLEAN /\ spoiled' \in BOOLEAN
    BY DEF Begin, SamplerInv, SamplerTypeOK, InLoop
  <2>3. QED
    BY <1>1, <1>2, <2>1, <2>2 DEF SamplerInv, SamplerTypeOK
<1>4. CASE t = "guest"
  <2>1. /\ next'["guest"] = 0 /\ next'["clock"] = next["clock"]
        /\ from'["guest"] = shown /\ from'["clock"] = from["clock"]
    BY <1>1, <1>2, <1>4 DEF Thread
  <2>2. stale' = stale /\ spoiled' = (stale /\ InLoop("clock"))
    BY <1>4 DEF Begin, SamplerInv, SamplerTypeOK
  <2>3. \A i \in ScreenPixel : ~(i < 0)
    BY DEF ScreenPixel
  <2>4. QED
    BY <1>2, <1>3, <2>1, <2>2, <2>3 DEF SamplerInv, InLoop
<1>5. CASE t = "clock"
  <2>1. /\ next'["clock"] = 0 /\ next'["guest"] = next["guest"]
        /\ from'["clock"] = shown /\ from'["guest"] = from["guest"]
    BY <1>1, <1>2, <1>5 DEF Thread
  <2>2. spoiled' = spoiled
    BY <1>5 DEF Begin
  <2>3. QED
    BY <1>2, <1>3, <2>1, <2>2 DEF SamplerInv, InLoop
<1>6. QED
  BY <1>4, <1>5 DEF Thread

\* A pixel is composed, by either thread.
LEMMA ComposeKeeps ==
  ASSUME SamplerInv, NEW t \in Thread, ComposeOne(t)
  PROVE  SamplerInv'
<1> DEFINE k == next[t]
<1>1. /\ next \in [Thread -> 0 .. Idle] /\ from \in [Thread -> Page]
      /\ shown \in Page /\ compose \in Picture /\ vram \in [Page -> Picture]
  BY DEF SamplerInv, SamplerTypeOK
<1>2. /\ k \in ScreenPixel
      /\ next' = [next EXCEPT ![t] = k + 1]
      /\ compose' = [compose EXCEPT ![k] = vram[from[t]][k]]
      /\ vram' = vram /\ shown' = shown /\ screen' = screen /\ from' = from
      /\ stale' = stale /\ spoiled' = spoiled
  BY DEF ComposeOne, InLoop
<1>3. k \in Nat /\ k + 1 \in 0 .. Idle /\ k # Idle
  BY <1>2, LoopEnds DEF ScreenPixel, Idle
<1>4. SamplerTypeOK'
  <2>1. vram[from[t]][k] \in Shade
    BY <1>1, <1>2 DEF Picture
  <2>2. compose' \in Picture
    BY <1>1, <1>2, <2>1 DEF Picture
  <2>3. next' \in [Thread -> 0 .. Idle]
    BY <1>1, <1>2, <1>3
  <2>4. QED
    BY <1>2, <2>2, <2>3 DEF SamplerInv, SamplerTypeOK
<1>5. \A i \in ScreenPixel :
        compose'[i] = IF i = k THEN vram[from[t]][k] ELSE compose[i]
  BY <1>1, <1>2 DEF Picture
<1>6. CASE t = "guest"
  <2>1. next'["guest"] = k + 1 /\ next'["clock"] = next["clock"]
    BY <1>1, <1>2, <1>6 DEF Thread
  <2>2. from["guest"] = shown
    BY <1>3, <1>6 DEF SamplerInv
  <2>3. ~spoiled => \A i \in ScreenPixel :
                      i < k + 1 => compose'[i] = vram[shown][i]
    <3>1. \A i \in ScreenPixel : i < k + 1 => i = k \/ i < k
      BY <1>3 DEF ScreenPixel
    <3>2. QED
      BY <1>3, <1>5, <1>6, <2>2, <3>1 DEF SamplerInv
  <2>4. QED
    BY <1>2, <1>3, <1>4, <1>6, <2>1, <2>2, <2>3 DEF SamplerInv, InLoop
<1>7. CASE t = "clock"
  <2>1. next'["guest"] = next["guest"]
    BY <1>1, <1>2, <1>7 DEF Thread
  <2>2. InLoop("clock")
    BY <1>2, <1>7 DEF InLoop
  <2>3. next["guest"] # Idle /\ ~spoiled =>
          \A i \in ScreenPixel :
            i < next["guest"] => compose'[i] = vram[shown][i]
    BY <1>5, <1>7, <2>2 DEF SamplerInv
  <2>4. QED
    BY <1>2, <1>4, <2>1, <2>2, <2>3 DEF SamplerInv, InLoop
<1>8. QED
  BY <1>6, <1>7 DEF Thread

\* A frame is done with.
LEMMA FrameDoneKeeps ==
  ASSUME SamplerInv, Present \/ \E t \in Thread : Sampled(t)
  PROVE  SamplerInv'
<1>1. PICK t \in Thread :
        /\ next' = [next EXCEPT ![t] = Idle]
        /\ next[t] = Composed
        /\ screen' \in Picture
        /\ UNCHANGED <<vram, shown, compose, from, stale, spoiled>>
  <2>1. CASE Present
    BY <2>1 DEF Present, Thread, SamplerInv, SamplerTypeOK
  <2>2. CASE \E t \in Thread : Sampled(t)
    BY <2>2 DEF Sampled, SamplerInv, SamplerTypeOK
  <2>3. QED
    BY <2>1, <2>2
<1>2. next \in [Thread -> 0 .. Idle] /\ Idle \in 0 .. Idle
  BY LoopEnds DEF SamplerInv, SamplerTypeOK, Idle
<1>3. SamplerTypeOK'
  BY <1>1, <1>2 DEF SamplerInv, SamplerTypeOK
<1>4. \A u \in Thread : next'[u] = IF u = t THEN Idle ELSE next[u]
  BY <1>1, <1>2
<1>5. InLoop("clock")' => InLoop("clock")
  BY <1>4, LoopEnds DEF InLoop, Thread
<1>6. next'["guest"] # Idle => next'["guest"] = next["guest"]
  BY <1>4 DEF Thread
<1>7. QED
  BY <1>1, <1>3, <1>5, <1>6 DEF SamplerInv

\* Both loops are idle at first.
LEMMA SamplerStarts ==
  SamplerInit => SamplerInv
<1> SUFFICES ASSUME SamplerInit PROVE SamplerInv
  OBVIOUS
<1>1. Blank \in Shade
  BY SamplerAssumption DEF Blank
<1>2. vram \in [Page -> Picture]
  BY <1>1 DEF SamplerInit, Picture
<1>3. vram[shown] \in Picture
  BY <1>2 DEF SamplerInit
<1>4. Idle \in 0 .. Idle
  BY LoopEnds DEF Idle
<1>5. next["guest"] = Idle /\ next["clock"] = Idle
  BY DEF SamplerInit, Thread
<1>6. SamplerTypeOK
  BY <1>2, <1>3, <1>4 DEF SamplerInit, SamplerTypeOK
<1>7. QED
  BY <1>5, <1>6, LoopEnds DEF SamplerInv, InLoop

\* Every step keeps what the threads agree on.
LEMMA SamplerKeeps ==
  SamplerInv /\ [SamplerNext]_samplerVars => SamplerInv'
<1>1. CASE UNCHANGED samplerVars
  BY <1>1 DEF samplerVars, SamplerInv, SamplerTypeOK, InLoop
<1>2. QED
  BY <1>1, DrawKeeps, BeginKeeps, ComposeKeeps, FrameDoneKeeps
  DEF SamplerNext

\* A frame the guest's thread has composed while the clock's composed in the
\* same buffer is the page on show, on a screen of any size.
THEOREM FramesAreWhole == SamplerSpec => []WholeFrames
<1>1. SamplerInit => SamplerInv
  BY SamplerStarts
<1>2. SamplerInv /\ [SamplerNext]_samplerVars => SamplerInv'
  BY SamplerKeeps
<1>3. SamplerInv => WholeFrames
  <2> SUFFICES ASSUME SamplerInv, next["guest"] = Composed, ~spoiled
               PROVE  compose = vram[shown]
    BY DEF WholeFrames
  <2>1. \A i \in ScreenPixel : compose[i] = vram[shown][i]
    <3>1. \A i \in ScreenPixel : i < Composed
      BY SamplerAssumption DEF ScreenPixel, Composed
    <3>2. QED
      BY <3>1, LoopEnds DEF SamplerInv
  <2>2. compose \in Picture /\ vram[shown] \in Picture
    BY DEF SamplerInv, SamplerTypeOK
  <2>3. QED
    BY <2>1, <2>2 DEF Picture
<1>4. QED
  BY <1>1, <1>2, <1>3, PTL DEF SamplerSpec

-----------------------------------------------------------------------------
(* The list of misses. *)

\* What is on the file while no accident has happened.  One thread dumps at a
\* time.  Between dumps the file has everything a finished list had.  A dump
\* that still merges has each line of it in the list, unread, or in its
\* hands; one that writes has written the beginning of a list with all that.
DumpInv ==
  /\ \A t, u \in Runner : Dumping(t) /\ Dumping(u) => t = u
  /\ (\A t \in Runner : stage[t] # "write") => ever \subseteq disk
  /\ \A t \in Runner : stage[t] = "merge" =>
       \A a \in disk : \/ a \in Listed \/ a \in unread[t]
                       \/ noting[t] # NotNoting /\ a = noting[t].addr
  /\ \A t \in Runner : stage[t] = "write" =>
       /\ line[t] <= nmiss
       /\ disk = {miss[i] : i \in 0 .. line[t] - 1}
       /\ ever \subseteq Listed

ConvergeInv ==
  /\ ConvergeTypeOK
  /\ \A t \in Runner : noting[t].at < MaxMiss
  /\ \A t \in Runner : stage[t] \in {"run", "merge"} => line[t] = 0
  /\ ~disturbed => DumpInv

\* Looking an address up takes it in hand, or finds it listed, or no
\* room, or above the code.
LEMMA LookTakes ==
  ASSUME ConvergeInv, NEW t \in Runner, NEW a \in Address, Look(t, a)
  PROVE  /\ noting[t] = NotNoting
         /\ noting' \in [Runner -> [addr : Address \cup {Nowhere},
                                    at : 0 .. MaxMiss]]
         /\ \A u \in Runner : noting'[u].at < MaxMiss
         /\ \A u \in Runner \ {t} : noting'[u] = noting[u]
         /\ \/ a \in Listed \/ nmiss >= MaxMiss \/ ~InRange(a)
            \/ noting'[t] # NotNoting /\ noting'[t].addr = a
<1> DEFINE new == IF ~InRange(a) \/ a \in Listed \/ nmiss >= MaxMiss THEN NotNoting
                  ELSE [addr |-> a, at |-> nmiss]
<1>1. /\ noting \in [Runner -> [addr : Address \cup {Nowhere}, at : 0 .. MaxMiss]]
      /\ nmiss \in 0 .. MaxMiss /\ MaxMiss \in Nat \ {0}
  BY ConvergeAssumption DEF ConvergeInv, ConvergeTypeOK
<1>2. noting[t] = NotNoting /\ noting' = [noting EXCEPT ![t] = new]
  BY DEF Look
<1>3. /\ new \in [addr : Address \cup {Nowhere}, at : 0 .. MaxMiss]
      /\ new.at < MaxMiss
  BY <1>1 DEF NotNoting
<1>4. \/ a \in Listed \/ nmiss >= MaxMiss \/ ~InRange(a)
      \/ new # NotNoting /\ new.addr = a
  BY ConvergeAssumption DEF NotNoting
<1> HIDE DEF new
<1>5. \A u \in Runner : noting'[u] = IF u = t THEN new ELSE noting[u]
  BY <1>1, <1>2
<1>6. noting' \in [Runner -> [addr : Address \cup {Nowhere}, at : 0 .. MaxMiss]]
  BY <1>1, <1>2, <1>3
<1>7. QED
  BY <1>2, <1>3, <1>4, <1>5, <1>6 DEF ConvergeInv

\* A miss of the guest's.
LEMMA MissKeeps ==
  ASSUME ConvergeInv, NEW a \in Address, Miss(a)
  PROVE  ConvergeInv'
<1>1. /\ stage["main"] = "run" /\ Look("main", a)
      /\ UNCHANGED <<disk, lifted, miss, nmiss, stage, unread, line, disturbed,
                     ever>>
  BY DEF Miss
<1>2. "main" \in Runner
  BY DEF Runner
<1>3. /\ noting' \in [Runner -> [addr : Address \cup {Nowhere},
                                 at : 0 .. MaxMiss]]
      /\ \A u \in Runner : noting'[u].at < MaxMiss
      /\ \A u \in Runner \ {"main"} : noting'[u] = noting[u]
  BY <1>1, <1>2, LookTakes
<1>4. ConvergeTypeOK'
  BY <1>1, <1>3 DEF ConvergeInv, ConvergeTypeOK
<1>5. ~disturbed' => DumpInv'
  <2> SUFFICES ASSUME ~disturbed' PROVE DumpInv'
    OBVIOUS
  <2>1. DumpInv
    BY <1>1 DEF ConvergeInv
  <2>2. \A t \in Runner : stage[t] = "merge" => noting'[t] = noting[t]
    BY <1>1, <1>3
  <2>3. QED
    BY <1>1, <2>1, <2>2 DEF DumpInv, Dumping, Listed
<1>6. QED
  BY <1>1, <1>3, <1>4, <1>5 DEF ConvergeInv

\* An address is stored.
LEMMA StoreKeeps ==
  ASSUME ConvergeInv, NEW t \in Runner, Store(t)
  PROVE  ConvergeInv'
<1> DEFINE at == noting[t].at
           a == noting[t].addr
<1>1. /\ noting[t] # NotNoting
      /\ miss' = [miss EXCEPT ![at] = a] /\ nmiss' = at + 1
      /\ noting' = [noting EXCEPT ![t] = NotNoting]
      /\ disturbed' = (disturbed \/ at # nmiss)
      /\ UNCHANGED <<disk, lifted, stage, unread, line, ever>>
  BY DEF Store
<1>2. /\ noting \in [Runner -> [addr : Address \cup {Nowhere}, at : 0 .. MaxMiss]]
      /\ miss \in [0 .. MaxMiss -> Address \cup {Nowhere}]
      /\ nmiss \in 0 .. MaxMiss /\ MaxMiss \in Nat \ {0}
  BY ConvergeAssumption DEF ConvergeInv, ConvergeTypeOK
<1>3. at \in Nat /\ at < MaxMiss /\ a \in Address \cup {Nowhere}
  BY <1>2 DEF ConvergeInv
<1> HIDE DEF at, a
<1>4. \A u \in Runner : noting'[u] = IF u = t THEN NotNoting ELSE noting[u]
  BY <1>1, <1>2
<1>5. /\ NotNoting \in [addr : Address \cup {Nowhere}, at : 0 .. MaxMiss]
      /\ NotNoting.at < MaxMiss
  BY <1>2 DEF NotNoting
<1>6. ConvergeTypeOK'
  <2>1. noting' \in [Runner -> [addr : Address \cup {Nowhere}, at : 0 .. MaxMiss]]
    BY <1>1, <1>2, <1>5
  <2>2. miss' \in [0 .. MaxMiss -> Address \cup {Nowhere}]
    BY <1>1, <1>2, <1>3
  <2>3. nmiss' \in 0 .. MaxMiss
    BY <1>1, <1>2, <1>3
  <2>4. disturbed' \in BOOLEAN
    BY <1>1 DEF ConvergeInv, ConvergeTypeOK
  <2>5. QED
    BY <1>1, <2>1, <2>2, <2>3, <2>4 DEF ConvergeInv, ConvergeTypeOK
<1>7. ~disturbed' => DumpInv'
  <2> SUFFICES ASSUME ~disturbed' PROVE DumpInv'
    OBVIOUS
  <2>1. DumpInv /\ at = nmiss
    BY <1>1 DEF ConvergeInv
  <2>2. \A i \in 0 .. nmiss - 1 : miss'[i] = miss[i]
    BY <1>1, <1>2, <2>1
  <2>3. miss'[nmiss] = a /\ nmiss' = nmiss + 1
    BY <1>1, <1>2, <1>3, <2>1
  <2>4. \A b \in Listed : b \in Listed'
    BY <1>2, <2>2, <2>3 DEF Listed
  <2>5. a \in Listed'
    <3>1. nmiss \in 0 .. nmiss' - 1
      BY <1>2, <2>3
    <3>2. QED
      BY <2>3, <3>1 DEF Listed
  <2>6. \A u \in Runner : stage'[u] = "merge" =>
          \A b \in disk' : \/ b \in Listed' \/ b \in unread'[u]
                           \/ noting'[u] # NotNoting /\ b = noting'[u].addr
    BY <1>1, <1>4, <2>1, <2>4, <2>5 DEF DumpInv, a
  <2>7. ASSUME NEW u \in Runner, stage[u] = "write"
        PROVE  /\ line[u] <= nmiss'
               /\ disk = {miss'[i] : i \in 0 .. line[u] - 1}
               /\ ever \subseteq Listed'
    <3>1. /\ line[u] <= nmiss /\ disk = {miss[i] : i \in 0 .. line[u] - 1}
          /\ ever \subseteq Listed
      BY <2>1, <2>7 DEF DumpInv
    <3>2. line[u] \in Nat
      BY DEF ConvergeInv, ConvergeTypeOK
    <3>3. \A i \in 0 .. line[u] - 1 : miss'[i] = miss[i]
      BY <1>2, <2>2, <3>1, <3>2
    <3>4. QED
      BY <1>2, <2>3, <2>4, <3>1, <3>2, <3>3
  <2>8. QED
    BY <1>1, <2>1, <2>6, <2>7 DEF DumpInv, Dumping
<1>8. QED
  BY <1>1, <1>4, <1>5, <1>6, <1>7 DEF ConvergeInv

\* A dump begins.
LEMMA StartDumpKeeps ==
  ASSUME ConvergeInv, NEW t \in Runner, StartDump(t)
  PROVE  ConvergeInv'
<1>1. /\ stage[t] = "run"
      /\ stage' = [stage EXCEPT ![t] = "merge"]
      /\ unread' = [unread EXCEPT ![t] = disk]
      /\ disturbed' = (disturbed \/ \E u \in Runner \ {t} : Dumping(u))
      /\ UNCHANGED <<disk, lifted, miss, nmiss, noting, line, ever>>
  BY DEF StartDump
<1>2. stage \in [Runner -> Stage]
      /\ unread \in [Runner -> SUBSET (Address \cup {Nowhere})]
      /\ disk \subseteq Address \cup {Nowhere}
  BY DEF ConvergeInv, ConvergeTypeOK
<1>3. \A u \in Runner : /\ stage'[u] = IF u = t THEN "merge" ELSE stage[u]
                        /\ unread'[u] = IF u = t THEN disk ELSE unread[u]
  BY <1>1, <1>2
<1>4. ConvergeTypeOK'
  <2>1. stage' \in [Runner -> Stage]
    BY <1>1, <1>2 DEF Stage
  <2>2. unread' \in [Runner -> SUBSET (Address \cup {Nowhere})]
    BY <1>1, <1>2
  <2>3. disturbed' \in BOOLEAN
    BY <1>1 DEF ConvergeInv, ConvergeTypeOK
  <2>4. QED
    BY <1>1, <2>1, <2>2, <2>3 DEF ConvergeInv, ConvergeTypeOK
<1>5. ~disturbed' => DumpInv'
  <2> SUFFICES ASSUME ~disturbed' PROVE DumpInv'
    OBVIOUS
  <2>1. DumpInv /\ \A u \in Runner \ {t} : ~Dumping(u)
    BY <1>1 DEF ConvergeInv
  <2>2. \A u \in Runner \ {t} : ~Dumping(u)'
    BY <1>3, <2>1 DEF Dumping
  <2>3. \A u \in Runner : stage[u] # "write"
    BY <1>1, <2>1 DEF Dumping
  <2>4. ever' \subseteq disk'
    BY <1>1, <2>1, <2>3 DEF DumpInv
  <2>5. \A u \in Runner : stage'[u] # "write"
    BY <1>3, <2>3
  <2>6. \A u \in Runner : stage'[u] = "merge" => unread'[u] = disk'
    BY <1>1, <1>3, <2>2 DEF Dumping
  <2>7. QED
    BY <2>2, <2>4, <2>5, <2>6 DEF DumpInv, Dumping
<1>6. \A u \in Runner : stage'[u] \in {"run", "merge"} => line'[u] = 0
  BY <1>1, <1>3 DEF ConvergeInv
<1>7. QED
  BY <1>1, <1>4, <1>5, <1>6 DEF ConvergeInv

\* A line of the file is merged.
LEMMA MergeKeeps ==
  ASSUME ConvergeInv, NEW t \in Runner, NEW a \in Address, Merge(t, a)
  PROVE  ConvergeInv'
<1>1. /\ stage[t] = "merge" /\ Look(t, a)
      /\ unread' = [unread EXCEPT ![t] = @ \ {a}]
      /\ disturbed' = (disturbed \/ (a \notin Listed /\ (nmiss >= MaxMiss \/ ~InRange(a))))
      /\ UNCHANGED <<disk, lifted, miss, nmiss, stage, line, ever>>
  BY DEF Merge
<1>2. unread \in [Runner -> SUBSET (Address \cup {Nowhere})]
  BY DEF ConvergeInv, ConvergeTypeOK
<1>3. /\ noting[t] = NotNoting
      /\ noting' \in [Runner -> [addr : Address \cup {Nowhere},
                                 at : 0 .. MaxMiss]]
      /\ \A u \in Runner : noting'[u].at < MaxMiss
      /\ \A u \in Runner \ {t} : noting'[u] = noting[u]
      /\ \/ a \in Listed \/ nmiss >= MaxMiss \/ ~InRange(a)
         \/ noting'[t] # NotNoting /\ noting'[t].addr = a
  BY <1>1, LookTakes
<1>4. \A u \in Runner : unread'[u] = IF u = t THEN unread[t] \ {a} ELSE unread[u]
  BY <1>1, <1>2
<1>5. ConvergeTypeOK'
  <2>1. unread' \in [Runner -> SUBSET (Address \cup {Nowhere})]
    BY <1>1, <1>2
  <2>2. disturbed' \in BOOLEAN
    BY <1>1 DEF ConvergeInv, ConvergeTypeOK
  <2>3. QED
    BY <1>1, <1>3, <2>1, <2>2 DEF ConvergeInv, ConvergeTypeOK
<1>6. ~disturbed' => DumpInv'
  <2> SUFFICES ASSUME ~disturbed' PROVE DumpInv'
    OBVIOUS
  <2>1. DumpInv /\ (a \in Listed \/ ~(nmiss >= MaxMiss \/ ~InRange(a)))
    BY <1>1 DEF ConvergeInv
  <2>2. Listed' = Listed
    BY <1>1 DEF Listed
  <2>3. \A b \in disk : \/ b \in Listed \/ b \in unread'[t]
                        \/ noting'[t] # NotNoting /\ b = noting'[t].addr
    BY <1>1, <1>3, <1>4, <2>1 DEF DumpInv
  <2>4. \A u \in Runner : stage[u] = "merge" => u = t
    BY <1>1, <2>1 DEF DumpInv, Dumping
  <2>5. QED
    BY <1>1, <2>1, <2>2, <2>3, <2>4 DEF DumpInv, Dumping
<1>7. QED
  BY <1>1, <1>3, <1>5, <1>6 DEF ConvergeInv

\* The file is truncated.
LEMMA TruncateKeeps ==
  ASSUME ConvergeInv, NEW t \in Runner, Truncate(t)
  PROVE  ConvergeInv'
<1>1. /\ stage[t] = "merge" /\ unread[t] = {} /\ noting[t] = NotNoting
      /\ stage' = [stage EXCEPT ![t] = "write"]
      /\ disk' = {}
      /\ UNCHANGED <<lifted, miss, nmiss, unread, noting, line, disturbed, ever>>
  BY DEF Truncate
<1>2. stage \in [Runner -> Stage]
  BY DEF ConvergeInv, ConvergeTypeOK
<1>3. \A u \in Runner : stage'[u] = IF u = t THEN "write" ELSE stage[u]
  BY <1>1, <1>2
<1>4. ConvergeTypeOK'
  <2>1. stage' \in [Runner -> Stage]
    BY <1>1, <1>2 DEF Stage
  <2>2. QED
    BY <1>1, <2>1 DEF ConvergeInv, ConvergeTypeOK
<1>5. line[t] = 0 /\ nmiss \in Nat
  BY <1>1, ConvergeAssumption DEF ConvergeInv, ConvergeTypeOK
<1>6. ~disturbed' => DumpInv'
  <2> SUFFICES ASSUME ~disturbed' PROVE DumpInv'
    OBVIOUS
  <2>1. DumpInv
    BY <1>1 DEF ConvergeInv
  <2>2. \A u \in Runner : Dumping(u) => u = t
    BY <1>1, <2>1 DEF DumpInv, Dumping
  <2>3. \A u \in Runner : stage[u] # "write"
    BY <1>1, <2>2 DEF Dumping
  <2>4. ever \subseteq Listed
    BY <1>1, <2>1, <2>3 DEF DumpInv
  <2>5. Listed' = Listed
    BY <1>1 DEF Listed
  <2>6. {miss'[i] : i \in 0 .. line'[t] - 1} = {}
    BY <1>1, <1>5
  <2>7. \A u \in Runner : Dumping(u)' => u = t
    BY <1>3, <2>2 DEF Dumping
  <2>8. stage'[t] = "write"
    BY <1>3
  <2>9. \A u \in Runner : stage'[u] # "merge"
    BY <2>7, <2>8 DEF Dumping
  <2>10. \A u \in Runner : stage'[u] = "write" => u = t
    BY <2>7 DEF Dumping
  <2>11. QED
    BY <1>1, <1>5, <2>4, <2>5, <2>6, <2>7, <2>8, <2>9, <2>10 DEF DumpInv
<1>7. \A u \in Runner : stage'[u] \in {"run", "merge"} => line'[u] = 0
  BY <1>1, <1>3 DEF ConvergeInv
<1>8. QED
  BY <1>1, <1>4, <1>6, <1>7 DEF ConvergeInv

\* An address is written.
LEMMA WriteLineKeeps ==
  ASSUME ConvergeInv, NEW t \in Runner, WriteLine(t)
  PROVE  ConvergeInv'
<1>1. /\ stage[t] = "write" /\ line[t] < nmiss
      /\ disk' = disk \cup {miss[line[t]]}
      /\ line' = [line EXCEPT ![t] = @ + 1]
      /\ UNCHANGED <<lifted, miss, nmiss, stage, unread, noting, disturbed, ever>>
  BY DEF WriteLine
<1>2. /\ line \in [Runner -> 0 .. MaxMiss] /\ nmiss \in 0 .. MaxMiss
      /\ MaxMiss \in Nat /\ miss \in [0 .. MaxMiss -> Address \cup {Nowhere}]
  BY ConvergeAssumption DEF ConvergeInv, ConvergeTypeOK
<1>3. line[t] \in Nat /\ line[t] + 1 \in 0 .. MaxMiss /\ line[t] \in 0 .. MaxMiss
  BY <1>1, <1>2
<1>4. \A u \in Runner : line'[u] = IF u = t THEN line[t] + 1 ELSE line[u]
  BY <1>1, <1>2
<1>5. ConvergeTypeOK'
  <2>1. disk' \subseteq Address \cup {Nowhere}
    BY <1>1, <1>2, <1>3 DEF ConvergeInv, ConvergeTypeOK
  <2>2. line' \in [Runner -> 0 .. MaxMiss]
    BY <1>1, <1>2, <1>3
  <2>3. QED
    BY <1>1, <2>1, <2>2 DEF ConvergeInv, ConvergeTypeOK
<1>6. ~disturbed' => DumpInv'
  <2> SUFFICES ASSUME ~disturbed' PROVE DumpInv'
    OBVIOUS
  <2>1. DumpInv
    BY <1>1 DEF ConvergeInv
  <2>2. disk = {miss[i] : i \in 0 .. line[t] - 1} /\ ever \subseteq Listed
    BY <1>1, <2>1 DEF DumpInv
  <2>3. 0 .. (line[t] + 1) - 1 = (0 .. line[t] - 1) \cup {line[t]}
    BY <1>3
  <2>4. disk' = {miss'[i] : i \in 0 .. line'[t] - 1}
    <3>1. line'[t] = line[t] + 1
      BY <1>4
    <3>2. disk' = {miss[i] : i \in (0 .. line[t] - 1) \cup {line[t]}}
      BY <1>1, <2>2
    <3>3. QED
      BY <1>1, <2>3, <3>1, <3>2
  <2>5. \A u \in Runner : Dumping(u) => u = t
    BY <1>1, <2>1 DEF DumpInv, Dumping
  <2>6. \A u \in Runner : stage[u] # "merge"
    BY <1>1, <2>5 DEF Dumping
  <2>7. \A u \in Runner : stage[u] = "write" => u = t
    BY <2>5 DEF Dumping
  <2>8. line'[t] <= nmiss' /\ Listed' = Listed
    BY <1>1, <1>2, <1>3, <1>4 DEF Listed
  <2>9. QED
    BY <1>1, <2>2, <2>4, <2>5, <2>6, <2>7, <2>8 DEF DumpInv, Dumping
<1>7. \A u \in Runner : stage'[u] \in {"run", "merge"} => line'[u] = 0
  BY <1>1, <1>4 DEF ConvergeInv
<1>8. QED
  BY <1>1, <1>5, <1>6, <1>7 DEF ConvergeInv

\* A list is finished: it is all on the file.
LEMMA CloseKeeps ==
  ASSUME ConvergeInv, NEW t \in Runner, Close(t)
  PROVE  ConvergeInv'
<1>1. /\ stage[t] = "write" /\ line[t] >= nmiss
      /\ stage' = [stage EXCEPT ![t] = "over"]
      /\ ever' = ever \cup disk
      /\ UNCHANGED <<disk, lifted, miss, nmiss, unread, noting, line, disturbed>>
  BY DEF Close
<1>2. /\ stage \in [Runner -> Stage] /\ nmiss \in Nat /\ line[t] \in Nat
      /\ ever \subseteq Address \cup {Nowhere}
      /\ disk \subseteq Address \cup {Nowhere}
  BY ConvergeAssumption DEF ConvergeInv, ConvergeTypeOK
<1>3. \A u \in Runner : stage'[u] = IF u = t THEN "over" ELSE stage[u]
  BY <1>1, <1>2
<1>4. ConvergeTypeOK'
  <2>1. stage' \in [Runner -> Stage]
    BY <1>1, <1>2 DEF Stage
  <2>2. ever' \subseteq Address \cup {Nowhere}
    BY <1>1, <1>2
  <2>3. QED
    BY <1>1, <2>1, <2>2 DEF ConvergeInv, ConvergeTypeOK
<1>5. ~disturbed' => DumpInv'
  <2> SUFFICES ASSUME ~disturbed' PROVE DumpInv'
    OBVIOUS
  <2>1. DumpInv
    BY <1>1 DEF ConvergeInv
  <2>2. \A u \in Runner : Dumping(u) => u = t
    BY <1>1, <2>1 DEF DumpInv, Dumping
  <2>3. \A u \in Runner : ~Dumping(u)'
    BY <1>3, <2>2 DEF Dumping
  <2>4. /\ line[t] <= nmiss /\ disk = {miss[i] : i \in 0 .. line[t] - 1}
        /\ ever \subseteq Listed
    BY <1>1, <2>1 DEF DumpInv
  <2>5. line[t] = nmiss
    BY <1>1, <1>2, <2>4
  <2>6. ever' \subseteq disk'
    BY <1>1, <2>4, <2>5 DEF Listed
  <2>7. QED
    BY <2>3, <2>6 DEF DumpInv, Dumping
<1>6. \A u \in Runner : stage'[u] \in {"run", "merge"} => line'[u] = 0
  BY <1>1, <1>3 DEF ConvergeInv
<1>7. QED
  BY <1>1, <1>4, <1>5, <1>6 DEF ConvergeInv

\* The next round: the run ended or was killed, and the program is built anew.
LEMMA NextRoundKeeps ==
  ASSUME ConvergeInv, NextRound
  PROVE  ConvergeInv'
<1>1. /\ disturbed' = (disturbed \/ \E t \in Runner : stage[t] = "write")
      /\ \E vectors \in SUBSET Handlers :
           lifted' = Base \cup ((disk \cup vectors) \cap Valid)
      /\ disk' = disk /\ ever' = ever
  BY DEF NextRound
<1>2. /\ miss' = [i \in 0 .. MaxMiss |-> Nowhere] /\ nmiss' = 0
      /\ stage' = [t \in Runner |-> "run"]
      /\ unread' = [t \in Runner |-> {}]
      /\ noting' = [t \in Runner |-> NotNoting]
      /\ line' = [t \in Runner |-> 0]
  BY DEF NextRound, Fresh
<1>3. /\ NotNoting \in [addr : Address \cup {Nowhere}, at : 0 .. MaxMiss]
      /\ NotNoting.at < MaxMiss /\ 0 \in 0 .. MaxMiss
  BY ConvergeAssumption DEF NotNoting
<1>4. ConvergeTypeOK'
  <2>1. lifted' \subseteq Address
    BY <1>1, ConvergeAssumption
  <2>2. disturbed' \in BOOLEAN
    BY <1>1 DEF ConvergeInv, ConvergeTypeOK
  <2>3. QED
    BY <1>1, <1>2, <1>3, <2>1, <2>2 DEF ConvergeInv, ConvergeTypeOK, Stage
<1>5. ~disturbed' => DumpInv'
  <2> SUFFICES ASSUME ~disturbed' PROVE DumpInv'
    OBVIOUS
  <2>1. DumpInv /\ \A t \in Runner : stage[t] # "write"
    BY <1>1 DEF ConvergeInv
  <2>2. ever' \subseteq disk'
    BY <1>1, <2>1 DEF DumpInv
  <2>3. QED
    BY <1>2, <2>2 DEF DumpInv, Dumping
<1>6. QED
  BY <1>2, <1>3, <1>4, <1>5 DEF ConvergeInv

\* At first there is nothing on any list.
LEMMA ConvergeStarts ==
  ConvergeInit => ConvergeInv
<1> SUFFICES ASSUME ConvergeInit PROVE ConvergeInv
  OBVIOUS
<1>1. /\ NotNoting \in [addr : Address \cup {Nowhere}, at : 0 .. MaxMiss]
      /\ NotNoting.at < MaxMiss /\ 0 \in 0 .. MaxMiss
  BY ConvergeAssumption DEF NotNoting
<1>2. ConvergeTypeOK
  BY <1>1, ConvergeAssumption DEF ConvergeInit, ConvergeTypeOK, Stage
<1>3. DumpInv
  BY DEF ConvergeInit, DumpInv, Dumping
<1>4. QED
  BY <1>1, <1>2, <1>3 DEF ConvergeInit, ConvergeInv

\* Every step keeps what is on the file.
LEMMA ConvergeKeeps ==
  ConvergeInv /\ [ConvergeNext]_convergeVars => ConvergeInv'
<1>1. CASE UNCHANGED convergeVars
  BY <1>1 DEF convergeVars, threads, ConvergeInv, ConvergeTypeOK, DumpInv,
              Dumping, Listed
<1>2. QED
  BY <1>1, MissKeeps, StoreKeeps, StartDumpKeeps, MergeKeeps, TruncateKeeps,
     WriteLineKeeps, CloseKeeps, NextRoundKeeps DEF ConvergeNext

\* The list of misses grows for any code and any length of the list, whatever
\* is missed and whenever runs are killed, until one of the five accidents.
THEOREM ListOnlyGrows == ConvergeSpec => []ListGrows
<1>1. ConvergeInit => ConvergeInv
  BY ConvergeStarts
<1>2. ConvergeInv /\ [ConvergeNext]_convergeVars => ConvergeInv'
  BY ConvergeKeeps
<1>3. ConvergeInv => ListGrows
  BY DEF ConvergeInv, DumpInv, ListGrows
<1>4. QED
  BY <1>1, <1>2, <1>3, PTL DEF ConvergeSpec

-----------------------------------------------------------------------------
(* The tick count: Clock. *)

\* A count is its two bytes.
LEMMA CountParts ==
  ASSUME NEW c \in Count16
  PROVE  /\ LowOf(c) \in 0 .. ByteSize - 1 /\ HighOf(c) \in 0 .. ByteSize - 1
         /\ c = LowOf(c) + ByteSize * HighOf(c)
<1>1. ByteSize \in Nat \ {0} /\ c \in Nat /\ c < ByteSize * ByteSize
  BY ClockAssumption DEF Count16
<1>2. /\ LowOf(c) \in 0 .. ByteSize - 1 /\ HighOf(c) \in Int
      /\ c = ByteSize * HighOf(c) + LowOf(c)
  BY <1>1, DivMod DEF LowOf, HighOf
<1>3. ASSUME NEW h \in Int, NEW l \in 0 .. ByteSize - 1, c = ByteSize * h + l
      PROVE  h \in 0 .. ByteSize - 1
  <2>1. h >= 0
    <3>1. SUFFICES ASSUME h <= -1 PROVE FALSE
      BY <1>3
    <3>2. ByteSize * h <= ByteSize * (-1)
      BY <1>1, <3>1
    <3>3. QED
      BY <1>1, <1>3, <3>2
  <2>2. h < ByteSize
    <3>1. SUFFICES ASSUME h >= ByteSize PROVE FALSE
      BY <1>1, <1>3
    <3>2. ByteSize * h >= ByteSize * ByteSize
      BY <1>1, <3>1
    <3>3. QED
      BY <1>1, <1>3, <3>2
  <2>3. QED
    BY <1>1, <2>1, <2>2
<1>4. HighOf(c) \in 0 .. ByteSize - 1
  BY <1>2, <1>3
<1>5. c = LowOf(c) + ByteSize * HighOf(c)
  BY <1>1, <1>2
<1>6. QED
  BY <1>2, <1>4, <1>5

\* And two bytes are a count.
LEMMA PartsCount ==
  ASSUME NEW l \in 0 .. ByteSize - 1, NEW h \in 0 .. ByteSize - 1
  PROVE  /\ l + ByteSize * h \in Count16
         /\ LowOf(l + ByteSize * h) = l /\ HighOf(l + ByteSize * h) = h
<1>1. ByteSize \in Nat \ {0} /\ l \in Nat /\ h \in Nat /\ h <= ByteSize - 1
  BY ClockAssumption
<1>2. ByteSize * h <= ByteSize * (ByteSize - 1) /\ ByteSize * h >= 0
  BY <1>1
<1>3. ByteSize * (ByteSize - 1) = ByteSize * ByteSize - ByteSize
  BY <1>1
<1>4. l + ByteSize * h \in Count16
  BY <1>1, <1>2, <1>3 DEF Count16
<1>5. l + ByteSize * h = ByteSize * h + l
  BY <1>1
<1>6. QED
  BY <1>1, <1>4, <1>5, OneDivMod DEF LowOf, HighOf

\* d is c or one or two ticks later.
Ahead(c, d) ==
  \/ HighOf(d) = HighOf(c) /\ LowOf(d) - LowOf(c) \in 0 .. 2
  \/ HighOf(d) # HighOf(c) /\ LowOf(d) + ByteSize - LowOf(c) \in 0 .. 2

\* The clock's step, seen in the two bytes.
LEMMA TickMoves ==
  ASSUME ByteSize >= 8, NEW c \in Count16, NEW n \in 1 .. 2
  PROVE  LET d == (c + n) % (ByteSize * ByteSize) IN
           d \in Count16 /\ Ahead(c, d)
<1> DEFINE l == LowOf(c)
           h == HighOf(c)
           d == (c + n) % (ByteSize * ByteSize)
<1>1. /\ l \in 0 .. ByteSize - 1 /\ h \in 0 .. ByteSize - 1
      /\ c = l + ByteSize * h
  BY CountParts
<1>2. ByteSize \in Nat \ {0} /\ ByteSize * ByteSize \in Nat \ {0}
  BY ClockAssumption
<1>3. ASSUME NEW e \in Count16 PROVE e % (ByteSize * ByteSize) = e
  <2>1. e \in 0 .. ByteSize * ByteSize - 1
    BY <1>3 DEF Count16
  <2>2. e = (ByteSize * ByteSize) * 0 + e
    BY <1>2, <2>1
  <2>3. QED
    BY <1>2, <2>1, <2>2, OneDivMod
<1>4. CASE l + n < ByteSize
  <2>1. l + n \in 0 .. ByteSize - 1 /\ c + n = (l + n) + ByteSize * h
    BY <1>1, <1>2, <1>4
  <2>2. /\ c + n \in Count16 /\ LowOf(c + n) = l + n /\ HighOf(c + n) = h
    BY <1>1, <2>1, PartsCount
  <2>3. d = c + n
    BY <1>3, <2>2
  <2>4. QED
    BY <1>1, <2>2, <2>3 DEF Ahead
<1>5. CASE l + n >= ByteSize
  <2> DEFINE k == l + n - ByteSize
  <2>1. k \in 0 .. ByteSize - 1 /\ k + ByteSize - l = n
    BY <1>1, <1>2, <1>5
  <2>2. CASE h + 1 < ByteSize
    <3>1. h + 1 \in 0 .. ByteSize - 1 /\ c + n = k + ByteSize * (h + 1)
      <4>1. ByteSize * (h + 1) = ByteSize * h + ByteSize /\ ByteSize * h \in Int
        BY <1>1, <1>2
      <4>2. QED
        BY <1>1, <1>2, <2>2, <4>1
    <3>2. /\ c + n \in Count16 /\ LowOf(c + n) = k /\ HighOf(c + n) = h + 1
      <4> HIDE DEF k
      <4>1. QED
        BY <2>1, <3>1, PartsCount
    <3>3. d = c + n
      BY <1>3, <3>2
    <3>4. QED
      BY <1>1, <2>1, <3>2, <3>3 DEF Ahead
  <2>3. CASE h + 1 >= ByteSize
    <3>1. h = ByteSize - 1 /\ h # 0
      BY <1>1, <1>2, <2>3
    <3>2. c + n = ByteSize * ByteSize + k
      BY <1>1, <1>2, <3>1
    <3>3. ByteSize * ByteSize >= ByteSize
      BY <1>2
    <3>4. k \in 0 .. ByteSize * ByteSize - 1 /\ k \in Int
      BY <1>2, <2>1, <3>3
    <3>5. d = k
      <4> HIDE DEF k
      <4>1. c + n = (ByteSize * ByteSize) * 1 + k
        BY <1>2, <3>2, <3>4
      <4>2. QED
        BY <1>2, <3>4, <4>1, OneDivMod
    <3>6. 0 \in 0 .. ByteSize - 1 /\ k = k + ByteSize * 0
      BY <1>2, <2>1
    <3>7. k \in Count16 /\ LowOf(k) = k /\ HighOf(k) = 0
      <4> HIDE DEF k
      <4>1. QED
        BY <2>1, <3>6, PartsCount
    <3>8. QED
      BY <1>1, <2>1, <3>1, <3>5, <3>7 DEF Ahead
  <2>4. QED
    BY <1>1, <1>2, <2>2, <2>3
<1>6. QED
  BY <1>1, <1>2, <1>4, <1>5

\* The count with these two bytes.
Count(l, h) == l + ByteSize * h

\* Two counts are one when their bytes are.
LEMMA CountIs ==
  /\ \A c \in Count16 : /\ LowOf(c) \in 0 .. ByteSize - 1
                        /\ HighOf(c) \in 0 .. ByteSize - 1
                        /\ c = Count(LowOf(c), HighOf(c))
  /\ \A l, h \in 0 .. ByteSize - 1 :
       /\ Count(l, h) \in Count16
       /\ LowOf(Count(l, h)) = l /\ HighOf(Count(l, h)) = h
<1>1. ASSUME NEW c \in Count16
      PROVE  /\ LowOf(c) \in 0 .. ByteSize - 1 /\ HighOf(c) \in 0 .. ByteSize - 1
             /\ c = Count(LowOf(c), HighOf(c))
  BY CountParts DEF Count
<1>2. ASSUME NEW l \in 0 .. ByteSize - 1, NEW h \in 0 .. ByteSize - 1
      PROVE  /\ Count(l, h) \in Count16
             /\ LowOf(Count(l, h)) = l /\ HighOf(Count(l, h)) = h
  BY PartsCount DEF Count
<1>3. QED
  BY <1>1, <1>2

\* The clock's memory and the guest's values begin well typed.
LEMMA ClockTypeStarts == ClockInit => ClockTypeOK
<1> SUFFICES ASSUME ClockInit PROVE ClockTypeOK
  OBVIOUS
<1>1. ticks \in Count16 /\ before = ticks
  BY DEF ClockInit
<1>2. /\ LowOf(ticks) \in 0 .. ByteSize - 1 /\ HighOf(ticks) \in 0 .. ByteSize - 1
      /\ 0 \in 0 .. ByteSize - 1
  BY <1>1, CountIs, ClockAssumption
<1>3. /\ low \in 0 .. ByteSize - 1 /\ high \in 0 .. ByteSize - 1
      /\ todo \in 0 .. 2 /\ half \in 0 .. ByteSize - 1
      /\ value \in Count16 /\ before \in Count16
  BY <1>1, <1>2 DEF ClockInit
<1>4. /\ reading \in BOOLEAN /\ during \subseteq Count16
      /\ torn \in BOOLEAN /\ twice \in BOOLEAN /\ rested \in BOOLEAN
  BY DEF ClockInit
<1>5. QED
  BY <1>1, <1>3, <1>4 DEF ClockTypeOK

\* And stay so.
LEMMA ClockTypeStays ==
  ASSUME ClockTypeOK, [ClockNext]_clockVars
  PROVE  ClockTypeOK'
<1>1. /\ ticks \in Count16 /\ before \in Count16
      /\ low \in 0 .. ByteSize - 1 /\ high \in 0 .. ByteSize - 1
      /\ todo \in 0 .. 2 /\ half \in 0 .. ByteSize - 1
      /\ during \subseteq Count16 /\ value \in Count16
  BY DEF ClockTypeOK
<1>2. /\ reading \in BOOLEAN /\ torn \in BOOLEAN /\ twice \in BOOLEAN
      /\ rested \in BOOLEAN
  BY DEF ClockTypeOK
<1>3. /\ LowOf(ticks) \in 0 .. ByteSize - 1 /\ HighOf(ticks) \in 0 .. ByteSize - 1
      /\ 0 \in 0 .. ByteSize - 1
  BY <1>1, CountIs, ClockAssumption
<1>4. ASSUME NEW n \in 1 .. 2, Tick(n) PROVE ClockTypeOK'
  <2>1. ticks' \in Count16
    <3>1. ticks' = (ticks + n) % (ByteSize * ByteSize)
      BY <1>4 DEF Tick
    <3>2. ByteSize * ByteSize \in Nat \ {0} /\ ticks + n \in Int
      BY <1>1, ClockAssumption DEF Count16
    <3> DEFINE m == ByteSize * ByteSize
    <3> HIDE DEF m
    <3>3. (ticks + n) % m \in 0 .. m - 1
      BY <3>2, DivMod DEF m
    <3>4. QED
      BY <3>1, <3>3 DEF m, Count16
  <2>2. during' \subseteq Count16
    BY <1>1, <1>4, <2>1 DEF Tick
  <2>3. rested' \in BOOLEAN
    BY <1>4 DEF Tick
  <2>4. before' = ticks /\ todo' = 2
    BY <1>4 DEF Tick
  <2>5. UNCHANGED <<low, high, half, reading, value, torn, twice>>
    BY <1>4 DEF Tick
  <2>6. QED
    BY <1>1, <1>2, <2>1, <2>2, <2>3, <2>4, <2>5 DEF ClockTypeOK
<1>5. CASE StoreLow
  BY <1>1, <1>2, <1>3, <1>5 DEF StoreLow, ClockTypeOK
<1>6. CASE StoreHigh
  BY <1>1, <1>2, <1>3, <1>6 DEF StoreHigh, ClockTypeOK
<1>7. CASE ReadLow
  <2>1. during' \subseteq Count16
    BY <1>1, <1>7 DEF ReadLow, Current
  <2>2. reading' \in BOOLEAN /\ rested' \in BOOLEAN
    BY <1>7 DEF ReadLow
  <2>3. /\ half' = low
        /\ UNCHANGED <<ticks, before, low, high, todo, value, torn, twice>>
    BY <1>7 DEF ReadLow
  <2>4. QED
    BY <1>1, <1>2, <2>1, <2>2, <2>3 DEF ClockTypeOK
<1>8. CASE ReadHigh
  <2>1. value' \in Count16
    BY <1>1, <1>8, PartsCount DEF ReadHigh
  <2>2. torn' \in BOOLEAN /\ twice' \in BOOLEAN
    BY <1>2, <1>8 DEF ReadHigh
  <2>3. reading' \in BOOLEAN /\ rested' \in BOOLEAN
    BY <1>8 DEF ReadHigh
  <2>4. /\ during' = {} /\ half' = 0
        /\ UNCHANGED <<ticks, before, low, high, todo>>
    BY <1>8 DEF ReadHigh
  <2>5. QED
    BY <1>1, <1>3, <2>1, <2>2, <2>3, <2>4 DEF ClockTypeOK
<1>9. CASE UNCHANGED clockVars
  BY <1>1, <1>2, <1>9 DEF clockVars, ClockTypeOK
<1>10. QED
  BY <1>4, <1>5, <1>6, <1>7, <1>8, <1>9 DEF ClockNext

\* What memory holds: the count, or some of the one before.
Stored ==
  /\ low = IF todo = 2 THEN LowOf(before) ELSE LowOf(ticks)
  /\ high = IF todo = 0 THEN HighOf(ticks) ELSE HighOf(before)
  /\ Ahead(before, ticks)

\* A read that is under way began with the low byte of one of the counts it
\* could rightly find, two ticks ago at most.
Begun ==
  reading =>
    /\ ticks \in during /\ (todo # 0 => before \in during)
    /\ \E c \in during :
         /\ half = LowOf(c)
         /\ IF rested THEN c = before \/ (c = ticks /\ todo <= 1)
                      ELSE Ahead(c, before)

\* After a torn value the clock is still between its two bytes, and to read
\* again is to find the same.
Halfway ==
  /\ todo = 1 /\ HighOf(before) # HighOf(ticks)
  /\ value = Count(LowOf(ticks), HighOf(before))
  /\ reading => half = LowOf(ticks)

\* Ticks there can have been since the last value was read.
Since == (IF rested THEN 0 ELSE 1) + (IF reading THEN 1 ELSE 0)

\* Or the low byte has wrapped: it is too small to wrap again before the next
\* value is read, and that value is another.
Settled ==
  /\ todo # 0 => HighOf(before) = HighOf(ticks)
  /\ LowOf(ticks) <= 3 + 2 * Since
  /\ reading => /\ Count(half, HighOf(ticks)) \in during
                /\ Count(half, HighOf(ticks)) # value
  /\ ~reading => \/ HighOf(value) # HighOf(ticks)
                 \/ LowOf(ticks) + ByteSize <= LowOf(value) + 4 + 2 * Since

ClockInv ==
  ClockTypeOK /\ Stored /\ Begun /\ ~twice /\ (torn => Halfway \/ Settled)

\* The bytes of the counts there are, and how they lie.
LEMMA CountBytes ==
  ASSUME ByteSize >= 8, ClockTypeOK
  PROVE  /\ ByteSize \in Nat /\ ticks \in Count16 /\ before \in Count16
         /\ value \in Count16 /\ during \subseteq Count16
         /\ LowOf(ticks) \in 0 .. ByteSize - 1
         /\ HighOf(ticks) \in 0 .. ByteSize - 1
         /\ LowOf(before) \in 0 .. ByteSize - 1
         /\ HighOf(before) \in 0 .. ByteSize - 1
         /\ LowOf(value) \in 0 .. ByteSize - 1
         /\ todo \in 0 .. 2 /\ half \in 0 .. ByteSize - 1
         /\ reading \in BOOLEAN /\ rested \in BOOLEAN /\ torn \in BOOLEAN
         /\ twice \in BOOLEAN
BY ClockAssumption, CountIs DEF ClockTypeOK

\* A tick: after a torn value, the low byte does not wrap again yet.
LEMMA TickKeeps ==
  ASSUME ByteSize >= 8, ClockInv, NEW n \in 1 .. 2, Tick(n)
  PROVE  ClockInv'
<1>1. /\ todo = 0 /\ rested /\ before' = ticks /\ todo' = 2 /\ rested' = FALSE
      /\ ticks' \in Count16 /\ Ahead(ticks, ticks')
      /\ during' = IF reading THEN during \cup {ticks'} ELSE {}
      /\ UNCHANGED <<low, high, half, reading, value, torn, twice>>
  <2>1. ticks \in Count16
    BY DEF ClockInv, ClockTypeOK
  <2>2. ticks' = (ticks + n) % (ByteSize * ByteSize)
    BY DEF Tick
  <2>3. ticks' \in Count16 /\ Ahead(ticks, ticks')
    BY <2>1, <2>2, TickMoves
  <2>4. QED
    BY <2>3 DEF Tick
<1>2. /\ ByteSize \in Nat /\ ticks \in Count16 /\ before \in Count16
      /\ during \subseteq Count16
      /\ LowOf(ticks) \in 0 .. ByteSize - 1 /\ LowOf(before) \in 0 .. ByteSize - 1
      /\ LowOf(ticks') \in 0 .. ByteSize - 1 /\ LowOf(value) \in 0 .. ByteSize - 1
      /\ reading \in BOOLEAN
  BY <1>1, CountBytes, CountIs DEF ClockInv
<1>3. ClockTypeOK'
  <2>1. n = 1 \/ n = 2
    OBVIOUS
  <2>2. QED
    BY <2>1, ClockTypeStays DEF ClockInv, ClockNext
<1>4. Stored'
  BY <1>1 DEF ClockInv, Stored
<1>5. ASSUME reading PROVE Begun'
  <2>1. PICK c \in during : half = LowOf(c) /\ (c = before \/ c = ticks)
    BY <1>1, <1>5 DEF ClockInv, Begun
  <2>2. Ahead(c, ticks)
    BY <1>2, <2>1 DEF ClockInv, Stored, Ahead
  <2>3. c \in during' /\ ticks \in during' /\ ticks' \in during'
    BY <1>1, <1>5, <2>1 DEF ClockInv, Begun
  <2>4. QED
    BY <1>1, <2>1, <2>2, <2>3 DEF Begun
<1>6. ASSUME torn PROVE Settled'
  <2>1. Settled
    BY <1>1, <1>6 DEF ClockInv, Halfway
  <2>2. Since' = Since + 1 /\ Since \in 0 .. 1 /\ (~reading => Since = 0)
    BY <1>1, <1>2 DEF Since
  <2>3. LowOf(ticks) <= 5
    BY <1>2, <2>1, <2>2 DEF Settled
  <2>4. HighOf(ticks') = HighOf(ticks) /\ LowOf(ticks') <= LowOf(ticks) + 2
    BY <1>1, <1>2, <2>3 DEF Ahead
  <2>5. LowOf(ticks') <= 3 + 2 * Since'
    BY <1>2, <2>1, <2>2, <2>4 DEF Settled
  <2>6. ASSUME reading
        PROVE  /\ Count(half, HighOf(ticks')) \in during'
               /\ Count(half, HighOf(ticks')) # value
    BY <1>1, <2>1, <2>4, <2>6 DEF Settled
  <2>7. ASSUME ~reading, HighOf(value) = HighOf(ticks')
        PROVE  LowOf(ticks') + ByteSize <= LowOf(value) + 4 + 2 * Since'
    <3>1. LowOf(ticks) + ByteSize <= LowOf(value) + 4 + 2 * Since
      BY <2>1, <2>4, <2>7 DEF Settled
    <3>2. QED
      BY <1>2, <2>2, <2>4, <3>1
  <2>8. QED
    BY <1>1, <2>4, <2>5, <2>6, <2>7 DEF Settled
<1>7. QED
  BY <1>1, <1>3, <1>4, <1>5, <1>6 DEF ClockInv, Begun

\* The clock stores its low byte.
LEMMA StoreLowKeeps ==
  ASSUME ByteSize >= 8, ClockInv, StoreLow
  PROVE  ClockInv'
<1>1. /\ todo = 2 /\ todo' = 1 /\ low' = LowOf(ticks)
      /\ UNCHANGED <<ticks, before, high, half, reading, during, value, torn,
                     twice, rested>>
  BY DEF StoreLow
<1>2. LowOf(ticks) \in 0 .. ByteSize - 1
  BY CountBytes DEF ClockInv
<1>3. ClockTypeOK'
  BY ClockTypeStays DEF ClockInv, ClockNext
<1>4. Stored' /\ Begun'
  BY <1>1 DEF ClockInv, Stored, Begun, Ahead
<1>5. torn => Settled'
  BY <1>1 DEF ClockInv, Halfway, Settled, Since
<1>6. QED
  BY <1>1, <1>3, <1>4, <1>5 DEF ClockInv

\* And its high byte: what was torn can be read rightly now.
LEMMA StoreHighKeeps ==
  ASSUME ByteSize >= 8, ClockInv, StoreHigh
  PROVE  ClockInv'
<1>1. /\ todo = 1 /\ todo' = 0 /\ high' = HighOf(ticks)
      /\ UNCHANGED <<ticks, before, low, half, reading, during, value, torn,
                     twice, rested>>
  BY DEF StoreHigh
<1>2. /\ ByteSize \in Nat /\ ticks \in Count16
      /\ LowOf(ticks) \in 0 .. ByteSize - 1 /\ HighOf(ticks) \in 0 .. ByteSize - 1
      /\ LowOf(before) \in 0 .. ByteSize - 1
      /\ HighOf(before) \in 0 .. ByteSize - 1
  BY CountBytes DEF ClockInv
<1>3. ClockTypeOK'
  BY ClockTypeStays DEF ClockInv, ClockNext
<1>4. Stored' /\ Begun'
  BY <1>1 DEF ClockInv, Stored, Begun, Ahead
<1>5. ASSUME Halfway PROVE Settled'
  <2>1. LowOf(ticks) <= 1
    BY <1>2, <1>5 DEF Halfway, ClockInv, Stored, Ahead
  <2>2. Since \in 0 .. 2 /\ Since' = Since
    BY <1>1 DEF Since
  <2>3. LowOf(value) = LowOf(ticks) /\ HighOf(value) # HighOf(ticks)
    BY <1>2, <1>5, CountIs DEF Halfway
  <2>4. reading => /\ Count(half, HighOf(ticks)) = ticks
                   /\ ticks \in during /\ ticks # value
    BY <1>2, <1>5, <2>3, CountIs DEF Halfway, ClockInv, Begun
  <2>5. LowOf(ticks) <= 3 + 2 * Since'
    BY <1>2, <2>1, <2>2
  <2>6. QED
    BY <1>1, <2>3, <2>4, <2>5 DEF Settled
<1>6. ASSUME Settled PROVE Settled'
  BY <1>1, <1>6 DEF Settled, Since
<1>7. QED
  BY <1>1, <1>3, <1>4, <1>5, <1>6 DEF ClockInv

\* The guest reads the low byte.
LEMMA ReadLowKeeps ==
  ASSUME ByteSize >= 8, ClockInv, ReadLow
  PROVE  ClockInv'
<1>1. /\ ~reading /\ reading' /\ half' = low /\ during' = Current /\ rested'
      /\ UNCHANGED <<ticks, before, low, high, todo, value, torn, twice>>
  BY DEF ReadLow
<1>2. /\ ByteSize \in Nat /\ ticks \in Count16 /\ before \in Count16
      /\ value \in Count16 /\ todo \in 0 .. 2 /\ rested \in BOOLEAN
      /\ LowOf(ticks) \in 0 .. ByteSize - 1 /\ HighOf(ticks) \in 0 .. ByteSize - 1
      /\ LowOf(before) \in 0 .. ByteSize - 1
      /\ HighOf(before) \in 0 .. ByteSize - 1
      /\ LowOf(value) \in 0 .. ByteSize - 1
  BY CountBytes DEF ClockInv
<1>3. ClockTypeOK'
  BY ClockTypeStays DEF ClockInv, ClockNext
<1>4. Stored'
  BY <1>1 DEF ClockInv, Stored, Ahead
<1> DEFINE c == IF todo = 2 THEN before ELSE ticks
<1>5. c \in Current /\ low = LowOf(c) /\ ticks \in Current
  BY DEF ClockInv, Stored, Current
<1>6. Begun'
  BY <1>1, <1>2, <1>5 DEF Begun, Current
<1>7. ASSUME Halfway PROVE Halfway'
  BY <1>1, <1>7 DEF Halfway, ClockInv, Stored
<1>8. ASSUME Settled PROVE Settled'
  <2>1. Since \in 0 .. 1 /\ Since' = 1
    BY <1>1, <1>2 DEF Since
  <2>2. HighOf(c) = HighOf(ticks) /\ LowOf(c) <= LowOf(ticks)
    BY <1>2, <1>8 DEF Settled, ClockInv, Stored, Ahead
  <2>3. Count(half', HighOf(ticks)) = c /\ c \in Count16
    BY <1>1, <1>2, <1>5, <2>2, CountIs
  <2>4. HighOf(value) # HighOf(ticks)
          \/ LowOf(ticks) + ByteSize <= LowOf(value) + 4 + 2 * Since
    BY <1>1, <1>8 DEF Settled
  <2>5. c # value
    <3>1. CASE HighOf(value) # HighOf(ticks)
      BY <2>2, <3>1
    <3>2. CASE LowOf(ticks) + ByteSize <= LowOf(value) + 4 + 2 * Since
      <4>1. LowOf(c) < LowOf(value)
        BY <1>2, <2>1, <2>2, <3>2
      <4>2. QED
        BY <1>2, <4>1
    <3>3. QED
      BY <2>4, <3>1, <3>2
  <2>6. LowOf(ticks) <= 3 + 2 * Since'
    BY <1>2, <1>8, <2>1 DEF Settled
  <2>7. c \in during' /\ todo' = todo /\ ticks' = ticks /\ before' = before
    BY <1>1, <1>5
  <2>8. QED
    BY <1>1, <1>8, <2>3, <2>5, <2>6, <2>7 DEF Settled
<1>9. QED
  BY <1>1, <1>3, <1>4, <1>6, <1>7, <1>8 DEF ClockInv

\* And the high one: a value that is none of its counts was torn by a wrap,
\* and what follows it is not.
LEMMA ReadHighKeeps ==
  ASSUME ByteSize >= 8, ClockInv, ReadHigh
  PROVE  ClockInv'
<1> DEFINE y == IF todo = 0 THEN ticks ELSE before
<1>1. /\ reading /\ reading' = FALSE /\ half' = 0 /\ rested' = TRUE
      /\ during' = {}
      /\ value' = half + ByteSize * high
      /\ torn' = IF value' = value THEN torn ELSE value' \notin during
      /\ twice' = (twice \/ (value' # value /\ torn /\ torn'))
      /\ UNCHANGED <<ticks, before, low, high, todo>>
  BY DEF ReadHigh
<1>2. /\ ByteSize \in Nat /\ ticks \in Count16 /\ before \in Count16
      /\ value \in Count16 /\ todo \in 0 .. 2 /\ rested \in BOOLEAN
      /\ during \subseteq Count16 /\ half \in 0 .. ByteSize - 1
      /\ LowOf(ticks) \in 0 .. ByteSize - 1 /\ HighOf(ticks) \in 0 .. ByteSize - 1
      /\ LowOf(before) \in 0 .. ByteSize - 1
      /\ HighOf(before) \in 0 .. ByteSize - 1
      /\ torn \in BOOLEAN /\ twice \in BOOLEAN
  BY CountBytes DEF ClockInv
<1>3. /\ high = HighOf(y) /\ value' = Count(half, HighOf(y))
      /\ HighOf(y) \in 0 .. ByteSize - 1
  BY <1>1, <1>2 DEF ClockInv, Stored, Count
<1>4. /\ value' \in Count16 /\ LowOf(value') = half /\ HighOf(value') = HighOf(y)
  BY <1>2, <1>3, CountIs
<1>5. torn' \in BOOLEAN /\ twice' \in BOOLEAN
  BY <1>1, <1>2
<1>6. ClockTypeOK'
  BY ClockTypeStays DEF ClockInv, ClockNext
<1>7. Stored' /\ Begun'
  BY <1>1 DEF ClockInv, Stored, Begun, Ahead
<1>8. ASSUME torn, Halfway PROVE value' = value
  BY <1>1, <1>2, <1>3, <1>8 DEF Halfway
<1>9. ASSUME Settled PROVE value' \in during /\ value' # value
  BY <1>1, <1>2, <1>3, <1>9 DEF Settled
<1>10. ~twice'
  BY <1>1, <1>8, <1>9 DEF ClockInv
<1>11. ASSUME torn', value' = value PROVE Halfway'
  <2>1. Halfway
    BY <1>1, <1>9, <1>11 DEF ClockInv
  <2>2. QED
    BY <1>1, <1>11, <2>1 DEF Halfway
<1>12. ASSUME torn', value' # value PROVE Halfway' \/ Settled'
  <2>1. value' \notin during
    BY <1>1, <1>12
  <2>2. PICK c \in during :
          /\ half = LowOf(c)
          /\ IF rested THEN c = before \/ (c = ticks /\ todo <= 1)
                       ELSE Ahead(c, before)
    BY <1>1 DEF ClockInv, Begun
  <2>3. HighOf(c) # HighOf(y)
    BY <1>2, <1>3, <2>1, <2>2, CountIs
  <2>4. LowOf(c) \in 0 .. ByteSize - 1
    BY <1>2, <2>2, CountIs
  <2>5. Since' = 0
    BY <1>1 DEF Since
  <2>6. Ahead(before, ticks)
    BY DEF ClockInv, Stored
  <2>7. ASSUME todo # 0 => HighOf(before) = HighOf(ticks), LowOf(ticks) <= 3,
               LowOf(ticks) + ByteSize <= LowOf(c) + 4
        PROVE  Settled'
    <3>1. LowOf(ticks) <= 3 + 2 * Since'
      BY <1>2, <2>5, <2>7
    <3>2. LowOf(ticks) + ByteSize <= LowOf(value') + 4 + 2 * Since'
      BY <1>2, <1>4, <2>2, <2>4, <2>5, <2>7
    <3>3. QED
      BY <1>1, <2>7, <3>1, <3>2 DEF Settled
  <2>8. CASE rested /\ c = before
    <3>1. todo = 0 /\ HighOf(before) # HighOf(ticks)
      BY <2>3, <2>8
    <3>2. QED
      BY <1>2, <2>6, <2>7, <2>8, <3>1 DEF Ahead
  <2>9. CASE rested /\ c = ticks /\ todo <= 1
    <3>1. todo = 1 /\ HighOf(before) # HighOf(ticks)
      BY <1>2, <2>3, <2>9
    <3>2. value' = Count(LowOf(ticks), HighOf(before))
      BY <1>3, <2>2, <2>9, <3>1
    <3>3. QED
      BY <1>1, <3>1, <3>2 DEF Halfway
  <2>10. CASE ~rested /\ Ahead(c, before)
    <3>1. CASE HighOf(before) # HighOf(c)
      <4>1. LowOf(before) <= 1 /\ LowOf(before) + ByteSize <= LowOf(c) + 2
        BY <1>2, <2>4, <2>10, <3>1 DEF Ahead
      <4>2. HighOf(before) = HighOf(ticks) /\ LowOf(ticks) <= LowOf(before) + 2
        BY <1>2, <2>6, <4>1 DEF Ahead
      <4>3. QED
        BY <1>2, <2>4, <2>7, <4>1, <4>2
    <3>2. CASE HighOf(before) = HighOf(c)
      <4>1. todo = 0 /\ HighOf(before) # HighOf(ticks)
        BY <2>3, <3>2
      <4>2. LowOf(before) <= LowOf(c) + 2
        BY <1>2, <2>4, <2>10, <3>2 DEF Ahead
      <4>3. LowOf(ticks) <= 1 /\ LowOf(ticks) + ByteSize <= LowOf(before) + 2
        BY <1>2, <2>6, <4>1 DEF Ahead
      <4>4. QED
        BY <1>2, <2>4, <2>7, <4>1, <4>2, <4>3
    <3>3. QED
      BY <3>1, <3>2
  <2>11. QED
    BY <2>2, <2>8, <2>9, <2>10
<1>13. QED
  BY <1>6, <1>7, <1>10, <1>11, <1>12 DEF ClockInv

\* However the clock's stores fall between the guest's reads, two values that
\* were never the count do not follow each other, if a byte has at least
\* eight values: its own ticks then lie too close together for a second wrap.
THEOREM TornReadsAreSingle ==
  ByteSize >= 8 => (ClockSpec => []OneBadSample)
<1> SUFFICES ASSUME ByteSize >= 8 PROVE ClockSpec => []OneBadSample
  OBVIOUS
<1>1. ClockInit => ClockInv
  <2> SUFFICES ASSUME ClockInit PROVE ClockInv
    OBVIOUS
  <2>1. ticks \in Count16 /\ before = ticks
    BY DEF ClockInit
  <2>2. LowOf(ticks) \in 0 .. ByteSize - 1 /\ HighOf(ticks) \in 0 .. ByteSize - 1
    BY <2>1, CountIs
  <2>3. ByteSize \in Nat /\ 0 \in 0 .. ByteSize - 1
    BY ClockAssumption
  <2>4. ClockTypeOK
    BY ClockTypeStarts
  <2>5. Stored
    BY <2>1, <2>2, <2>3 DEF ClockInit, Stored, Ahead
  <2>6. QED
    BY <2>4, <2>5 DEF ClockInit, ClockInv, Begun
<1>2. ClockInv /\ [ClockNext]_clockVars => ClockInv'
  <2> SUFFICES ASSUME ClockInv, [ClockNext]_clockVars PROVE ClockInv'
    OBVIOUS
  <2>1. CASE Tick(1) \/ Tick(2)
    BY <2>1, TickKeeps
  <2>2. CASE StoreLow
    BY <2>2, StoreLowKeeps
  <2>3. CASE StoreHigh
    BY <2>3, StoreHighKeeps
  <2>4. CASE ReadLow
    BY <2>4, ReadLowKeeps
  <2>5. CASE ReadHigh
    BY <2>5, ReadHighKeeps
  <2>6. CASE UNCHANGED clockVars
    BY <2>6 DEF clockVars, ClockInv, ClockTypeOK, Stored, Begun, Halfway,
                Settled, Since, Ahead
  <2>7. QED
    BY <2>1, <2>2, <2>3, <2>4, <2>5, <2>6 DEF ClockNext
<1>3. ClockInv => OneBadSample
  BY DEF ClockInv, OneBadSample
<1>4. QED
  BY <1>1, <1>2, <1>3, PTL DEF ClockSpec

-----------------------------------------------------------------------------
(* The four together: MCHost. *)

HostInv == VgaTypeOK /\ SamplerInv /\ ClockTypeOK /\ ConvergeInv

\* Every variable of the four keeps its type, for any screen, buffer, byte,
\* code and length of the list.
THEOREM HostTypeCorrect == HostSpec => []HostTypeOK
<1>1. HostInit => HostInv
  BY VgaTypeStarts, SamplerStarts, ClockTypeStarts, ConvergeStarts
  DEF HostInit, HostInv
<1>2. HostInv /\ [HostNext]_<<unit, vgaVars, samplerVars, clockVars, convergeVars>>
        => HostInv'
  <2> SUFFICES ASSUME HostInv,
               [HostNext]_<<unit, vgaVars, samplerVars, clockVars, convergeVars>>
               PROVE  HostInv'
    OBVIOUS
  <2>1. /\ [VgaNext]_vgaVars /\ [SamplerNext]_samplerVars
        /\ [ClockNext]_clockVars /\ [ConvergeNext]_convergeVars
    BY DEF HostNext, VgaStep, SamplerStep, ClockStep, ConvergeStep
  <2>2. VgaTypeOK' /\ ClockTypeOK'
    BY <2>1, VgaTypeStays, ClockTypeStays DEF HostInv
  <2>3. SamplerInv' /\ ConvergeInv'
    BY <2>1, SamplerKeeps, ConvergeKeeps DEF HostInv
  <2>4. QED
    BY <2>2, <2>3 DEF HostInv
<1>3. HostInv => HostTypeOK
  BY DEF HostInv, SamplerInv, ConvergeInv, HostTypeOK
<1>4. QED
  BY <1>1, <1>2, <1>3, PTL DEF HostSpec
=============================================================================
