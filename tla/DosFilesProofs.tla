--------------------------- MODULE DosFilesProofs ---------------------------
(***************************************************************************)
(* Proofs about DosFiles.tla, for any names, any number of handles and of  *)
(* streams, any size of a file, and EMS_FH anywhere.                       *)
(*                                                                         *)
(* First what a flush makes of a file (Overlay): a file a stream has       *)
(* written to, with what is still to be flushed laid over what is on the   *)
(* disk, is what the guest wrote, and another write keeps it so.  Then the *)
(* calls, one at a time.  What is said of files is said stream by stream;  *)
(* which handle leads to a stream only matters to NoStreamLeaks.           *)
(***************************************************************************)
EXTENDS DosFiles, SequenceTheorems, WellFoundedInduction, TLAPS

Place == 1 .. MaxSize
Cell  == Chunk \cup {Hole}

-----------------------------------------------------------------------------
(* Contents.                                                               *)

\* A content is a sequence of chunks and holes that is not too long.
LEMMA ContentIs ==
  ASSUME NEW c
  PROVE  c \in Content <=> c \in Seq(Cell) /\ Len(c) <= MaxSize
<1>1. ASSUME c \in Content PROVE c \in Seq(Cell) /\ Len(c) <= MaxSize
  <2>1. PICK n \in 0 .. MaxSize : c \in [1 .. n -> Cell]
    BY <1>1 DEF Content, Cell
  <2>2. n \in Nat /\ n <= MaxSize
    BY <2>1, DosFilesAssumption
  <2>3. c \in Seq(Cell) /\ DOMAIN c = 1 .. n
    BY <2>1, <2>2
  <2>4. Len(c) = n
    BY <2>2, <2>3, LenProperties
  <2> QED BY <2>2, <2>3, <2>4
<1>2. ASSUME c \in Seq(Cell), Len(c) <= MaxSize PROVE c \in Content
  <2>1. Len(c) \in 0 .. MaxSize /\ c \in [1 .. Len(c) -> Cell]
    BY <1>2, LenProperties, DosFilesAssumption
  <2> QED BY <2>1 DEF Content, Cell
<1> QED BY <1>1, <1>2

\* Contents of one length with the same in every place are one.
LEMMA SameContent ==
  ASSUME NEW c \in Seq(Cell), NEW d \in Seq(Cell), Len(c) = Len(d),
         \A i \in 1 .. Len(c) : c[i] = d[i]
  PROVE  c = d
<1>1. c \in [1 .. Len(c) -> Cell] /\ d \in [1 .. Len(c) -> Cell]
  BY LenProperties
<1> QED BY <1>1

\* The last of some places.
LEMMA LastPlace ==
  ASSUME NEW D \in SUBSET Place, D # {}
  PROVE  LET m == CHOOSE i \in D : \A j \in D : j <= i
         IN  m \in D /\ \A j \in D : j <= m
<1> DEFINE B == {k \in Nat : \A j \in D : j <= k}
<1>1. MaxSize \in Nat /\ \A j \in D : j \in Nat /\ j >= 1 /\ j <= MaxSize
  BY DosFilesAssumption DEF Place
<1>2. MaxSize \in B
  BY <1>1
<1>3. PICK m \in B : \A k \in B : ~ (<<k, m>> \in OpToRel(<, Nat))
  <2>1. B \subseteq Nat /\ B # {}
    BY <1>2
  <2> HIDE DEF B
  <2> QED BY <2>1, NatLessThanWellFounded, WFMin
<1>4. m \in Nat /\ \A j \in D : j <= m
  OBVIOUS
<1>5. \A k \in B : ~(k < m)
  BY <1>3 DEF OpToRel
<1>6. m \in D
  <2> SUFFICES ASSUME m \notin D PROVE FALSE
    OBVIOUS
  <2>1. \A j \in D : j < m
    BY <1>1, <1>4
  <2>2. m >= 1
    BY <1>1, <1>4
  <2>3. m - 1 \in B
    BY <1>1, <1>4, <2>1, <2>2
  <2> HIDE DEF B
  <2> QED BY <1>4, <1>5, <2>3
<1> QED BY <1>4, <1>6

\* What Overlay makes.
LEMMA OverlayIs ==
  ASSUME NEW c \in Content, NEW D \in SUBSET Place, NEW image,
         \A i \in D : image[i] \in Cell
  PROVE  LET r == Overlay(c, image, D)
         IN  /\ r \in Content /\ r \in Seq(Cell) /\ Len(r) \in Nat
             /\ c \in Seq(Cell) /\ Len(c) \in Nat /\ Len(c) <= Len(r)
             /\ Len(r) = Len(c) \/ Len(r) \in D
             /\ \A i \in D : i \in 1 .. Len(r)
             /\ \A i \in 1 .. Len(r) :
                  r[i] = IF i \in D THEN image[i] ELSE IF i <= Len(c) THEN c[i] ELSE Hole
<1> DEFINE m == CHOOSE i \in D : \A j \in D : j <= i
           n == IF D = {} THEN Len(c) ELSE Longer(Len(c), m)
           r == [i \in 1 .. n |-> IF i \in D THEN image[i]
                                  ELSE IF i <= Len(c) THEN c[i] ELSE Hole]
<1>1. Overlay(c, image, D) = r
  BY DEF Overlay
<1>2. /\ c \in Seq(Cell) /\ Len(c) \in Nat /\ Len(c) <= MaxSize /\ MaxSize \in Nat
      /\ \A i \in 1 .. Len(c) : c[i] \in Cell
  BY ContentIs, LenProperties, ElementOfSeq, DosFilesAssumption
<1>3. \A i \in D : i \in Nat /\ 1 <= i /\ i <= MaxSize
  BY <1>2 DEF Place
<1>4. D # {} => m \in D /\ \A j \in D : j <= m
  BY LastPlace
<1> HIDE DEF m
<1>5. /\ n \in Nat /\ Len(c) <= n /\ n <= MaxSize
      /\ n = Len(c) \/ n \in D
      /\ \A i \in D : i <= n
  BY <1>2, <1>3, <1>4 DEF Longer
<1> HIDE DEF n
<1>6. Hole \in Cell
  BY DEF Cell
<1>7. r \in [1 .. n -> Cell]
  <2>1. ASSUME NEW i \in 1 .. n
        PROVE  (IF i \in D THEN image[i] ELSE IF i <= Len(c) THEN c[i] ELSE Hole) \in Cell
    <3>1. i \in Nat /\ 1 <= i
      BY <1>5
    <3> QED BY <1>2, <1>6, <3>1
  <2> QED BY <2>1
<1>8. \A i \in 1 .. n :
        r[i] = IF i \in D THEN image[i] ELSE IF i <= Len(c) THEN c[i] ELSE Hole
  OBVIOUS
<1> HIDE DEF r
<1>9. r \in Seq(Cell) /\ Len(r) = n
  <2>1. r \in Seq(Cell) /\ DOMAIN r = 1 .. n
    BY <1>5, <1>7
  <2> QED BY <1>5, <2>1, LenProperties
<1>10. r \in Content
  BY <1>5, <1>9, ContentIs
<1>11. \A i \in D : i \in 1 .. n
  BY <1>3, <1>5
<1> QED BY <1>1, <1>2, <1>5, <1>8, <1>9, <1>10, <1>11

\* With nothing to flush the disk stays as it is.
LEMMA OverlayNothing ==
  ASSUME NEW c \in Content, NEW image
  PROVE  Overlay(c, image, {}) = c
<1> DEFINE r == Overlay(c, image, {})
<1>1. /\ r \in Seq(Cell) /\ c \in Seq(Cell) /\ Len(c) \in Nat /\ Len(r) = Len(c)
      /\ \A i \in 1 .. Len(r) : r[i] = IF i <= Len(c) THEN c[i] ELSE Hole
  BY OverlayIs
<1> HIDE DEF r
<1>2. \A i \in 1 .. Len(r) : r[i] = c[i]
  BY <1>1
<1>3. r = c
  BY <1>1, <1>2, SameContent
<1> QED BY <1>3 DEF r

\* A content is another one with v at place q.
OneMore(new, image, q, v) ==
  /\ Len(image) <= Len(new) /\ q \in 1 .. Len(new)
  /\ Len(new) = Len(image) \/ Len(new) = q
  /\ \A i \in 1 .. Len(new) :
       new[i] = IF i = q THEN v ELSE IF i <= Len(image) THEN image[i] ELSE Hole

\* A file that is what disk and stream make together is so with one chunk more.
LEMMA OneChunkMore ==
  ASSUME NEW c \in Content, NEW image \in Content, NEW D \in SUBSET Place,
         D \subseteq 1 .. Len(image), Overlay(c, image, D) = image,
         NEW q \in Place, NEW v \in Cell,
         NEW new \in Content, OneMore(new, image, q, v),
         NEW more, more = D \cup {q}
  PROVE  Overlay(c, new, more) = new
<1> DEFINE r == Overlay(c, new, D \cup {q})
           n == Len(image)
<1>1. /\ image \in Seq(Cell) /\ n \in Nat /\ c \in Seq(Cell) /\ Len(c) \in Nat
      /\ \A i \in 1 .. n : image[i] \in Cell
  BY ContentIs, LenProperties, ElementOfSeq
<1>2. /\ Len(c) <= n /\ (n = Len(c) \/ n \in D)
      /\ \A i \in 1 .. n :
           image[i] = IF i \in D THEN image[i] ELSE IF i <= Len(c) THEN c[i] ELSE Hole
  <2>1. \A i \in D : image[i] \in Cell
    BY <1>1
  <2>2. LET e == Overlay(c, image, D)
        IN  /\ Len(c) <= Len(e) /\ (Len(e) = Len(c) \/ Len(e) \in D)
            /\ \A i \in 1 .. Len(e) :
                 e[i] = IF i \in D THEN image[i] ELSE IF i <= Len(c) THEN c[i] ELSE Hole
    BY <2>1, OverlayIs
  <2> QED BY <2>2
<1>3. q \in Nat
  BY DosFilesAssumption DEF Place
<1>4. /\ new \in Seq(Cell) /\ Len(new) \in Nat /\ n <= Len(new)
      /\ Len(new) = n \/ Len(new) = q
      /\ q \in 1 .. Len(new)
      /\ \A i \in 1 .. Len(new) :
           new[i] = IF i = q THEN v ELSE IF i <= n THEN image[i] ELSE Hole
  BY ContentIs, LenProperties DEF OneMore
<1>5. /\ r \in Seq(Cell) /\ Len(r) \in Nat /\ Len(c) <= Len(r)
      /\ Len(r) = Len(c) \/ Len(r) \in D \cup {q}
      /\ \A i \in D \cup {q} : i \in 1 .. Len(r)
      /\ \A i \in 1 .. Len(r) :
           r[i] = IF i \in D \cup {q} THEN new[i] ELSE IF i <= Len(c) THEN c[i] ELSE Hole
  <2> DEFINE E == D \cup {q}
  <2>1. E \in SUBSET Place
    OBVIOUS
  <2>2. \A i \in E : new[i] \in Cell
    <3>1. \A i \in E : i \in 1 .. Len(new)
      BY <1>1, <1>4
    <3> QED BY <1>4, <3>1, ElementOfSeq
  <2> HIDE DEF E, r
  <2>3. LET e == Overlay(c, new, E)
        IN  /\ e \in Seq(Cell) /\ Len(e) \in Nat /\ Len(c) <= Len(e)
            /\ Len(e) = Len(c) \/ Len(e) \in E
            /\ \A i \in E : i \in 1 .. Len(e)
            /\ \A i \in 1 .. Len(e) :
                 e[i] = IF i \in E THEN new[i] ELSE IF i <= Len(c) THEN c[i] ELSE Hole
    BY <2>1, <2>2, OverlayIs
  <2> QED BY <2>3 DEF E, r
<1> HIDE DEF r, n
<1>6. Len(r) = Len(new)
  <2>1. \A i \in D : i \in Nat /\ i <= n
    BY <1>1 DEF n
  <2>2. Len(r) <= Len(new)
    <3>1. CASE Len(r) = Len(c) \/ Len(r) \in D
      <4>1. Len(r) <= n
        BY <1>2, <2>1, <3>1
      <4> QED BY <1>1, <1>4, <1>5, <4>1
    <3>2. CASE Len(r) = q
      BY <1>4, <3>2
    <3> QED BY <1>5, <3>1, <3>2
  <2>3. Len(new) <= Len(r)
    <3>1. q <= Len(r)
      BY <1>5
    <3>2. n <= Len(r)
      <4>1. CASE n = Len(c)
        BY <1>5, <4>1
      <4>2. CASE n \in D
        <5>1. n \in 1 .. Len(r)
          BY <1>5, <4>2
        <5> QED BY <1>5, <5>1
      <4> QED BY <1>2, <4>1, <4>2
    <3> QED BY <1>4, <3>1, <3>2
  <2> QED BY <1>4, <1>5, <2>2, <2>3
<1>7. ASSUME NEW i \in 1 .. Len(r) PROVE r[i] = new[i]
  <2>1. CASE i \in D \cup {q}
    BY <1>5, <2>1
  <2>2. CASE i \notin D /\ i # q /\ i <= Len(c)
    <3>1. i \in 1 .. n
      BY <1>1, <1>2, <1>5, <2>2
    <3>2. image[i] = c[i]
      BY <1>2, <2>2, <3>1
    <3>3. new[i] = image[i]
      BY <1>4, <1>6, <2>2, <3>1
    <3> QED BY <1>5, <2>2, <3>2, <3>3
  <2>3. CASE i \notin D /\ i # q /\ ~(i <= Len(c))
    <3>1. r[i] = Hole
      BY <1>5, <2>3
    <3>2. CASE i <= n
      <4>1. i \in 1 .. n
        BY <1>1, <1>5, <3>2
      <4> QED BY <1>2, <1>4, <1>6, <2>3, <3>1, <3>2, <4>1
    <3>3. CASE ~(i <= n)
      BY <1>4, <1>6, <2>3, <3>1, <3>3
    <3> QED BY <3>2, <3>3
  <2> QED BY <2>1, <2>2, <2>3
<1>8. r = new
  BY <1>4, <1>5, <1>6, <1>7, SameContent
<1> QED BY <1>8 DEF r

\* A write keeps it so.
LEMMA OverlayWrites ==
  ASSUME NEW c \in Content, NEW image \in Content, NEW D \in SUBSET Place,
         D \subseteq 1 .. Len(image), Overlay(c, image, D) = image,
         NEW q \in Place, NEW write, write[q] \in Cell,
         NEW new, new = Overlay(image, write, {q}), NEW more, more = D \cup {q}
  PROVE  Overlay(c, new, more) = new
<1> DEFINE n == Len(image)
<1>1. /\ new \in Content /\ Len(new) \in Nat /\ n <= Len(new)
      /\ Len(new) = n \/ Len(new) = q
      /\ q \in 1 .. Len(new)
      /\ \A i \in 1 .. Len(new) :
           new[i] = IF i = q THEN write[q] ELSE IF i <= n THEN image[i] ELSE Hole
  <2> DEFINE E == {q}
  <2>1. E \in SUBSET Place /\ \A i \in E : write[i] \in Cell
    OBVIOUS
  <2> HIDE DEF E
  <2>2. /\ new \in Content /\ Len(new) \in Nat /\ n <= Len(new)
        /\ Len(new) = n \/ Len(new) \in E
        /\ \A i \in E : i \in 1 .. Len(new)
        /\ \A i \in 1 .. Len(new) :
             new[i] = IF i \in E THEN write[i] ELSE IF i <= n THEN image[i] ELSE Hole
    <3>1. LET e == Overlay(image, write, E)
          IN  /\ e \in Content /\ e \in Seq(Cell) /\ Len(e) \in Nat /\ Len(image) <= Len(e)
              /\ Len(e) = Len(image) \/ Len(e) \in E
              /\ \A i \in E : i \in 1 .. Len(e)
              /\ \A i \in 1 .. Len(e) :
                   e[i] = IF i \in E THEN write[i] ELSE IF i <= Len(image) THEN image[i] ELSE Hole
      BY <2>1, OverlayIs
    <3> QED BY <3>1 DEF E
  <2> QED BY <2>2 DEF E
<1> HIDE DEF n
<1> DEFINE v == write[q]
<1>2. new \in Content /\ OneMore(new, image, q, v)
  BY <1>1 DEF n, OneMore
<1>3. v \in Cell
  OBVIOUS
<1> HIDE DEF v
<1> QED BY <1>2, <1>3, OneChunkMore

-----------------------------------------------------------------------------
(* The invariant.                                                          *)

\* An open stream leads to a file, and what of it is to be flushed is part of
\* the file to be.
Leads(s) ==
  /\ s.mode \in {"r", "w"} /\ s.path \in Path
  /\ disk[s.path] \in Content
  /\ s.dirty \subseteq 1 .. Len(s.image)

StreamsLead == \A f \in File : Live(f) => Leads(stream[f])

\* What is on the disk, with what is still to be flushed, is what the guest
\* wrote.
Holds(c, s) == Overlay(c, s.image, s.dirty) = s.image

\* A path that is not crowded has one writer at most, and between them the disk
\* and the stream have all it wrote; a closed file has no writer.
PathKept(p) ==
  /\ p \notin crowded =>
       /\ \A f, k \in Writers(p) : f = k
       /\ \A f \in Writers(p) : Holds(disk[p], stream[f])
  /\ saved[p] # Unknown => Writers(p) = {} /\ disk[p] = saved[p]

FilesInv == TypeOK /\ NoStreamLeaks /\ StreamsLead /\ \A p \in Path : PathKept(p)

\* The stream a file is opened with, and the one that is none.
LEMMA FreshIs ==
  /\ NoStream \in Stream /\ NoStream.mode = "none"
  /\ \A p \in Path, m \in {"r", "w"} :
       LET s == Fresh(p, m)
       IN  /\ s \in Stream /\ s # NoStream
           /\ s.mode = m /\ s.path = p /\ s.image = <<>> /\ s.dirty = {}
<1>1. <<>> \in Content
  <2>1. <<>> \in Seq(Cell) /\ Len(<<>>) = 0
    BY EmptySeq
  <2>2. Len(<<>>) <= MaxSize
    BY <2>1, DosFilesAssumption
  <2> QED BY <2>1, <2>2, ContentIs
<1>2. 0 \in 0 .. MaxSize
  BY DosFilesAssumption
<1>3. NoStream \in Stream /\ NoStream.mode = "none"
  BY <1>1, <1>2 DEF NoStream, Fresh, Stream
<1>4. ASSUME NEW p \in Path, NEW m \in {"r", "w"}
      PROVE  LET s == Fresh(p, m)
             IN  /\ s \in Stream /\ s # NoStream
                 /\ s.mode = m /\ s.path = p /\ s.image = <<>> /\ s.dirty = {}
  <2> DEFINE s == Fresh(p, m)
  <2>1. s \in Stream
    BY <1>1, <1>2 DEF Fresh, Stream
  <2>2. s.mode = m /\ s.path = p /\ s.image = <<>> /\ s.dirty = {}
    BY DEF Fresh
  <2> HIDE DEF s
  <2>3. s # NoStream
    BY <1>3, <2>2
  <2> QED BY <2>1, <2>2, <2>3 DEF s
<1> QED BY <1>3, <1>4

\* What there is to know of a stream.
LEMMA StreamParts ==
  ASSUME NEW s \in Stream
  PROVE  /\ s.path \in Path \cup {Nowhere} /\ s.mode \in {"none", "r", "w"}
         /\ s.pos \in 0 .. MaxSize /\ s.image \in Content /\ s.dirty \in SUBSET Place
BY DEF Stream, Place

\* What a flush does to the disk.
LEMMA FlushIs ==
  ASSUME NEW d \in [Path -> Content \cup {Absent}], NEW s \in Stream,
         s.mode \in {"r", "w"}, s.path \in Path, d[s.path] \in Content,
         s.dirty \subseteq 1 .. Len(s.image)
  PROVE  LET e == Flushed(d, s)
         IN  /\ e \in [Path -> Content \cup {Absent}]
             /\ \A p \in Path : d[p] \in Content => e[p] \in Content
             /\ \A p \in Path : ~(s.mode = "w" /\ s.path = p) => e[p] = d[p]
             /\ s.mode = "w" => e[s.path] = Overlay(d[s.path], s.image, s.dirty)
<1>1. CASE s.mode = "r"
  BY <1>1 DEF Flushed
<1>2. CASE s.mode = "w"
  <2> DEFINE c == Overlay(d[s.path], s.image, s.dirty)
  <2>1. Flushed(d, s) = [d EXCEPT ![s.path] = c]
    BY <1>2 DEF Flushed
  <2>2. c \in Content
    <3>1. s.image \in Content /\ s.dirty \in SUBSET Place
      BY StreamParts
    <3>2. \A i \in s.dirty : s.image[i] \in Cell
      <4>1. s.image \in Seq(Cell)
        BY <3>1, ContentIs
      <4> QED BY <4>1, ElementOfSeq
    <3> QED BY <3>1, <3>2, OverlayIs
  <2> HIDE DEF c
  <2> QED BY <1>2, <2>1, <2>2 DEF c
<1> QED BY <1>1, <1>2

\* Streams from the invariant.
LEMMA StreamsAre ==
  ASSUME FilesInv
  PROVE  /\ disk \in [Path -> Content \cup {Absent}] /\ stream \in [File -> Stream]
         /\ g_fh \in [Handle -> File \cup {Null}]
         /\ \A h \in Handle : Open(h) => g_fh[h] \in File /\ Live(g_fh[h])
         /\ \A f \in File : Live(f) =>
              /\ stream[f] \in Stream /\ stream[f] # NoStream
              /\ stream[f].mode \in {"r", "w"} /\ stream[f].path \in Path
              /\ disk[stream[f].path] \in Content
              /\ stream[f].dirty \subseteq 1 .. Len(stream[f].image)
<1>1. stream \in [File -> Stream] /\ disk \in [Path -> Content \cup {Absent}]
  BY FreshIs DEF FilesInv, TypeOK
<1>2. \A f \in File : Live(f) => Leads(stream[f])
  BY DEF FilesInv, StreamsLead
<1>3. g_fh \in [Handle -> File \cup {Null}]
  BY DEF FilesInv, TypeOK
<1>4. \A h \in Handle : Open(h) => g_fh[h] \in File /\ Live(g_fh[h])
  BY <1>3 DEF FilesInv, NoStreamLeaks, Open
<1> QED BY <1>1, <1>2, <1>3, <1>4 DEF Leads, Live

\* A step that changes no file keeps all.
LEMMA QuietKeeps ==
  ASSUME FilesInv, UNCHANGED <<disk, stream, g_fh, mine, crowded, saved>>,
         process' \in {"up", "exiting", "down"}
  PROVE  FilesInv'
<1>1. TypeOK'
  BY DEF FilesInv, TypeOK
<1>2. NoStreamLeaks'
  BY DEF FilesInv, NoStreamLeaks, Open, Live
<1>3. StreamsLead'
  BY DEF FilesInv, StreamsLead, Leads, Live
<1>4. ASSUME NEW p \in Path PROVE PathKept(p)'
  <2>1. PathKept(p) /\ Writers(p)' = Writers(p)
    BY DEF FilesInv, Writers, Live
  <2> QED BY <2>1 DEF PathKept, Holds
<1> QED BY <1>1, <1>2, <1>3, <1>4 DEF FilesInv

\* A step that only moves an open stream on, and may flush it, keeps all.
LEMMA MovedKeeps ==
  ASSUME FilesInv, NEW f \in File, Live(f), NEW s \in Stream,
         stream' = [stream EXCEPT ![f] = s],
         s.mode = stream[f].mode, s.path = stream[f].path,
         s.dirty \subseteq 1 .. Len(s.image),
         disk' = disk \/ disk' = Flushed(disk, stream[f]),
         (s.mode = "w" /\ s.path \notin crowded) => Holds(disk'[s.path], s),
         UNCHANGED <<g_fh, process, mine, crowded, saved>>
  PROVE  FilesInv'
<1>1. /\ disk \in [Path -> Content \cup {Absent}] /\ stream \in [File -> Stream]
      /\ s.mode \in {"r", "w"} /\ s.path \in Path
      /\ disk[s.path] \in Content
      /\ stream[f].dirty \subseteq 1 .. Len(stream[f].image)
  BY StreamsAre
<1>2. /\ disk' \in [Path -> Content \cup {Absent}]
      /\ \A p \in Path : disk[p] \in Content => disk'[p] \in Content
      /\ \A p \in Path : ~(s.mode = "w" /\ s.path = p) => disk'[p] = disk[p]
  <2>1. CASE disk' = disk
    BY <1>1, <2>1
  <2>2. CASE disk' = Flushed(disk, stream[f])
    <3> DEFINE old == stream[f]
    <3>1. old \in Stream /\ old.mode = s.mode /\ old.path = s.path
      BY <1>1
    <3>2. old.dirty \subseteq 1 .. Len(old.image) /\ disk' = Flushed(disk, old)
      BY <1>1, <2>2
    <3> HIDE DEF old
    <3> QED BY <1>1, <3>1, <3>2, FlushIs
  <2> QED BY <2>1, <2>2
<1>3. /\ stream' \in [File -> Stream] /\ stream'[f] = s
      /\ \A k \in File : k # f => stream'[k] = stream[k]
  BY <1>1
<1>4. \A k \in File : Live(k)' <=> Live(k)
  <2>1. s # NoStream
    BY <1>1, FreshIs
  <2> QED BY <1>3, <2>1 DEF Live
<1>5. TypeOK'
  BY <1>2, <1>3 DEF FilesInv, TypeOK
<1>6. NoStreamLeaks'
  <2>1. \A k \in Handle : Open(k) => Live(g_fh[k])'
    BY <1>4, StreamsAre DEF Live
  <2> QED BY <1>4, <2>1 DEF FilesInv, NoStreamLeaks, Open
<1>7. StreamsLead'
  <2>1. ASSUME NEW k \in File, Live(k) PROVE Leads(stream[k])'
    <3>1. CASE k = f
      BY <1>1, <1>2, <1>3, <3>1 DEF Leads
    <3>2. CASE k # f
      BY <1>2, <1>3, <2>1, <3>2, StreamsAre DEF Leads
    <3> QED BY <3>1, <3>2
  <2> QED BY <1>4, <2>1 DEF StreamsLead
<1>8. ASSUME NEW p \in Path PROVE PathKept(p)'
  <2>1. PathKept(p)
    BY DEF FilesInv
  <2>2. Writers(p)' = Writers(p)
    BY <1>3, <1>4 DEF Writers
  <2>3. ASSUME p \notin crowded, NEW k \in Writers(p) PROVE Holds(disk'[p], stream'[k])
    <3>1. k \in File /\ Live(k) /\ stream[k].mode = "w" /\ stream[k].path = p
      BY <2>3 DEF Writers
    <3>2. CASE k = f
      BY <1>3, <2>3, <3>1, <3>2
    <3>3. CASE k # f
      <4>1. f \notin Writers(p)
        BY <2>1, <2>3, <3>3 DEF PathKept
      <4>2. disk'[p] = disk[p]
        BY <1>2, <4>1 DEF Writers
      <4> QED BY <1>3, <2>1, <2>3, <3>1, <3>3, <4>2 DEF PathKept
    <3> QED BY <3>2, <3>3
  <2>4. ASSUME saved[p] # Unknown PROVE disk'[p] = saved[p]
    <3>1. Writers(p) = {} /\ disk[p] = saved[p]
      BY <2>1, <2>4 DEF PathKept
    <3>2. disk'[p] = disk[p]
      BY <1>2, <3>1 DEF Writers
    <3> QED BY <3>1, <3>2
  <2> QED BY <2>1, <2>2, <2>3, <2>4 DEF PathKept, Holds
<1> QED BY <1>5, <1>6, <1>7, <1>8 DEF FilesInv

-----------------------------------------------------------------------------
(* The calls.                                                              *)

\* What a flush leaves on the disk of a path that has one writer.
LEMMA FlushedHolds ==
  ASSUME FilesInv, NEW f \in File, Live(f), stream[f].mode = "w",
         stream[f].path \notin crowded
  PROVE  /\ stream[f].image \in Content
         /\ Flushed(disk, stream[f])[stream[f].path] = stream[f].image
<1> DEFINE s == stream[f]
           p == s.path
<1>1. /\ disk \in [Path -> Content \cup {Absent}] /\ s \in Stream
      /\ s.mode \in {"r", "w"} /\ p \in Path /\ disk[p] \in Content
      /\ s.dirty \subseteq 1 .. Len(s.image)
  BY StreamsAre
<1>2. f \in Writers(p)
  BY DEF Writers
<1>3. Holds(disk[p], s)
  BY <1>1, <1>2 DEF FilesInv, PathKept
<1> HIDE DEF s
<1>4. s.mode = "w"
  BY DEF s
<1>5. Flushed(disk, s)[s.path] = Overlay(disk[s.path], s.image, s.dirty)
  BY <1>1, <1>4, FlushIs
<1>6. s.image \in Content
  BY <1>1, StreamParts
<1> QED BY <1>3, <1>5, <1>6 DEF Holds, s

\* A stream whose chunks have been written out.
LEMMA CleanIs ==
  ASSUME NEW s \in Stream, NEW to \in 0 .. MaxSize
  PROVE  LET e == [Clean(s) EXCEPT !.pos = to]
         IN  /\ Clean(s) \in Stream /\ e \in Stream
             /\ Clean(s).mode = s.mode /\ Clean(s).path = s.path
             /\ Clean(s).image = s.image /\ Clean(s).dirty = {}
             /\ e.mode = s.mode /\ e.path = s.path /\ e.image = s.image /\ e.dirty = {}
BY DEF Clean, Stream

\* The library flushes when it likes.
LEMMA LibraryFlushKeeps ==
  ASSUME FilesInv, NEW f \in File, LibraryFlush(f)
  PROVE  FilesInv'
<1> DEFINE s == Clean(stream[f])
<1>1. /\ Live(f) /\ disk' = Flushed(disk, stream[f]) /\ stream' = [stream EXCEPT ![f] = s]
      /\ UNCHANGED <<g_fh, process, mine, crowded, saved>>
  BY DEF LibraryFlush
<1>2. 0 \in 0 .. MaxSize
  BY DosFilesAssumption
<1>3. /\ s \in Stream /\ s.mode = stream[f].mode /\ s.path = stream[f].path
      /\ s.image = stream[f].image /\ s.dirty = {}
  BY <1>1, <1>2, StreamsAre, CleanIs
<1> HIDE DEF s
<1>4. ASSUME s.mode = "w", s.path \notin crowded PROVE Holds(disk'[s.path], s)
  <2>1. s.image \in Content /\ disk'[s.path] = s.image
    BY <1>1, <1>3, <1>4, FlushedHolds
  <2> QED BY <1>3, <2>1, OverlayNothing DEF Holds
<1>5. s.dirty \subseteq 1 .. Len(s.image)
  BY <1>3
<1> QED BY <1>1, <1>3, <1>4, <1>5, MovedKeeps

\* 42h.
LEMMA SeekKeeps ==
  ASSUME FilesInv, NEW h \in AnyFh, NEW to \in 0 .. MaxSize, Seek(h, to)
  PROVE  FilesInv'
<1>1. CASE ~Open(h)
  BY <1>1, QuietKeeps DEF Seek, FilesInv, TypeOK
<1>2. CASE Open(h)
  <2> DEFINE f == g_fh[h]
             s == [Clean(stream[f]) EXCEPT !.pos = to]
  <2>1. /\ f \in File /\ Live(f)
        /\ disk' = Flushed(disk, stream[f]) /\ stream' = [stream EXCEPT ![f] = s]
        /\ UNCHANGED <<g_fh, process, mine, crowded, saved>>
    <3>1. h \in Handle /\ f \in File /\ Live(f)
      BY <1>2, StreamsAre DEF Open
    <3>2. stream' = [stream EXCEPT ![f] = [Clean(stream[f]) EXCEPT !.pos = to]]
      BY <1>2, <3>1 DEF Seek
    <3> QED BY <1>2, <3>1, <3>2 DEF Seek, Of
  <2> HIDE DEF f
  <2>2. /\ s \in Stream /\ s.mode = stream[f].mode /\ s.path = stream[f].path
        /\ s.image = stream[f].image /\ s.dirty = {}
    BY <2>1, StreamsAre, CleanIs
  <2> HIDE DEF s
  <2>3. ASSUME s.mode = "w", s.path \notin crowded PROVE Holds(disk'[s.path], s)
    <3>1. s.image \in Content /\ disk'[s.path] = s.image
      BY <2>1, <2>2, <2>3, FlushedHolds
    <3> QED BY <2>2, <3>1, OverlayNothing DEF Holds
  <2>4. s.dirty \subseteq 1 .. Len(s.image)
    BY <2>2
  <2> QED BY <2>1, <2>2, <2>3, <2>4, MovedKeeps
<1> QED BY <1>1, <1>2

\* 3Fh.
LEMMA ReadKeeps ==
  ASSUME FilesInv, NEW h \in AnyFh, Read(h)
  PROVE  FilesInv'
<1> DEFINE some == Open(h) /\ Of(h).mode = "r" /\ Of(h).pos < Len(disk[Of(h).path])
<1>1. UNCHANGED <<disk, g_fh, process, mine, crowded, saved>>
  BY DEF Read
<1>2. CASE ~some
  <2>1. UNCHANGED stream
    BY <1>2 DEF Read
  <2> QED BY <1>1, <2>1, QuietKeeps DEF FilesInv, TypeOK
<1>3. CASE some
  <2> DEFINE f == g_fh[h]
             s == [stream[f] EXCEPT !.pos = @ + 1]
  <2>1. /\ f \in File /\ Live(f) /\ stream' = [stream EXCEPT ![f] = s]
        /\ stream[f].mode = "r" /\ stream[f].pos < Len(disk[stream[f].path])
    <3>1. h \in Handle /\ f \in File /\ Live(f)
      BY <1>3, StreamsAre DEF Open
    <3>2. stream' = [stream EXCEPT ![f].pos = @ + 1]
      BY <1>3 DEF Read
    <3>3. stream' = [stream EXCEPT ![f] = s]
      BY <3>1, <3>2, StreamsAre
    <3> QED BY <1>3, <3>1, <3>3 DEF Of
  <2> HIDE DEF f
  <2>2. /\ stream[f] \in Stream /\ disk[stream[f].path] \in Content
        /\ stream[f].dirty \subseteq 1 .. Len(stream[f].image)
    BY <2>1, StreamsAre
  <2>3. stream[f].pos + 1 \in 0 .. MaxSize
    <3>1. /\ stream[f].pos \in 0 .. MaxSize
          /\ Len(disk[stream[f].path]) \in Nat /\ Len(disk[stream[f].path]) <= MaxSize
      BY <2>2, StreamParts, ContentIs, LenProperties
    <3> QED BY <2>1, <3>1, DosFilesAssumption
  <2>4. /\ s \in Stream /\ s.mode = stream[f].mode /\ s.path = stream[f].path /\ s.mode = "r"
        /\ s.dirty = stream[f].dirty /\ s.image = stream[f].image
    BY <2>1, <2>2, <2>3 DEF Stream
  <2> HIDE DEF s
  <2>5. s.dirty \subseteq 1 .. Len(s.image)
    BY <2>2, <2>4
  <2> QED BY <1>1, <2>1, <2>4, <2>5, MovedKeeps
<1> HIDE DEF some
<1> QED BY <1>2, <1>3

\* The parts of a stream after a write.
LEMMA WroteParts ==
  ASSUME NEW s \in Stream, NEW v, NEW image \in Content, s.pos + 1 \in Place,
         image = Overlay(s.image, [i \in 1 .. s.pos + 1 |-> v], {s.pos + 1})
  PROVE  LET e == Wrote(s, v)
         IN  /\ e \in Stream /\ e.mode = s.mode /\ e.path = s.path
             /\ e.image = image /\ e.dirty = s.dirty \cup {s.pos + 1}
<1> DEFINE q == s.pos + 1
           dirty == s.dirty \cup {q}
           e == [s EXCEPT !.image = image, !.dirty = dirty, !.pos = q]
<1>1. Wrote(s, v) = e
  BY DEF Wrote
<1>2. q \in Place /\ q \in 0 .. MaxSize /\ dirty \in SUBSET Place
  BY StreamParts, DosFilesAssumption DEF Place
<1> HIDE DEF q, dirty
<1>3. /\ e \in Stream /\ e.mode = s.mode /\ e.path = s.path
      /\ e.image = image /\ e.dirty = dirty
  BY <1>2 DEF Stream, Place
<1> HIDE DEF e
<1> QED BY <1>1, <1>3 DEF dirty, q

\* A write keeps what the stream and the disk make together.
LEMMA WroteHolds ==
  ASSUME NEW s \in Stream, NEW v \in Chunk, s.pos < MaxSize,
         s.dirty \subseteq 1 .. Len(s.image)
  PROVE  LET e == Wrote(s, v)
         IN  /\ e \in Stream /\ e.mode = s.mode /\ e.path = s.path
             /\ e.dirty \subseteq 1 .. Len(e.image)
             /\ \A c \in Content : Holds(c, s) => Holds(c, e)
<1> DEFINE q     == s.pos + 1
           write == [i \in 1 .. q |-> v]
           old   == s.image
           D     == s.dirty
           E     == {q}
           new   == Overlay(old, write, E)
           e     == Wrote(s, v)
<1>1. old \in Content /\ D \in SUBSET Place /\ q \in Place /\ D \subseteq 1 .. Len(old)
  BY StreamParts, DosFilesAssumption DEF Place
<1>2. write[q] \in Cell
  BY <1>1 DEF Place, Cell
<1>3. E \in SUBSET Place /\ \A i \in E : write[i] \in Cell
  BY <1>1, <1>2
<1>4. e = Wrote(s, v) /\ new = Overlay(s.image, [i \in 1 .. s.pos + 1 |-> v], {s.pos + 1})
      /\ q = s.pos + 1 /\ old = s.image /\ D = s.dirty
  OBVIOUS
<1>5. new = Overlay(old, write, E) /\ E = {q}
  OBVIOUS
<1> HIDE DEF q, write, old, D, E, new, e
<1>6. /\ new \in Content /\ Len(new) \in Nat /\ Len(old) \in Nat
      /\ Len(old) <= Len(new) /\ \A i \in E : i \in 1 .. Len(new)
  <2>1. LET r == Overlay(old, write, E)
        IN  /\ r \in Content /\ Len(r) \in Nat /\ Len(old) \in Nat
            /\ Len(old) <= Len(r) /\ \A i \in E : i \in 1 .. Len(r)
    BY <1>1, <1>3, OverlayIs
  <2> QED BY <1>5, <2>1
<1>7. /\ e \in Stream /\ e.mode = s.mode /\ e.path = s.path
      /\ e.image = new /\ e.dirty = D \cup {q}
  <2>1. s.pos + 1 \in Place
    BY <1>1, <1>4
  <2>2. LET w == Wrote(s, v)
        IN  /\ w \in Stream /\ w.mode = s.mode /\ w.path = s.path
            /\ w.image = new /\ w.dirty = s.dirty \cup {s.pos + 1}
    BY <1>4, <1>6, <2>1, WroteParts
  <2> QED BY <1>4, <2>2
<1>8. e.dirty \subseteq 1 .. Len(e.image)
  <2>1. q \in 1 .. Len(new)
    BY <1>5, <1>6
  <2>2. \A i \in D : i \in 1 .. Len(new)
    BY <1>1, <1>6
  <2> QED BY <1>7, <2>1, <2>2
<1>9. ASSUME NEW c \in Content, Holds(c, s) PROVE Holds(c, e)
  <2>1. Overlay(c, old, D) = old
    BY <1>4, <1>9 DEF Holds
  <2> DEFINE more == D \cup {q}
  <2>2. more = D \cup {q}
    OBVIOUS
  <2> HIDE DEF more
  <2>3. Overlay(c, new, more) = new
    BY <1>1, <1>2, <1>5, <2>1, <2>2, OverlayWrites
  <2> QED BY <1>7, <2>2, <2>3 DEF Holds
<1> QED BY <1>4, <1>7, <1>8, <1>9

\* 40h.
LEMMA WriteKeeps ==
  ASSUME FilesInv, NEW h \in AnyFh, NEW v \in Chunk, Write(h, v)
  PROVE  FilesInv'
<1>1. UNCHANGED <<disk, g_fh, process, mine, crowded, saved>>
  BY DEF Write
<1>2. CASE ~(Open(h) /\ Of(h).mode = "w")
  <2>1. UNCHANGED stream
    BY <1>2 DEF Write
  <2> QED BY <1>1, <2>1, QuietKeeps DEF FilesInv, TypeOK
<1>3. CASE Open(h) /\ Of(h).mode = "w"
  <2> DEFINE f   == g_fh[h]
             old == stream[f]
             s   == Wrote(old, v)
  <2>1. /\ f \in File /\ Live(f) /\ stream' = [stream EXCEPT ![f] = s]
        /\ old.pos < MaxSize /\ old.mode = "w"
    <3>1. h \in Handle /\ f \in File /\ Live(f)
      BY <1>3, StreamsAre DEF Open
    <3>2. stream' = [stream EXCEPT ![f] = Wrote(stream[f], v)]
      BY <1>3 DEF Write
    <3> QED BY <1>3, <3>1, <3>2 DEF Write, Of
  <2> HIDE DEF f
  <2>2. /\ old \in Stream /\ old.path \in Path /\ disk[old.path] \in Content
        /\ old.dirty \subseteq 1 .. Len(old.image)
    BY <2>1, StreamsAre
  <2> HIDE DEF old
  <2>3. LET e == Wrote(old, v)
        IN  /\ e \in Stream /\ e.mode = old.mode /\ e.path = old.path
            /\ e.dirty \subseteq 1 .. Len(e.image)
            /\ \A c \in Content : Holds(c, old) => Holds(c, e)
    BY <2>1, <2>2, WroteHolds
  <2> HIDE DEF s
  <2>4. /\ s \in Stream /\ s.mode = old.mode /\ s.path = old.path
        /\ s.dirty \subseteq 1 .. Len(s.image)
        /\ \A c \in Content : Holds(c, old) => Holds(c, s)
    BY <2>3 DEF s
  <2>5. ASSUME s.path \notin crowded PROVE Holds(disk'[s.path], s)
    <3>1. f \in Writers(old.path)
      BY <2>1 DEF Writers, old
    <3>2. Holds(disk[old.path], old)
      BY <2>2, <2>4, <2>5, <3>1 DEF FilesInv, PathKept, old
    <3> QED BY <1>1, <2>2, <2>4, <3>2
  <2> QED BY <1>1, <2>1, <2>4, <2>5, MovedKeeps DEF old
<1> QED BY <1>2, <1>3

\* Where a name leads to is a path.
LEMMA PathsAre ==
  ASSUME NEW n \in Name, NEW how
  PROVE  Found(n, how) \in Path /\ Attempts(n, how) \subseteq Path
BY DEF Found, Attempts, Path

\* A new stream is given to a free handle.
LEMMA GivenIs ==
  ASSUME FilesInv, NEW h \in Handle, FirstFree(h), NEW f \in File,
         NEW p \in Path, NEW m \in {"r", "w"}, Gives(h, f, Fresh(p, m))
  PROVE  /\ stream' \in [File -> Stream] /\ ~Live(f) /\ Live(f)'
         /\ stream'[f].mode = m /\ stream'[f].path = p
         /\ stream'[f].image = <<>> /\ stream'[f].dirty = {}
         /\ \A k \in File : k # f => stream'[k] = stream[k] /\ (Live(k)' <=> Live(k))
         /\ g_fh' \in [Handle -> File \cup {Null}] /\ mine' \subseteq Handle
         /\ process' \in {"up", "exiting", "down"} /\ NoStreamLeaks'
<1> DEFINE s == Fresh(p, m)
<1>1. /\ s \in Stream /\ s # NoStream
      /\ s.mode = m /\ s.path = p /\ s.image = <<>> /\ s.dirty = {}
  BY FreshIs
<1> HIDE DEF s
<1>2. /\ ~Live(f) /\ stream' = [stream EXCEPT ![f] = s]
      /\ g_fh' = [g_fh EXCEPT ![h] = f] /\ mine' = mine \cup {h} /\ process' = process
  BY DEF Gives, s
<1>3. /\ stream \in [File -> Stream] /\ g_fh \in [Handle -> File \cup {Null}]
      /\ mine \subseteq Handle /\ process \in {"up", "exiting", "down"}
  BY StreamsAre DEF FilesInv, TypeOK
<1>4. /\ stream' \in [File -> Stream] /\ stream'[f] = s
      /\ \A k \in File : k # f => stream'[k] = stream[k]
  BY <1>1, <1>2, <1>3
<1>5. /\ Live(f)'
      /\ \A k \in File : k # f => (Live(k)' <=> Live(k))
  BY <1>1, <1>4 DEF Live
<1>6. /\ g_fh' \in [Handle -> File \cup {Null}] /\ g_fh'[h] = f /\ g_fh[h] = Null
      /\ \A k \in Handle : k # h => g_fh'[k] = g_fh[k]
  BY <1>2, <1>3 DEF FirstFree
<1>7. /\ ~Open(h) /\ Open(h)' /\ f # Null
      /\ \A k \in Handle : k # h => (Open(k)' <=> Open(k))
  BY <1>6, DosFilesAssumption DEF Open
<1>8. /\ \A k \in Handle : Open(k) => g_fh[k] \in File /\ Live(g_fh[k]) /\ g_fh[k] # f
      /\ \A e \in File : Live(e) => \E k \in Handle : g_fh[k] = e
      /\ \A j, k \in Handle : Open(j) /\ g_fh[j] = g_fh[k] => j = k
      /\ \A k \in Handle \ {EmsFh} : Open(k) <=> k \in mine
  BY <1>2, StreamsAre DEF FilesInv, NoStreamLeaks
<1>9. NoStreamLeaks'
  <2>1. ASSUME NEW k \in Handle, Open(k)' PROVE Live(g_fh[k])'
    BY <1>5, <1>6, <1>7, <1>8, <2>1 DEF Live
  <2>2. ASSUME NEW e \in File, Live(e)' PROVE \E k \in Handle : g_fh'[k] = e
    <3>1. CASE e = f
      BY <1>6, <3>1
    <3>2. CASE e # f
      <4>1. PICK k \in Handle : g_fh[k] = e
        BY <1>5, <1>8, <2>2, <3>2
      <4>2. k # h
        BY <1>6, <4>1, DosFilesAssumption
      <4> QED BY <1>6, <4>1, <4>2
    <3> QED BY <3>1, <3>2
  <2>3. ASSUME NEW j \in Handle, NEW k \in Handle, Open(j)', g_fh'[j] = g_fh'[k] PROVE j = k
    <3>1. Open(k)'
      BY <2>3 DEF Open
    <3>2. CASE j # h /\ k # h
      BY <1>6, <1>7, <1>8, <2>3, <3>2
    <3>3. CASE j = h \/ k = h
      BY <1>6, <1>7, <1>8, <2>3, <3>1, <3>3
    <3> QED BY <3>2, <3>3
  <2>4. \A k \in Handle \ {EmsFh} : Open(k)' <=> k \in mine'
    BY <1>2, <1>7, <1>8
  <2> QED BY <2>1, <2>2, <2>3, <2>4 DEF NoStreamLeaks
<1> QED BY <1>1, <1>2, <1>3, <1>4, <1>5, <1>6, <1>9

\* 3Ch makes a file: it is empty, whoever else may be writing to it.
LEMMA CreateKeeps ==
  ASSUME FilesInv, NEW n \in Name, NEW how \in Spelling, Create(n, how)
  PROVE  FilesInv'
<1>1. CASE Fails
  BY <1>1, QuietKeeps DEF Create, Fails, FilesInv, TypeOK
<1>2. CASE ~Fails
  <2>1. PICK h \in Handle, f \in File, p \in Attempts(n, how) :
          /\ FirstFree(h) /\ disk' = [disk EXCEPT ![p] = <<>>]
          /\ Gives(h, f, Fresh(p, "w"))
          /\ saved' = [saved EXCEPT ![p] = Unknown]
          /\ crowded' = IF Writers(p) = {} THEN crowded \ {p} ELSE crowded \cup {p}
    BY <1>2 DEF Create
  <2>2. p \in Path
    BY PathsAre
  <2>3. /\ stream' \in [File -> Stream] /\ ~Live(f) /\ Live(f)'
        /\ stream'[f].mode = "w" /\ stream'[f].path = p
        /\ stream'[f].image = <<>> /\ stream'[f].dirty = {}
        /\ \A k \in File : k # f => stream'[k] = stream[k] /\ (Live(k)' <=> Live(k))
        /\ g_fh' \in [Handle -> File \cup {Null}] /\ mine' \subseteq Handle
        /\ process' \in {"up", "exiting", "down"} /\ NoStreamLeaks'
    BY <2>1, <2>2, GivenIs
  <2>4. <<>> \in Content
    BY FreshIs, StreamParts, <2>2
  <2>5. /\ disk' \in [Path -> Content \cup {Absent}] /\ disk'[p] = <<>>
        /\ \A x \in Path : x # p => disk'[x] = disk[x]
        /\ \A x \in Path : disk[x] \in Content => disk'[x] \in Content
    BY <2>1, <2>2, <2>4, StreamsAre
  <2>6. /\ saved' \in [Path -> Content \cup {Unknown}] /\ saved'[p] = Unknown
        /\ \A x \in Path : x # p => saved'[x] = saved[x]
    BY <2>1, <2>2 DEF FilesInv, TypeOK
  <2>7. crowded' \subseteq Path /\ \A x \in Path : x # p => (x \in crowded' <=> x \in crowded)
    BY <2>1, <2>2 DEF FilesInv, TypeOK
  <2>8. TypeOK'
    BY <2>3, <2>5, <2>6, <2>7 DEF TypeOK
  <2>9. StreamsLead'
    <3>1. ASSUME NEW k \in File, Live(k)' PROVE Leads(stream[k])'
      <4>1. CASE k = f
        BY <2>2, <2>3, <2>4, <2>5, <4>1 DEF Leads
      <4>2. CASE k # f
        <5>1. Live(k) /\ stream'[k] = stream[k]
          BY <2>3, <3>1, <4>2
        <5> QED BY <2>5, <5>1, StreamsAre DEF Leads
      <4> QED BY <4>1, <4>2
    <3> QED BY <3>1 DEF StreamsLead
  <2>10. ASSUME NEW x \in Path PROVE PathKept(x)'
    <3>1. PathKept(x)
      BY DEF FilesInv
    <3>2. CASE x # p
      <4>1. Writers(x)' = Writers(x)
        BY <2>3, <3>2 DEF Writers
      <4>2. f \notin Writers(x)
        BY <2>3 DEF Writers
      <4>3. \A k \in Writers(x) : stream'[k] = stream[k]
        BY <2>3, <4>2 DEF Writers
      <4>4. disk'[x] = disk[x] /\ saved'[x] = saved[x] /\ (x \in crowded' <=> x \in crowded)
        BY <2>5, <2>6, <2>7, <3>2
      <4> QED BY <3>1, <4>1, <4>3, <4>4 DEF PathKept, Holds
    <3>3. CASE x = p
      <4>1. ASSUME x \notin crowded' PROVE Writers(x)' = {f}
        <5>1. Writers(p) = {}
          BY <2>1, <2>2, <3>3, <4>1
        <5>2. ASSUME NEW k \in File, k # f PROVE k \notin Writers(x)'
          BY <2>3, <3>3, <5>1, <5>2 DEF Writers
        <5>3. f \in Writers(x)'
          BY <2>3, <3>3 DEF Writers
        <5>4. Writers(x)' \subseteq File
          BY DEF Writers
        <5> QED BY <5>2, <5>3, <5>4
      <4>2. Overlay(<<>>, <<>>, {}) = <<>>
        BY <2>4, OverlayNothing
      <4>3. Holds(disk[x], stream[f])'
        BY <2>3, <2>5, <3>3, <4>2 DEF Holds
      <4>4. saved'[x] = Unknown
        BY <2>6, <3>3
      <4> QED BY <4>1, <4>3, <4>4 DEF PathKept
    <3> QED BY <3>2, <3>3
  <2> QED BY <2>3, <2>8, <2>9, <2>10 DEF FilesInv
<1> QED BY <1>1, <1>2

\* 3Dh opens a file for reading.
LEMMA OpenFileKeeps ==
  ASSUME FilesInv, NEW n \in Name, NEW how \in Spelling, OpenFile(n, how)
  PROVE  FilesInv'
<1>1. CASE Fails
  BY <1>1, QuietKeeps DEF Fails, FilesInv, TypeOK
<1>2. CASE ~Fails
  <2> DEFINE p == Found(n, how)
  <2>1. PICK h \in Handle, f \in File :
          /\ disk[p] # Absent /\ FirstFree(h) /\ Gives(h, f, Fresh(p, "r"))
          /\ UNCHANGED <<disk, crowded, saved>>
    BY <1>2 DEF OpenFile, Opens
  <2>2. p \in Path
    BY PathsAre
  <2> HIDE DEF p
  <2>3. /\ stream' \in [File -> Stream] /\ ~Live(f) /\ Live(f)'
        /\ stream'[f].mode = "r" /\ stream'[f].path = p
        /\ stream'[f].image = <<>> /\ stream'[f].dirty = {}
        /\ \A k \in File : k # f => stream'[k] = stream[k] /\ (Live(k)' <=> Live(k))
        /\ g_fh' \in [Handle -> File \cup {Null}] /\ mine' \subseteq Handle
        /\ process' \in {"up", "exiting", "down"} /\ NoStreamLeaks'
    BY <2>1, <2>2, GivenIs
  <2>4. disk[p] \in Content
    BY <2>1, <2>2, StreamsAre
  <2>5. TypeOK'
    BY <2>1, <2>3 DEF FilesInv, TypeOK
  <2>6. StreamsLead'
    <3>1. ASSUME NEW k \in File, Live(k)' PROVE Leads(stream[k])'
      <4>1. CASE k = f
        BY <2>1, <2>2, <2>3, <2>4, <4>1 DEF Leads
      <4>2. CASE k # f
        <5>1. Live(k) /\ stream'[k] = stream[k]
          BY <2>3, <3>1, <4>2
        <5> QED BY <2>1, <5>1, StreamsAre DEF Leads
      <4> QED BY <4>1, <4>2
    <3> QED BY <3>1 DEF StreamsLead
  <2>7. ASSUME NEW x \in Path PROVE PathKept(x)'
    <3>1. PathKept(x)
      BY DEF FilesInv
    <3>2. Writers(x)' = Writers(x)
      BY <2>3 DEF Writers
    <3>3. f \notin Writers(x)
      BY <2>3 DEF Writers
    <3>4. \A k \in Writers(x) : stream'[k] = stream[k]
      BY <2>3, <3>3 DEF Writers
    <3> QED BY <2>1, <3>1, <3>2, <3>4 DEF PathKept, Holds
  <2> QED BY <2>3, <2>5, <2>6, <2>7 DEF FilesInv
<1> QED BY <1>1, <1>2

\* 3Eh of a handle that has a stream.
LEMMA CloseStreamKeeps ==
  ASSUME FilesInv, NEW h \in Handle, Open(h), h # EmsFh, CloseStream(h),
         mine' = mine \ {h}, saved' = SavedBy(h), UNCHANGED <<process, crowded>>
  PROVE  FilesInv'
<1>0. PICK f \in File : f = g_fh[h]
  BY StreamsAre
<1> DEFINE s == stream[f]
<1>1. /\ disk \in [Path -> Content \cup {Absent}] /\ stream \in [File -> Stream]
      /\ f \in File /\ Live(f)
      /\ s \in Stream /\ s.mode \in {"r", "w"} /\ s.path \in Path
      /\ disk[s.path] \in Content
      /\ s.dirty \subseteq 1 .. Len(s.image)
  BY <1>0, StreamsAre
<1>2. /\ disk' = Flushed(disk, s) /\ stream' = [stream EXCEPT ![f] = NoStream]
      /\ g_fh' = [g_fh EXCEPT ![h] = Null]
  BY <1>0 DEF CloseStream, Of
<1>3. (s.mode = "w" /\ s.path \notin crowded) =>
        s.image \in Content /\ Flushed(disk, s)[s.path] = s.image
  BY <1>1, FlushedHolds
<1>4. /\ disk' \in [Path -> Content \cup {Absent}]
      /\ \A p \in Path : disk[p] \in Content => disk'[p] \in Content
      /\ \A p \in Path : ~(s.mode = "w" /\ s.path = p) => disk'[p] = disk[p]
  <2> HIDE DEF s
  <2> QED BY <1>1, <1>2, FlushIs
<1>5. /\ stream' \in [File -> Stream] /\ stream'[f] = NoStream /\ ~Live(f)'
      /\ \A k \in File : k # f => stream'[k] = stream[k] /\ (Live(k)' <=> Live(k))
  BY <1>1, <1>2, FreshIs DEF Live
<1>6. \/ saved' = saved
      \/ /\ s.mode = "w" /\ s.path \notin crowded
         /\ saved' = [saved EXCEPT ![s.path] = s.image]
  BY <1>0 DEF SavedBy, Of
<1>7. /\ g_fh' \in [Handle -> File \cup {Null}] /\ ~Open(h)'
      /\ \A k \in Handle : k # h => g_fh'[k] = g_fh[k] /\ (Open(k)' <=> Open(k))
  BY <1>2, StreamsAre DEF Open
<1>8. TypeOK'
  <2>1. saved' \in [Path -> Content \cup {Unknown}]
    BY <1>1, <1>3, <1>6 DEF FilesInv, TypeOK
  <2> QED BY <1>4, <1>5, <1>7, <2>1 DEF FilesInv, TypeOK
<1>9. NoStreamLeaks'
  <2>1. /\ \A k \in Handle : Open(k) => g_fh[k] \in File /\ Live(g_fh[k])
        /\ \A e \in File : Live(e) => \E k \in Handle : g_fh[k] = e
        /\ \A j, k \in Handle : Open(j) /\ g_fh[j] = g_fh[k] => j = k
        /\ \A k \in Handle \ {EmsFh} : Open(k) <=> k \in mine
    BY StreamsAre DEF FilesInv, NoStreamLeaks
  <2>2. ASSUME NEW k \in Handle, Open(k)' PROVE Live(g_fh[k])'
    <3>1. k # h /\ Open(k) /\ g_fh'[k] = g_fh[k]
      BY <1>7, <2>2
    <3>2. g_fh[k] # f /\ g_fh[k] \in File /\ Live(g_fh[k])
      BY <1>0, <2>1, <3>1
    <3> QED BY <1>5, <3>1, <3>2 DEF Live
  <2>3. ASSUME NEW e \in File, Live(e)' PROVE \E k \in Handle : g_fh'[k] = e
    <3>1. e # f /\ Live(e)
      BY <1>5, <2>3
    <3>2. PICK k \in Handle : g_fh[k] = e
      BY <2>1, <3>1
    <3> QED BY <1>0, <1>7, <3>1, <3>2
  <2>4. ASSUME NEW j \in Handle, NEW k \in Handle, Open(j)', g_fh'[j] = g_fh'[k] PROVE j = k
    <3>1. Open(k)'
      BY <2>4 DEF Open
    <3>2. j # h /\ k # h /\ Open(j) /\ g_fh[j] = g_fh[k]
      BY <1>7, <2>4, <3>1
    <3> QED BY <2>1, <3>2
  <2>5. \A k \in Handle \ {EmsFh} : Open(k)' <=> k \in mine'
    BY <1>7, <2>1
  <2> QED BY <2>2, <2>3, <2>4, <2>5 DEF NoStreamLeaks
<1>10. StreamsLead'
  <2>1. ASSUME NEW k \in File, Live(k)' PROVE Leads(stream[k])'
    <3>1. k # f /\ Live(k) /\ stream'[k] = stream[k]
      BY <1>5, <2>1
    <3> QED BY <1>4, <3>1, StreamsAre DEF Leads
  <2> QED BY <2>1 DEF StreamsLead
<1>11. ASSUME NEW p \in Path PROVE PathKept(p)'
  <2>1. PathKept(p)
    BY DEF FilesInv
  <2>2. Writers(p)' = Writers(p) \ {f} /\ (f \in Writers(p) <=> s.mode = "w" /\ s.path = p)
    BY <1>1, <1>5 DEF Writers
  <2>3. ASSUME p \notin crowded, NEW k \in Writers(p), k # f PROVE Holds(disk'[p], stream'[k])
    <3>1. f \notin Writers(p)
      BY <2>1, <2>3 DEF PathKept
    <3>2. disk'[p] = disk[p] /\ stream'[k] = stream[k]
      BY <1>4, <1>5, <2>2, <2>3, <3>1 DEF Writers
    <3> QED BY <2>1, <2>3, <3>2 DEF PathKept
  <2>4. ASSUME saved'[p] # Unknown PROVE Writers(p)' = {} /\ disk'[p] = saved'[p]
    <3>1. CASE saved'[p] = saved[p] /\ saved[p] # Unknown
      <4>1. Writers(p) = {} /\ disk[p] = saved[p]
        BY <2>1, <3>1 DEF PathKept
      <4> QED BY <1>4, <2>2, <3>1, <4>1
    <3>2. CASE s.path = p /\ s.mode = "w" /\ p \notin crowded /\ saved'[p] = s.image
      <4>1. Writers(p) \subseteq {f}
        BY <2>1, <2>2, <3>2 DEF PathKept
      <4>2. disk'[p] = s.image
        BY <1>2, <1>3, <3>2
      <4> QED BY <2>2, <3>2, <4>1, <4>2
    <3>3. \/ saved'[p] = saved[p]
          \/ s.path = p /\ s.mode = "w" /\ p \notin crowded /\ saved'[p] = s.image
      <4>1. saved \in [Path -> Content \cup {Unknown}]
        BY DEF FilesInv, TypeOK
      <4> HIDE DEF s
      <4> QED BY <1>1, <1>6, <4>1
    <3> QED BY <2>4, <3>1, <3>2, <3>3
  <2> QED BY <2>1, <2>2, <2>3, <2>4 DEF PathKept, Holds
<1> QED BY <1>8, <1>9, <1>10, <1>11 DEF FilesInv

\* 3Eh.
LEMMA CloseKeeps ==
  ASSUME FilesInv, NEW h \in AnyFh, Close(h)
  PROVE  FilesInv'
<1>1. mine' = mine \ {h} /\ UNCHANGED <<process, crowded>>
  BY DEF Close
<1>2. CASE h # EmsFh /\ Open(h)
  BY <1>1, <1>2, CloseStreamKeeps DEF Close, Open
<1>3. CASE ~(h # EmsFh /\ Open(h))
  <2>1. UNCHANGED <<disk, stream, g_fh, saved>>
    BY <1>3 DEF Close, SavedBy
  <2>2. TypeOK'
    BY <1>1, <2>1 DEF FilesInv, TypeOK
  <2>3. NoStreamLeaks'
    <3>1. \A k \in Handle \ {EmsFh} : k \in mine' <=> k \in mine
      BY <1>1, <1>3 DEF FilesInv, NoStreamLeaks
    <3> QED BY <2>1, <3>1 DEF FilesInv, NoStreamLeaks, Open, Live
  <2>4. StreamsLead'
    BY <2>1 DEF FilesInv, StreamsLead, Leads, Live
  <2>5. ASSUME NEW p \in Path PROVE PathKept(p)'
    <3>1. PathKept(p) /\ Writers(p)' = Writers(p)
      BY <2>1 DEF FilesInv, Writers, Live
    <3> QED BY <1>1, <2>1, <3>1 DEF PathKept, Holds
  <2> QED BY <2>2, <2>3, <2>4, <2>5 DEF FilesInv
<1> QED BY <1>2, <1>3

-----------------------------------------------------------------------------
(* The end of the process.                                                 *)

\* When the process is over there are no streams and no pointers.
LEMMA EndKeeps ==
  ASSUME FilesInv, Ends
  PROVE  FilesInv'
<1>1. /\ stream' = [f \in File |-> NoStream] /\ g_fh' = [h \in Handle |-> Null]
      /\ mine' = {} /\ process' = "down" /\ UNCHANGED <<disk, crowded, saved>>
  BY DEF Ends
<1>2. (\A f \in File : ~Live(f)') /\ (\A h \in Handle : ~Open(h)')
  BY <1>1 DEF Live, Open
<1>3. TypeOK'
  <2>1. stream' \in [File -> Stream] /\ g_fh' \in [Handle -> File \cup {Null}]
    BY <1>1, FreshIs
  <2> QED BY <1>1, <2>1 DEF FilesInv, TypeOK
<1>4. NoStreamLeaks'
  BY <1>1, <1>2 DEF NoStreamLeaks
<1>5. StreamsLead'
  BY <1>2 DEF StreamsLead
<1>6. ASSUME NEW p \in Path PROVE PathKept(p)'
  <2>1. PathKept(p)
    BY DEF FilesInv
  <2>2. Writers(p)' = {}
    BY <1>2 DEF Writers
  <2> QED BY <1>1, <2>1, <2>2 DEF PathKept
<1> QED BY <1>3, <1>4, <1>5, <1>6 DEF FilesInv

-----------------------------------------------------------------------------
(* The theorems.                                                           *)

\* The invariant holds at first.
LEMMA InitFiles == Init => FilesInv
<1> SUFFICES ASSUME Init PROVE FilesInv
  OBVIOUS
<1>1. NoStream \in Stream /\ <<>> \in Content
  <2>1. <<>> \in Seq(Cell) /\ Len(<<>>) = 0
    BY EmptySeq
  <2>2. Len(<<>>) <= MaxSize
    BY <2>1, DosFilesAssumption
  <2> QED BY <2>1, <2>2, ContentIs, FreshIs
<1>2. (\A f \in File : ~Live(f)) /\ (\A h \in Handle : ~Open(h))
  BY DEF Init, Live, Open
<1>3. TypeOK
  BY <1>1 DEF Init, TypeOK
<1>4. NoStreamLeaks /\ StreamsLead
  BY <1>2 DEF Init, NoStreamLeaks, StreamsLead
<1>5. ASSUME NEW p \in Path PROVE PathKept(p)
  <2>1. Writers(p) = {} /\ saved[p] = Unknown
    BY <1>2 DEF Init, Writers
  <2> QED BY <2>1 DEF PathKept
<1> QED BY <1>3, <1>4, <1>5 DEF FilesInv

\* Every step keeps it.
LEMMA NextFiles == FilesInv /\ [Next]_vars => FilesInv'
<1> SUFFICES ASSUME FilesInv, [Next]_vars PROVE FilesInv'
  OBVIOUS
<1>1. ASSUME NEW f \in File, LibraryFlush(f) PROVE FilesInv'
  BY <1>1, LibraryFlushKeeps
<1>2. ASSUME NEW n \in Name, NEW how \in Spelling, Create(n, how) PROVE FilesInv'
  BY <1>2, CreateKeeps
<1>3. ASSUME NEW n \in Name, NEW how \in Spelling, OpenFile(n, how) PROVE FilesInv'
  BY <1>3, OpenFileKeeps
<1>4. CASE OpenEms \/ Nothing \/ Exit \/ NextRun \/ UNCHANGED vars
  BY <1>4, QuietKeeps DEF OpenEms, Nothing, Exit, NextRun, vars, FilesInv, TypeOK
<1>5. ASSUME NEW h \in AnyFh, Close(h) PROVE FilesInv'
  BY <1>5, CloseKeeps
<1>6. ASSUME NEW h \in AnyFh, Read(h) PROVE FilesInv'
  BY <1>6, ReadKeeps
<1>7. ASSUME NEW h \in AnyFh, NEW v \in Chunk, Write(h, v) PROVE FilesInv'
  BY <1>7, WriteKeeps
<1>8. ASSUME NEW h \in AnyFh, NEW to \in 0 .. MaxSize, Seek(h, to) PROVE FilesInv'
  BY <1>8, SeekKeeps
<1>9. ASSUME NEW n \in Name, NEW how \in Spelling, Attributes(n, how) PROVE FilesInv'
  BY <1>9, QuietKeeps DEF Attributes, Fails, FilesInv, TypeOK
<1>10. CASE ExitEnds \/ WatchdogKill
  BY <1>10, EndKeeps DEF ExitEnds, WatchdogKill
<1> QED BY <1>1, <1>2, <1>3, <1>4, <1>5, <1>6, <1>7, <1>8, <1>9, <1>10 DEF Next

\* So it always holds.
LEMMA FilesInductive == Spec => []FilesInv
BY InitFiles, NextFiles, PTL DEF Spec

\* Every variable has its type.
THEOREM FilesTypeCorrect == Spec => []TypeOK
<1>1. FilesInv => TypeOK
  BY DEF FilesInv
<1> QED BY FilesInductive, <1>1, PTL

\* Every stream the C library has open is in exactly one slot of g_fh, and every
\* slot leads to one that is open: int21 loses none and keeps none too long.
THEOREM StreamsAreNotLost == Spec => []NoStreamLeaks
<1>1. FilesInv => NoStreamLeaks
  BY DEF FilesInv
<1> QED BY FilesInductive, <1>1, PTL

\* A file that was created, written and closed holds what was written to it,
\* whether the process ends by exit or by the watchdog.
THEOREM ClosedFilesAreSafe == Spec => []ClosedFileIsSafe
<1>1. FilesInv => ClosedFileIsSafe
  BY DEF FilesInv, PathKept, ClosedFileIsSafe
<1> QED BY FilesInductive, <1>1, PTL
=============================================================================
