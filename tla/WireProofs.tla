----------------------------- MODULE WireProofs -----------------------------
(***************************************************************************)
(* However frames are cut, padded and read, the receive loop handles each  *)
(* frame whole, once and in order: Wire implements Conduit, for any number *)
(* and sizes of frames and any padding scheme.                             *)
(*                                                                         *)
(* The argument follows the bytes that were taken and not parsed yet, from *)
(* the reader's end to the writer's: they always divide into whole frames, *)
(* padding among them, numbered from the last one handled to the last one  *)
(* taken.                                                                  *)
(***************************************************************************)
EXTENDS Wire, SequenceTheorems, TLAPS

(* The bytes a + 1 .. b of z are one frame: padding, which leaves the      *)
(* number of frames at from, or frame number to = from + 1.                *)
FrameAt(z, a, b, from, to) ==
  /\ a < b /\ b = a + Header + z[a + 1].len
  /\ \A j \in a + 1 .. b : z[j].id = z[a + 1].id
  /\ \/ to = from /\ z[a + 1].id = 0
     \/ to = from + 1 /\ z[a + 1].id = to

(* n frames end at the places cut[i] of z, and number[i] of them and of    *)
(* those before z were no padding.                                         *)
Cut(z, n, cut, number) ==
  /\ cut[0] = 0 /\ cut[n] = Len(z)
  /\ \A i \in 0 .. n : \A j \in i .. n : cut[i] <= cut[j]
  /\ \A i \in 1 .. n : FrameAt(z, cut[i - 1], cut[i], number[i - 1], number[i])

(* z divides into whole frames, from + 1 .. to of them in order among      *)
(* padding.                                                                *)
Framed(z, from, to) ==
  \E n \in Nat : \E cut \in [0 .. n -> 0 .. Len(z)], number \in [0 .. n -> 0 .. to] :
    Cut(z, n, cut, number) /\ number[0] = from /\ number[n] = to

(* Where the elements of two sequences are in their concatenation. *)
LEMMA CatElements ==
  ASSUME NEW S, NEW s \in Seq(S), NEW t \in Seq(S)
  PROVE  /\ s \o t \in Seq(S) /\ Len(s \o t) = Len(s) + Len(t) /\ Len(s) \in Nat /\ Len(t) \in Nat
         /\ \A i \in 1 .. Len(s) : (s \o t)[i] = s[i]
         /\ \A i \in 1 .. Len(t) : (s \o t)[Len(s) + i] = t[i]
OBVIOUS

(* No bytes are no frames. *)
LEMMA FramedNone ==
  ASSUME NEW m \in Nat
  PROVE  Framed(<<>>, m, m)
<1> DEFINE cut == [i \in 0 .. 0 |-> 0]
           number == [i \in 0 .. 0 |-> m]
<1>1. cut \in [0 .. 0 -> 0 .. Len(<<>>)] /\ number \in [0 .. 0 -> 0 .. m] /\ number[0] = m
  OBVIOUS
<1>2. Cut(<<>>, 0, cut, number)
  BY DEF Cut
<1> HIDE DEF cut, number
<1>3. QED
  BY Zenon, <1>1, <1>2 DEF Framed

(* A frame behind whole frames. *)
LEMMA FramedMore ==
  ASSUME NEW z \in Seq(Bytes), NEW t \in Seq(Bytes), NEW from \in Nat, NEW to \in Nat, NEW last \in {to, to + 1},
         Framed(z, from, to), FrameAt(t, 0, Len(t), to, last)
  PROVE  Framed(z \o t, from, last)
<1>0. Header \in Nat \ {0}
  BY WireAssumption
<1>1. PICK n \in Nat : \E cut \in [0 .. n -> 0 .. Len(z)], number \in [0 .. n -> 0 .. to] :
        Cut(z, n, cut, number) /\ number[0] = from /\ number[n] = to
  BY Zenon DEF Framed
<1>2. PICK cut \in [0 .. n -> 0 .. Len(z)], number \in [0 .. n -> 0 .. to] :
        Cut(z, n, cut, number) /\ number[0] = from /\ number[n] = to
  BY Zenon, <1>1
<1> DEFINE w == z \o t
           cut2 == [i \in 0 .. n + 1 |-> IF i = n + 1 THEN Len(w) ELSE cut[i]]
           number2 == [i \in 0 .. n + 1 |-> IF i = n + 1 THEN last ELSE number[i]]
<1>3. w \in Seq(Bytes) /\ Len(w) = Len(z) + Len(t) /\ Len(z) \in Nat /\ Len(t) \in Nat
  BY Zenon, CatElements
<1>a. \A i \in 1 .. Len(z) : w[i] = z[i]
  OBVIOUS
<1>b. \A i \in 1 .. Len(t) : w[Len(z) + i] = t[i]
  OBVIOUS
<1> HIDE DEF w
<1>4. cut2 \in [0 .. n + 1 -> 0 .. Len(w)] /\ number2 \in [0 .. n + 1 -> 0 .. last]
  BY SMTT(30), <1>2, <1>3
<1>5. cut2[0] = 0 /\ cut2[n + 1] = Len(w) /\ number2[0] = from /\ number2[n + 1] = last
  BY <1>2 DEF Cut
<1>6. ASSUME NEW i \in 0 .. n + 1, NEW j \in i .. n + 1
      PROVE  cut2[i] <= cut2[j]
  BY SMTT(30), <1>2, <1>3 DEF Cut
<1>7. ASSUME NEW i \in 1 .. n + 1
      PROVE  FrameAt(w, cut2[i - 1], cut2[i], number2[i - 1], number2[i])
  <2>1. CASE i = n + 1
    <3>1. cut2[i - 1] = Len(z) /\ cut2[i] = Len(z) + Len(t) /\ number2[i - 1] = to /\ number2[i] = last
      BY <1>2, <1>3, <2>1 DEF Cut
    <3>2. /\ 0 < Len(t) /\ Len(t) = 0 + Header + t[0 + 1].len /\ \A j \in 0 + 1 .. Len(t) : t[j].id = t[0 + 1].id
          /\ (last = to /\ t[0 + 1].id = 0) \/ (last = to + 1 /\ t[0 + 1].id = last)
      BY Zenon DEF FrameAt
    <3>3. t[0 + 1] = t[1] /\ w[Len(z) + 1] = t[1] /\ t[1].len \in Nat
      <4>1. 0 + 1 = 1 /\ 1 \in 1 .. Len(t)
        BY <1>3, <3>2
      <4>2. t[1] \in Bytes
        BY Zenon, <4>1, ElementOfSeq
      <4>3. t[1].len \in Nat
        BY <4>2 DEF Bytes
      <4>4. QED
        BY Zenon, <1>b, <4>1, <4>3
    <3>4. \A j \in Len(z) + 1 .. Len(z) + Len(t) : w[j].id = t[1].id
      <4> SUFFICES ASSUME NEW j \in Len(z) + 1 .. Len(z) + Len(t)
                   PROVE  w[j].id = t[1].id
        BY Zenon
      <4>1. j - Len(z) \in 1 .. Len(t) /\ j - Len(z) \in 0 + 1 .. Len(t) /\ Len(z) + (j - Len(z)) = j
        BY <1>3
      <4>2. w[j] = t[j - Len(z)]
        BY Zenon, <1>b, <4>1
      <4>3. QED
        BY Zenon, <3>2, <3>3, <4>1, <4>2
    <3>5. Len(z) + Len(t) = Len(z) + Header + t[1].len /\ Len(z) < Len(z) + Len(t)
      <4> DEFINE f == t[1].len
      <4>1. Len(t) = 0 + Header + f /\ 0 < Len(t)
        BY Zenon, <3>2, <3>3
      <4>2. f \in Nat
        BY Zenon, <3>3
      <4> HIDE DEF f
      <4>3. Len(z) + Len(t) = Len(z) + Header + f /\ Len(z) < Len(z) + Len(t)
        BY <1>0, <1>3, <4>1, <4>2
      <4>4. QED
        BY Zenon, <4>3 DEF f
    <3>6. FrameAt(w, Len(z), Len(z) + Len(t), to, last)
      BY Zenon, <3>2, <3>3, <3>4, <3>5 DEF FrameAt
    <3>7. QED
      BY SMTT(30), <3>1, <3>6
  <2>2. CASE i # n + 1
    <3>1. /\ i \in 1 .. n /\ cut2[i - 1] = cut[i - 1] /\ cut2[i] = cut[i]
          /\ number2[i - 1] = number[i - 1] /\ number2[i] = number[i]
          /\ cut[i - 1] \in 0 .. Len(z) /\ cut[i] \in 0 .. Len(z)
      BY SMTT(30), <1>2, <2>2
    <3>2. FrameAt(z, cut[i - 1], cut[i], number[i - 1], number[i])
      BY <1>2, <3>1 DEF Cut
    <3>3. cut[i - 1] + 1 \in 1 .. Len(z) /\ \A j \in cut[i - 1] + 1 .. cut[i] : j \in 1 .. Len(z)
      <4> DEFINE a == cut[i - 1]
                 b == cut[i]
      <4>1. a < b
        BY Zenon, <3>2 DEF FrameAt
      <4>2. a \in 0 .. Len(z) /\ b \in 0 .. Len(z)
        BY Zenon, <3>1
      <4> HIDE DEF a, b
      <4>3. a + 1 \in 1 .. Len(z) /\ \A j \in a + 1 .. b : j \in 1 .. Len(z)
        BY SMTT(30), <1>3, <4>1, <4>2
      <4>4. QED
        BY Zenon, <4>3 DEF a, b
    <3>4. w[cut[i - 1] + 1] = z[cut[i - 1] + 1] /\ \A j \in cut[i - 1] + 1 .. cut[i] : w[j] = z[j]
      BY Zenon, <1>a, <3>3
    <3>5. QED
      BY Zenon, <3>1, <3>2, <3>4 DEF FrameAt
  <2>3. QED
    BY <2>1, <2>2
<1>8. Cut(w, n + 1, cut2, number2)
  BY Zenon, <1>5, <1>6, <1>7 DEF Cut
<1> HIDE DEF cut2, number2
<1>9. n + 1 \in Nat
  OBVIOUS
<1>10. QED
  BY Zenon, <1>4, <1>5, <1>8, <1>9 DEF Framed, w

(* The length field is a number. *)
LEMMA ByteLen ==
  ASSUME NEW z \in Seq(Bytes), NEW i \in 1 .. Len(z)
  PROVE  z[i].len \in Nat
<1>1. z[i] \in Bytes
  BY Zenon, ElementOfSeq
<1>2. QED
  BY <1>1 DEF Bytes

(* A frame stays one when bytes before it are taken away. *)
LEMMA FrameShift ==
  ASSUME NEW z \in Seq(Bytes), NEW y, NEW k \in Nat, NEW a \in Nat, NEW b \in 0 .. Len(z), NEW from, NEW to,
         k <= a, \A j \in 1 .. Len(z) - k : y[j] = z[j + k],
         FrameAt(z, a, b, from, to)
  PROVE  FrameAt(y, a - k, b - k, from, to)
<1>0. Header \in Nat /\ Len(z) \in Nat
  BY WireAssumption
<1>1. a < b /\ b = a + Header + z[a + 1].len
  BY Zenon DEF FrameAt
<1>2. a + 1 \in 1 .. Len(z) /\ (a - k) + 1 \in 1 .. Len(z) - k /\ ((a - k) + 1) + k = a + 1
  <2>1. a < b
    BY Zenon, <1>1
  <2>2. QED
    BY <1>0, <2>1
<1>3. y[(a - k) + 1] = z[a + 1]
  <2>1. y[(a - k) + 1] = z[((a - k) + 1) + k]
    BY Zenon, <1>2
  <2>2. QED
    BY Zenon, <1>2, <2>1
<1>4. z[a + 1].len \in Nat
  BY Zenon, <1>2, ByteLen
<1>5. a - k < b - k /\ b - k = (a - k) + Header + z[a + 1].len
  <2> DEFINE f == z[a + 1].len
  <2>1. f \in Nat /\ b = a + Header + f
    BY Zenon, <1>1, <1>4
  <2> HIDE DEF f
  <2>2. a - k < b - k /\ b - k = (a - k) + Header + f
    <3>1. a < b
      BY Zenon, <1>1
    <3>2. QED
      BY <1>0, <2>1, <3>1
  <2>3. QED
    BY Zenon, <2>2 DEF f
<1>6. ASSUME NEW j \in (a - k) + 1 .. b - k
      PROVE  y[j].id = z[a + 1].id
  <2>1. j \in 1 .. Len(z) - k /\ j + k \in a + 1 .. b
    BY <1>0
  <2>2. QED
    BY Zenon, <2>1 DEF FrameAt
<1>7. QED
  BY Zenon, <1>3, <1>5, <1>6 DEF FrameAt

(* What Drop leaves. *)
LEMMA DropElements ==
  ASSUME NEW S, NEW s \in Seq(S), NEW k \in 0 .. Len(s)
  PROVE  /\ Drop(k, s) \in Seq(S) /\ Len(Drop(k, s)) = Len(s) - k /\ Len(s) \in Nat
         /\ \A j \in 1 .. Len(s) - k : Drop(k, s)[j] = s[j + k]
         /\ SubSeq(s, 1, k) \in Seq(S) /\ SubSeq(s, 1, k) \o Drop(k, s) = s
<1>1. Len(s) \in Nat /\ 1 \in 1 .. Len(s) + 1 /\ k \in 1 - 1 .. Len(s) /\ Len(s) \in k .. Len(s)
  OBVIOUS
<1>2. SubSeq(s, 1, k) \in Seq(S) /\ Drop(k, s) \in Seq(S)
  BY DEF Drop
<1>3. Len(Drop(k, s)) = Len(s) - k /\ \A j \in 1 .. Len(s) - k : Drop(k, s)[j] = s[j + k]
  BY DEF Drop
<1>4. SubSeq(s, 1, k) \o Drop(k, s) = SubSeq(s, 1, Len(s))
  BY Zenon, <1>1, ConcatAdjacentSubSeq DEF Drop
<1>5. SubSeq(s, 1, Len(s)) = s
  BY Zenon, SubSeqFull
<1>6. QED
  BY Zenon, <1>1, <1>2, <1>3, <1>4, <1>5

(* Whole frames begin with one, and without it are whole frames.  It is    *)
(* padding, or the next one in order.                                      *)
LEMMA FramedFirst ==
  ASSUME NEW z \in Seq(Bytes), z # <<>>, NEW from \in Nat, NEW to \in Nat, Framed(z, from, to)
  PROVE  /\ FrameLen(z) \in 1 .. Len(z) /\ \A j \in 1 .. FrameLen(z) : z[j].id = z[1].id
         /\ \/ z[1].id = 0 /\ Framed(Drop(FrameLen(z), z), from, to)
            \/ z[1].id = from + 1 /\ from + 1 <= to /\ Framed(Drop(FrameLen(z), z), from + 1, to)
<1>0. Len(z) \in Nat \ {0}
  BY EmptySeq
<1>1. PICK n \in Nat : \E cut \in [0 .. n -> 0 .. Len(z)], number \in [0 .. n -> 0 .. to] :
        Cut(z, n, cut, number) /\ number[0] = from /\ number[n] = to
  BY Zenon DEF Framed
<1>2. PICK cut \in [0 .. n -> 0 .. Len(z)], number \in [0 .. n -> 0 .. to] :
        Cut(z, n, cut, number) /\ number[0] = from /\ number[n] = to
  BY Zenon, <1>1
<1>3. cut[0] = 0 /\ cut[n] = Len(z)
  BY Zenon, <1>2 DEF Cut
<1>4. 1 \in 0 .. n /\ 1 \in 1 .. n /\ 1 - 1 = 0 /\ n - 1 \in Nat
  BY <1>0, <1>3
<1> DEFINE k == FrameLen(z)
           y == Drop(k, z)
           m == number[1]
<1>5. FrameAt(z, 0, cut[1], from, m)
  BY Zenon, <1>2, <1>3, <1>4 DEF Cut
<1>6. cut[1] = k /\ z[1].len \in Nat
  <2>1. 0 + 1 = 1 /\ 1 \in 1 .. Len(z) /\ Header \in Nat
    BY <1>0, WireAssumption
  <2>2. z[1].len \in Nat
    BY Zenon, <2>1, ByteLen
  <2> DEFINE f == z[1].len
  <2>3. cut[1] = 0 + Header + f
    BY Zenon, <1>5, <2>1 DEF FrameAt
  <2>4. 0 + Header + f = Header + f
    <3> HIDE DEF f
    <3>1. f \in Nat
      BY Zenon, <2>2 DEF f
    <3>2. QED
      BY <2>1, <3>1
  <2>5. QED
    BY Zenon, <2>2, <2>3, <2>4 DEF FrameLen
<1>7. k \in 1 .. Len(z)
  <2>1. 0 < k /\ cut[1] \in 0 .. Len(z)
    BY Zenon, <1>2, <1>4, <1>5, <1>6 DEF FrameAt
  <2>2. QED
    BY <1>6, <2>1
<1>8. \A j \in 1 .. k : z[j].id = z[1].id
  <2>1. 0 + 1 = 1
    OBVIOUS
  <2>2. QED
    BY Zenon, <1>5, <1>6, <2>1 DEF FrameAt
<1>9. Framed(y, m, to)
  <2> DEFINE cut2 == [i \in 0 .. n - 1 |-> cut[i + 1] - k]
             number2 == [i \in 0 .. n - 1 |-> number[i + 1]]
  <2>1. /\ k \in Nat /\ k \in 0 .. Len(z) /\ Len(z) \in Nat
        /\ \A i \in 0 .. n - 1 : i + 1 \in 0 .. n /\ i + 1 \in 1 .. n
    BY <1>0, <1>7
  <2>2. Len(y) = Len(z) - k /\ \A j \in 1 .. Len(z) - k : y[j] = z[j + k]
    BY Zenon, <2>1, DropElements
  <2>3. ASSUME NEW i \in 0 .. n, 1 <= i
        PROVE  k <= cut[i] /\ cut[i] \in 0 .. Len(z)
    <3>1. i \in 1 .. n
      BY <2>3
    <3>2. QED
      BY Zenon, <1>2, <1>4, <1>6, <3>1 DEF Cut
  <2>4. cut2 \in [0 .. n - 1 -> 0 .. Len(y)]
    <3> SUFFICES ASSUME NEW i \in 0 .. n - 1
                 PROVE  cut[i + 1] - k \in 0 .. Len(y)
      BY Zenon
    <3>1. i + 1 \in 0 .. n /\ 1 <= i + 1
      BY <2>1
    <3>2. k <= cut[i + 1] /\ cut[i + 1] \in 0 .. Len(z)
      BY Zenon, <2>3, <3>1
    <3> HIDE DEF k
    <3>3. QED
      BY SMTT(30), <2>1, <2>2, <3>2
  <2>5. number2 \in [0 .. n - 1 -> 0 .. to] /\ number2[0] = m /\ number2[n - 1] = to
    BY <1>2, <1>4
  <2>6. cut2[0] = 0 /\ cut2[n - 1] = Len(y)
    <3>1. cut2[0] = cut[0 + 1] - k /\ cut2[n - 1] = cut[(n - 1) + 1] - k /\ 0 + 1 = 1 /\ (n - 1) + 1 = n
      BY <1>4
    <3> HIDE DEF k
    <3>2. k - k = 0
      BY <2>1
    <3>3. QED
      BY Zenon, <1>3, <1>6, <2>2, <3>1, <3>2
  <2>7. ASSUME NEW i \in 0 .. n - 1, NEW j \in i .. n - 1
        PROVE  cut2[i] <= cut2[j]
    <3>1. i + 1 \in 0 .. n /\ j + 1 \in i + 1 .. n /\ j \in 0 .. n - 1 /\ j + 1 \in 0 .. n
      OBVIOUS
    <3>2. cut[i + 1] <= cut[j + 1] /\ cut[i + 1] \in 0 .. Len(z) /\ cut[j + 1] \in 0 .. Len(z)
      BY Zenon, <1>2, <3>1 DEF Cut
    <3>3. cut2[i] = cut[i + 1] - k /\ cut2[j] = cut[j + 1] - k
      BY Zenon, <3>1
    <3>4. \A a, b \in 0 .. Len(z) : a <= b => a - k <= b - k
      <4> HIDE DEF k
      <4>1. QED
        BY <2>1
    <3>5. QED
      BY Zenon, <3>2, <3>3, <3>4
  <2>8. ASSUME NEW i \in 1 .. n - 1
        PROVE  FrameAt(y, cut2[i - 1], cut2[i], number2[i - 1], number2[i])
    <3>1. /\ i + 1 \in 1 .. n /\ i \in 0 .. n /\ 1 <= i /\ i + 1 \in 0 .. n /\ 1 <= i + 1
          /\ i - 1 \in 0 .. n - 1 /\ i \in 0 .. n - 1 /\ (i - 1) + 1 = i /\ (i + 1) - 1 = i
      OBVIOUS
    <3>2. FrameAt(z, cut[i], cut[i + 1], number[i], number[i + 1])
      BY Zenon, <1>2, <3>1 DEF Cut
    <3>3. k <= cut[i] /\ cut[i] \in 0 .. Len(z) /\ cut[i + 1] \in 0 .. Len(z)
      BY Zenon, <2>3, <3>1
    <3>4. cut[i] \in Nat
      BY <2>1, <3>3
    <3>5. FrameAt(y, cut[i] - k, cut[i + 1] - k, number[i], number[i + 1])
      BY Zenon, <2>1, <2>2, <3>2, <3>3, <3>4, FrameShift
    <3>6. cut2[i - 1] = cut[i] - k /\ cut2[i] = cut[i + 1] - k /\ number2[i - 1] = number[i] /\ number2[i] = number[i + 1]
      BY Zenon, <3>1
    <3>7. QED
      BY Zenon, <3>5, <3>6
  <2>9. Cut(y, n - 1, cut2, number2)
    BY Zenon, <2>6, <2>7, <2>8 DEF Cut
  <2> HIDE DEF cut2, number2, y, m, k
  <2>10. QED
    BY Zenon, <1>4, <2>4, <2>5, <2>9 DEF Framed
<1>10. (z[1].id = 0 /\ m = from) \/ (z[1].id = from + 1 /\ m = from + 1)
  <2>1. 0 + 1 = 1
    OBVIOUS
  <2>2. QED
    BY Zenon, <1>5, <2>1 DEF FrameAt
<1>11. m <= to
  BY <1>2, <1>4
<1>12. QED
  BY Zenon, <1>7, <1>8, <1>9, <1>10, <1>11

(* No frames are no bytes. *)
LEMMA FramedEnd ==
  ASSUME NEW from \in Nat, NEW to \in Nat, Framed(<<>>, from, to)
  PROVE  from = to
<1>1. PICK n \in Nat : \E cut \in [0 .. n -> 0 .. Len(<<>>)], number \in [0 .. n -> 0 .. to] :
        Cut(<<>>, n, cut, number) /\ number[0] = from /\ number[n] = to
  BY Zenon DEF Framed
<1>2. PICK cut \in [0 .. n -> 0 .. Len(<<>>)], number \in [0 .. n -> 0 .. to] :
        Cut(<<>>, n, cut, number) /\ number[0] = from /\ number[n] = to
  BY Zenon, <1>1
<1>3. CASE n = 0
  BY Zenon, <1>2, <1>3
<1>4. CASE n # 0
  <2>1. 1 \in 1 .. n /\ 1 - 1 = 0 /\ 1 \in 0 .. n /\ 0 \in 0 .. n /\ Len(<<>>) = 0
    BY <1>4
  <2>2. cut[0] < cut[1]
    BY Zenon, <1>2, <2>1 DEF Cut, FrameAt
  <2>3. cut[0] \in 0 .. 0 /\ cut[1] \in 0 .. 0
    BY Zenon, <2>1
  <2>4. QED
    BY <2>2, <2>3
<1>5. QED
  BY <1>3, <1>4

-----------------------------------------------------------------------------
(* Sequences that move from one buffer to the next.                        *)

(* Cutting the front off a concatenation cuts it off its first part. *)
LEMMA DropCat ==
  ASSUME NEW S, NEW s \in Seq(S), NEW t \in Seq(S), NEW k \in 0 .. Len(s)
  PROVE  Drop(k, s \o t) = Drop(k, s) \o t
<1>1. /\ s \o t \in Seq(S) /\ Len(s \o t) = Len(s) + Len(t) /\ Len(s) \in Nat /\ Len(t) \in Nat
      /\ k \in 0 .. Len(s \o t)
  OBVIOUS
<1>2. Drop(k, s \o t) \in Seq(S) /\ Len(Drop(k, s \o t)) = (Len(s) + Len(t)) - k
  BY <1>1 DEF Drop
<1>3. Drop(k, s) \in Seq(S) /\ Len(Drop(k, s)) = Len(s) - k
  BY Zenon, DropElements
<1>4. Drop(k, s) \o t \in Seq(S) /\ Len(Drop(k, s) \o t) = (Len(s) - k) + Len(t)
  BY SMTT(30), <1>3
<1>5. ASSUME NEW i \in 1 .. (Len(s) + Len(t)) - k
      PROVE  Drop(k, s \o t)[i] = (Drop(k, s) \o t)[i]
  <2>1. Drop(k, s \o t)[i] = (s \o t)[i + k]
    BY <1>1 DEF Drop
  <2>2. CASE i <= Len(s) - k
    <3>1. (s \o t)[i + k] = s[i + k]
      BY <1>1, <2>2
    <3>2. (Drop(k, s) \o t)[i] = Drop(k, s)[i]
      BY <1>1, <1>3, <2>2
    <3>3. Drop(k, s)[i] = s[i + k]
      BY <1>1, <2>2 DEF Drop
    <3>4. QED
      BY Zenon, <2>1, <3>1, <3>2, <3>3
  <2>3. CASE ~(i <= Len(s) - k)
    <3>1. (s \o t)[i + k] = t[(i + k) - Len(s)]
      BY <1>1, <2>3
    <3>2. (Drop(k, s) \o t)[i] = t[i - (Len(s) - k)]
      BY SMTT(30), <1>1, <1>3, <2>3
    <3>3. (i + k) - Len(s) = i - (Len(s) - k)
      BY <1>1
    <3>4. QED
      BY Zenon, <2>1, <3>1, <3>2, <3>3
  <2>4. QED
    BY Zenon, <2>2, <2>3
<1>6. Len(Drop(k, s) \o t) = (Len(s) + Len(t)) - k
  BY <1>1, <1>4
<1> DEFINE l == Drop(k, s \o t)
           r == Drop(k, s) \o t
<1>7. l \in Seq(S) /\ r \in Seq(S) /\ Len(l) = Len(r) /\ \A i \in 1 .. Len(l) : l[i] = r[i]
  BY Zenon, <1>2, <1>4, <1>5, <1>6
<1> HIDE DEF l, r
<1>8. l = r
  BY <1>7, SeqEqual
<1>9. QED
  BY Zenon, <1>8 DEF l, r

Cat(s, t) == s \o t

(* Concatenation. *)
LEMMA CatFacts ==
  ASSUME NEW S
  PROVE  /\ \A a, b \in Seq(S) : Cat(a, b) \in Seq(S)
         /\ \A a, b, c \in Seq(S) : Cat(Cat(a, b), c) = Cat(a, Cat(b, c))
         /\ \A a \in Seq(S) : Cat(a, <<>>) = a
         /\ <<>> \in Seq(S)
<1>1. ASSUME NEW a \in Seq(S), NEW b \in Seq(S)
      PROVE  Cat(a, b) \in Seq(S)
  BY DEF Cat
<1>2. ASSUME NEW a \in Seq(S), NEW b \in Seq(S), NEW c \in Seq(S)
      PROVE  Cat(Cat(a, b), c) = Cat(a, Cat(b, c))
  BY DEF Cat
<1>3. ASSUME NEW a \in Seq(S)
      PROVE  Cat(a, <<>>) = a
  BY DEF Cat
<1>4. <<>> \in Seq(S)
  OBVIOUS
<1>5. QED
  BY Zenon, <1>1, <1>2, <1>3, <1>4

(* Moving bytes on, or adding some, changes their whole as expected. *)
LEMMA Moved ==
  ASSUME NEW S, NEW a \in Seq(S), NEW w \in Seq(S), NEW b \in Seq(S)
  PROVE  /\ \A k \in 0 .. Len(b) : Cat(Cat(a, Cat(w, SubSeq(b, 1, k))), Drop(k, b)) = Cat(Cat(a, w), b)
         /\ \A k \in 0 .. Len(w) : Cat(Cat(Cat(a, SubSeq(w, 1, k)), Drop(k, w)), b) = Cat(Cat(a, w), b)
         /\ Cat(Cat(a, Cat(w, b)), <<>>) = Cat(Cat(a, w), b)
         /\ \A c \in Seq(S) : Cat(Cat(a, Cat(w, Cat(b, c))), <<>>) = Cat(Cat(Cat(a, w), b), c)
         /\ \A k \in 0 .. Len(a) : Cat(Cat(Drop(k, a), w), b) = Drop(k, Cat(Cat(a, w), b))
<1>0. /\ \A x, y \in Seq(S) : Cat(x, y) \in Seq(S)
      /\ \A x, y, z \in Seq(S) : Cat(Cat(x, y), z) = Cat(x, Cat(y, z))
      /\ \A x \in Seq(S) : Cat(x, <<>>) = x
      /\ <<>> \in Seq(S)
  BY Zenon, CatFacts
<1>a. ASSUME NEW s \in Seq(S), NEW k \in 0 .. Len(s)
      PROVE  Drop(k, s) \in Seq(S) /\ SubSeq(s, 1, k) \in Seq(S) /\ Cat(SubSeq(s, 1, k), Drop(k, s)) = s
  BY Zenon, DropElements DEF Cat
<1>1. ASSUME NEW k \in 0 .. Len(b)
      PROVE  Cat(Cat(a, Cat(w, SubSeq(b, 1, k))), Drop(k, b)) = Cat(Cat(a, w), b)
  <2> DEFINE p == SubSeq(b, 1, k)
             q == Drop(k, b)
  <2>1. p \in Seq(S) /\ q \in Seq(S) /\ Cat(p, q) = b
    BY Zenon, <1>a
  <2> HIDE DEF p, q
  <2>2. Cat(a, Cat(w, p)) = Cat(Cat(a, w), p) /\ Cat(a, w) \in Seq(S)
    BY <1>0, <2>1
  <2>3. Cat(Cat(Cat(a, w), p), q) = Cat(Cat(a, w), Cat(p, q))
    BY <1>0, <2>1, <2>2
  <2>4. QED
    BY Zenon, <2>1, <2>2, <2>3 DEF p, q
<1>2. ASSUME NEW k \in 0 .. Len(w)
      PROVE  Cat(Cat(Cat(a, SubSeq(w, 1, k)), Drop(k, w)), b) = Cat(Cat(a, w), b)
  <2> DEFINE p == SubSeq(w, 1, k)
             q == Drop(k, w)
  <2>1. p \in Seq(S) /\ q \in Seq(S) /\ Cat(p, q) = w
    BY Zenon, <1>a
  <2> HIDE DEF p, q
  <2>2. Cat(Cat(a, p), q) = Cat(a, w)
    BY <1>0, <2>1
  <2>3. QED
    BY Zenon, <2>2 DEF p, q
<1>3. ASSUME NEW c \in Seq(S)
      PROVE  Cat(Cat(a, Cat(w, c)), <<>>) = Cat(Cat(a, w), c)
  <2>1. Cat(w, c) \in Seq(S) /\ Cat(a, Cat(w, c)) \in Seq(S)
    BY Zenon, <1>0
  <2>2. QED
    BY <1>0, <2>1
<1>4. ASSUME NEW c \in Seq(S)
      PROVE  Cat(Cat(a, Cat(w, Cat(b, c))), <<>>) = Cat(Cat(Cat(a, w), b), c)
  <2>1. Cat(b, c) \in Seq(S) /\ Cat(a, w) \in Seq(S)
    BY Zenon, <1>0
  <2>2. Cat(Cat(a, Cat(w, Cat(b, c))), <<>>) = Cat(Cat(a, w), Cat(b, c))
    BY Zenon, <1>3, <2>1
  <2>3. QED
    BY <1>0, <2>1, <2>2
<1>5. ASSUME NEW k \in 0 .. Len(a)
      PROVE  Cat(Cat(Drop(k, a), w), b) = Drop(k, Cat(Cat(a, w), b))
  <2>1. Cat(a, w) \in Seq(S) /\ k \in 0 .. Len(Cat(a, w))
    BY DEF Cat
  <2>2. Drop(k, Cat(Cat(a, w), b)) = Cat(Drop(k, Cat(a, w)), b)
    BY Zenon, <2>1, DropCat DEF Cat
  <2>3. Drop(k, Cat(a, w)) = Cat(Drop(k, a), w)
    BY DropCat DEF Cat
  <2>4. QED
    BY Zenon, <2>2, <2>3
<1>6. QED
  BY Zenon, <1>1, <1>2, <1>3, <1>4, <1>5

(* What the writer puts together is one frame. *)
LEMMA EncodedFrame ==
  ASSUME NEW id \in 0 .. NumFrames, NEW n \in 0 .. LenMod - 1
  PROVE  /\ Encoded(id, n, n) \in Seq(Bytes)
         /\ \A from, to \in Nat : (id = 0 /\ to = from) \/ (id = to /\ to = from + 1)
              => FrameAt(Encoded(id, n, n), 0, Len(Encoded(id, n, n)), from, to)
<1>0. Header \in Nat \ {0} /\ LenMod \in Nat
  BY WireAssumption
<1>1. n % LenMod = n /\ Header + n \in Nat \ {0} /\ 0 \in 0 .. LenMod - 1
  BY <1>0
<1> DEFINE e == Encoded(id, n, n)
<1>2. e = [j \in 1 .. Header + n |-> [id |-> id, len |-> IF j = 1 THEN n ELSE 0]]
  BY Zenon, <1>1 DEF Encoded
<1>3. e \in Seq(Bytes) /\ Len(e) = Header + n
  <2>1. \A j \in 1 .. Header + n : [id |-> id, len |-> IF j = 1 THEN n ELSE 0] \in Bytes
    BY <1>1 DEF Bytes
  <2>2. Header + n \in Nat
    BY <1>0
  <2> DEFINE f(j) == [id |-> id, len |-> IF j = 1 THEN n ELSE 0]
  <2>3. \A j \in 1 .. Header + n : f(j) \in Bytes
    BY Zenon, <2>1
  <2>4. e = [j \in 1 .. Header + n |-> f(j)]
    BY Zenon, <1>2
  <2> HIDE DEF f, e
  <2>5. QED
    BY <2>2, <2>3, <2>4
<1>4. e[0 + 1].len = n /\ \A j \in 1 .. Header + n : e[j].id = id
  BY <1>1, <1>2
<1>5. 0 + 1 = 1 /\ 0 + Header + n = Header + n /\ 0 < Header + n /\ 1 \in 1 .. Header + n
  BY <1>0
<1> HIDE DEF e
<1>6. QED
  BY Zenon, <1>3, <1>4, <1>5 DEF e, FrameAt

-----------------------------------------------------------------------------
(* The inductive invariant.                                                *)

(* What was taken and is not parsed yet. *)
Left == Cat(Cat(pending, wire), bytes)

(* It divides into whole frames, and an idle writer holds none of it. *)
WireInv ==
  /\ TypeOK
  /\ pc = "idle" => bytes = <<>>
  /\ Framed(Left, Len(got), taken)

(* It holds at the start. *)
LEMMA InitWire == Init => WireInv
<1> SUFFICES ASSUME Init
             PROVE  WireInv
  OBVIOUS
<1>1. Cat(Cat(<<>>, <<>>), <<>>) = <<>> /\ <<>> \in Seq(Bytes) /\ Len(<<>>) = 0
      /\ <<>> \in Seq(0 .. LenMod - 1 \cup {CheckMark}) /\ <<>> \in Seq(-1 .. NumFrames)
  BY DEF Cat
<1>2. Framed(Left, Len(got), taken)
  BY Zenon, <1>1, FramedNone DEF Init, Left
<1>3. TypeOK
  BY <1>1, WireAssumption DEF Init, TypeOK
<1>4. QED
  BY Zenon, <1>2, <1>3 DEF Init, WireInv

(* What the invariant says of the buffers, and of the whole they make. *)
LEMMA LeftTypes ==
  ASSUME WireInv
  PROVE  /\ bytes \in Seq(Bytes) /\ wire \in Seq(Bytes) /\ pending \in Seq(Bytes)
         /\ Left \in Seq(Bytes) /\ Len(got) \in Nat /\ taken \in Nat /\ Cat(pending, wire) \in Seq(Bytes)
<1>1. bytes \in Seq(Bytes) /\ wire \in Seq(Bytes) /\ pending \in Seq(Bytes)
  BY Zenon DEF WireInv, TypeOK
<1>2. Len(got) \in Nat /\ taken \in Nat
  BY WireAssumption DEF WireInv, TypeOK
<1>3. \A a, b \in Seq(Bytes) : Cat(a, b) \in Seq(Bytes)
  BY CatFacts
<1>4. QED
  BY Zenon, <1>1, <1>2, <1>3 DEF Left

(* Moving bytes from one buffer to the next leaves the whole as it is. *)
LEMMA LeftMoved ==
  ASSUME WireInv
  PROVE  /\ \A k \in 0 .. Len(bytes) : Cat(Cat(pending, Cat(wire, SubSeq(bytes, 1, k))), Drop(k, bytes)) = Left
         /\ \A k \in 0 .. Len(wire) : Cat(Cat(Cat(pending, SubSeq(wire, 1, k)), Drop(k, wire)), bytes) = Left
         /\ Cat(Cat(pending, Cat(wire, bytes)), <<>>) = Left
         /\ \A c \in Seq(Bytes) : Cat(Cat(pending, Cat(wire, Cat(bytes, c))), <<>>) = Cat(Left, c)
         /\ \A k \in 0 .. Len(pending) : Cat(Cat(Drop(k, pending), wire), bytes) = Drop(k, Left)
<1> DEFINE a == pending
           w == wire
           b == bytes
           S == Bytes
<1>1. a \in Seq(S) /\ w \in Seq(S) /\ b \in Seq(S)
  BY Zenon, LeftTypes
<1> HIDE DEF a, w, b, S
<1>2. /\ \A k \in 0 .. Len(b) : Cat(Cat(a, Cat(w, SubSeq(b, 1, k))), Drop(k, b)) = Cat(Cat(a, w), b)
      /\ \A k \in 0 .. Len(w) : Cat(Cat(Cat(a, SubSeq(w, 1, k)), Drop(k, w)), b) = Cat(Cat(a, w), b)
      /\ Cat(Cat(a, Cat(w, b)), <<>>) = Cat(Cat(a, w), b)
      /\ \A c \in Seq(S) : Cat(Cat(a, Cat(w, Cat(b, c))), <<>>) = Cat(Cat(Cat(a, w), b), c)
      /\ \A k \in 0 .. Len(a) : Cat(Cat(Drop(k, a), w), b) = Drop(k, Cat(Cat(a, w), b))
  BY <1>1, Moved
<1>3. QED
  BY Zenon, <1>2 DEF a, w, b, S, Left

(* Take: the next frame goes behind what is left. *)
LEMMA TakeWire ==
  ASSUME WireInv, Take
  PROVE  WireInv' /\ taken' = taken + 1 /\ got' = got
<1>0. /\ wire \in Seq(Bytes) /\ pending \in Seq(Bytes) /\ Cat(pending, wire) \in Seq(Bytes)
      /\ Len(got) \in Nat /\ taken \in Nat
  BY Zenon, LeftTypes
<1>1. PICK n \in PayloadSizes : bytes' = Encoded(taken + 1, n, n)
  BY Zenon DEF Take, ToBytes
<1>2. n \in 0 .. LenMod - 1 /\ taken + 1 \in 0 .. NumFrames /\ taken + 1 \in Nat
  BY WireAssumption, <1>0 DEF Take
<1>3. bytes' \in Seq(Bytes) /\ FrameAt(bytes', 0, Len(bytes'), taken, taken + 1)
  BY Zenon, <1>0, <1>1, <1>2, EncodedFrame
<1>4. Left = Cat(pending, wire)
  <2>1. bytes = <<>>
    BY Zenon DEF Take, WireInv
  <2>2. \A s \in Seq(Bytes) : Cat(s, <<>>) = s
    BY CatFacts
  <2>3. QED
    BY Zenon, <1>0, <2>1, <2>2 DEF Left
<1>5. Left' = Cat(pending, wire) \o bytes'
  BY Zenon DEF Left, Cat, Take, readerVars
<1>6. Framed(Cat(pending, wire), Len(got), taken)
  BY Zenon, <1>4 DEF WireInv
<1>7. Framed(Left', Len(got), taken + 1)
  BY Zenon, <1>0, <1>2, <1>3, <1>5, <1>6, FramedMore
<1>8. got' = got /\ taken' = taken + 1 /\ wire' = wire /\ pending' = pending
  BY Zenon DEF Take, readerVars
<1>9. pkt' \in 0 .. taken + 1
  BY <1>0 DEF Take, WireInv, TypeOK, NextPkt
<1>10. sizes' \in Seq(0 .. LenMod - 1 \cup {CheckMark})
  BY Zenon, WireAssumption DEF Take, WireInv, TypeOK
<1>11. pc' \in {"loop", "rest"} /\ pc' # "idle" /\ padding' \in BOOLEAN
  <2>1. padding \in BOOLEAN
    BY Zenon DEF WireInv, TypeOK
  <2>2. pc' \in {"loop", "rest"}
    BY Zenon DEF Take
  <2>3. QED
    BY Zenon, <2>1, <2>2 DEF Take
<1>12. TypeOK'
  BY Zenon, <1>0, <1>2, <1>3, <1>8, <1>9, <1>10, <1>11 DEF WireInv, TypeOK
<1>13. QED
  BY Zenon, <1>7, <1>8, <1>11, <1>12 DEF WireInv

(* A step that takes no frame and parses none keeps the invariant, if it   *)
(* leaves what is left as it is or puts padding behind it.                 *)
LEMMA SameWire ==
  ASSUME WireInv, taken' = taken, got' = got, pkt' = pkt, padding' = padding,
         bytes' \in Seq(Bytes), wire' \in Seq(Bytes), pending' \in Seq(Bytes),
         sizes' \in Seq(0 .. LenMod - 1 \cup {CheckMark}),
         pc' \in {"idle", "loop", "rest"}, pc' = "idle" => bytes' = <<>>,
         Left' = Left \/ \E n \in 0 .. LenMod - 1 : Left' = Cat(Left, Waste(n))
  PROVE  WireInv'
<1>0. Left \in Seq(Bytes) /\ Len(got) \in Nat /\ taken \in Nat
  BY Zenon, LeftTypes
<1>1. Framed(Left, Len(got), taken)
  BY Zenon DEF WireInv
<1>2. ASSUME NEW n \in 0 .. LenMod - 1, Left' = Cat(Left, Waste(n))
      PROVE  Framed(Left', Len(got), taken)
  <2>1. 0 \in 0 .. NumFrames
    BY WireAssumption
  <2>2. Waste(n) \in Seq(Bytes) /\ FrameAt(Waste(n), 0, Len(Waste(n)), taken, taken)
    BY Zenon, <1>0, <2>1, EncodedFrame DEF Waste
  <2>3. Framed(Left \o Waste(n), Len(got), taken)
    BY Zenon, <1>0, <1>1, <2>2, FramedMore
  <2>4. QED
    BY Zenon, <1>2, <2>3 DEF Cat
<1>3. Framed(Left', Len(got), taken)
  BY Zenon, <1>1, <1>2
<1>4. TypeOK'
  BY Zenon DEF WireInv, TypeOK
<1>5. QED
  BY Zenon, <1>3, <1>4 DEF WireInv

(* One size of the loop of write_conn: part of the payload, the rest of it *)
(* with padding behind, or padding alone.                                  *)
LEMMA WriteSizeWire ==
  ASSUME WireInv, WriteSize
  PROVE  WireInv' /\ taken' = taken /\ got' = got
<1> DEFINE size == Head(sizes)
           k == PaddingLen(size)
<1>0. /\ bytes \in Seq(Bytes) /\ wire \in Seq(Bytes) /\ pending \in Seq(Bytes)
      /\ taken' = taken /\ got' = got /\ pkt' = pkt /\ padding' = padding /\ pending' = pending
      /\ pc = "loop" /\ pc' = "loop" /\ pc' # "idle"
  BY Zenon, LeftTypes DEF WriteSize, readerVars
<1>1. size \in 0 .. LenMod - 1 /\ sizes' \in Seq(0 .. LenMod - 1 \cup {CheckMark})
  <2>1. sizes \in Seq(0 .. LenMod - 1 \cup {CheckMark}) /\ sizes # <<>> /\ size # CheckMark /\ sizes' = Tail(sizes)
    BY Zenon DEF WireInv, TypeOK, WriteSize
  <2>2. size \in 0 .. LenMod - 1 \cup {CheckMark} /\ Tail(sizes) \in Seq(0 .. LenMod - 1 \cup {CheckMark})
    BY Zenon, <2>1, HeadTailProperties
  <2>3. QED
    BY Zenon, <2>1, <2>2
<1>2. Len(bytes) \in Nat /\ Header \in Nat \ {0} /\ LenMod \in Nat
  BY <1>0, WireAssumption
<1>3. k \in 0 .. LenMod - 1
  BY <1>1, <1>2 DEF PaddingLen
<1>4. /\ \A a, b \in Seq(Bytes) : Cat(a, b) \in Seq(Bytes)
      /\ \A a \in Seq(Bytes) : Cat(a, <<>>) = a
      /\ <<>> \in Seq(Bytes)
  BY CatFacts
<1>5. \A n \in 0 .. LenMod - 1 : Waste(n) \in Seq(Bytes)
  <2>1. 0 \in 0 .. NumFrames
    BY WireAssumption
  <2>2. QED
    BY Zenon, <2>1, EncodedFrame DEF Waste
<1>6. Left' = Cat(Cat(pending, wire'), bytes')
  BY Zenon, <1>0 DEF Left
<1> HIDE DEF size, k
<1>7. CASE Len(bytes) > size /\ Put(SubSeq(bytes, 1, size)) /\ bytes' = Drop(size, bytes)
  <2>1. size \in 0 .. Len(bytes)
    BY <1>1, <1>2, <1>7
  <2>2. bytes' \in Seq(Bytes) /\ SubSeq(bytes, 1, size) \in Seq(Bytes)
    BY Zenon, <1>0, <1>7, <2>1, DropElements
  <2>3. wire' = Cat(wire, SubSeq(bytes, 1, size)) /\ wire' \in Seq(Bytes)
    BY Zenon, <1>0, <1>4, <1>7, <2>2 DEF Put, Cat
  <2>4. Left' = Left
    BY Zenon, <1>0, <1>6, <1>7, <2>1, <2>3, LeftMoved
  <2>5. QED
    BY Zenon, <1>0, <1>1, <2>2, <2>3, <2>4, SameWire
<1>8. CASE /\ bytes' = <<>>
           /\ Put(bytes \o (IF k > 0 THEN Waste(k) ELSE <<>>))
  <2>1. CASE k > 0
    <3>1. wire' = Cat(wire, Cat(bytes, Waste(k))) /\ Waste(k) \in Seq(Bytes)
      BY Zenon, <1>3, <1>5, <1>8, <2>1 DEF Put, Cat
    <3>2. wire' \in Seq(Bytes)
      BY Zenon, <1>0, <1>4, <3>1
    <3>3. Left' = Cat(Left, Waste(k))
      BY Zenon, <1>0, <1>6, <1>8, <3>1, LeftMoved
    <3>4. QED
      BY Zenon, <1>0, <1>1, <1>3, <1>4, <1>8, <3>2, <3>3, SameWire
  <2>2. CASE ~(k > 0)
    <3>1. wire' = Cat(wire, bytes)
      BY Zenon, <1>0, <1>4, <1>8, <2>2 DEF Put, Cat
    <3>2. wire' \in Seq(Bytes)
      BY Zenon, <1>0, <1>4, <3>1
    <3>3. Left' = Left
      BY Zenon, <1>0, <1>6, <1>8, <3>1, LeftMoved
    <3>4. QED
      BY Zenon, <1>0, <1>1, <1>4, <1>8, <3>2, <3>3, SameWire
  <2>3. QED
    BY Zenon, <2>1, <2>2
<1>9. CASE bytes = <<>> /\ Put(Waste(size)) /\ bytes' = bytes
  <2>1. wire' = Cat(wire, Waste(size)) /\ Waste(size) \in Seq(Bytes)
    BY Zenon, <1>1, <1>5, <1>9 DEF Put, Cat
  <2>2. wire' \in Seq(Bytes)
    BY Zenon, <1>0, <1>4, <2>1
  <2>3. Left' = Cat(Left, Waste(size))
    <3>1. Cat(<<>>, Waste(size)) = Waste(size)
      BY <2>1 DEF Cat
    <3>2. wire' = Cat(wire, Cat(bytes, Waste(size))) /\ bytes' = <<>>
      BY Zenon, <1>9, <2>1, <3>1
    <3>3. QED
      BY Zenon, <1>0, <1>6, <2>1, <3>2, LeftMoved
  <2>4. QED
    BY Zenon, <1>0, <1>1, <1>4, <1>9, <2>2, <2>3, SameWire
<1>10. QED
  BY Zenon, <1>7, <1>8, <1>9 DEF WriteSize, size, k

(* The other steps of the writer. *)
LEMMA WriterWire ==
  ASSUME WireInv, AtMark \/ LoopEnd \/ WriteRest
  PROVE  WireInv' /\ taken' = taken /\ got' = got
<1>0. /\ bytes \in Seq(Bytes) /\ wire \in Seq(Bytes) /\ pending \in Seq(Bytes)
      /\ taken' = taken /\ got' = got /\ pkt' = pkt /\ padding' = padding /\ pending' = pending
  BY Zenon, LeftTypes DEF AtMark, LoopEnd, WriteRest, readerVars
<1>a. /\ \A a, b \in Seq(Bytes) : Cat(a, b) \in Seq(Bytes)
      /\ <<>> \in Seq(Bytes) /\ <<>> \in Seq(0 .. LenMod - 1 \cup {CheckMark})
  <2>1. <<>> \in Seq(0 .. LenMod - 1 \cup {CheckMark})
    OBVIOUS
  <2>2. QED
    BY <2>1, CatFacts
<1>b. sizes \in Seq(0 .. LenMod - 1 \cup {CheckMark}) /\ pc \in {"idle", "loop", "rest"}
  BY Zenon DEF WireInv, TypeOK
<1>1. CASE AtMark
  <2>1. bytes' = bytes /\ wire' = wire /\ pc' = pc /\ Left' = Left
    BY Zenon, <1>0, <1>1 DEF AtMark, Left
  <2>2. sizes' \in Seq(0 .. LenMod - 1 \cup {CheckMark})
    BY Zenon, <1>a, <1>b, <1>1, HeadTailProperties DEF AtMark
  <2>3. pc' = "idle" => bytes' = <<>>
    BY Zenon, <2>1 DEF WireInv
  <2>4. QED
    BY Zenon, <1>0, <1>b, <2>1, <2>2, <2>3, SameWire
<1>2. CASE LoopEnd
  <2>1. bytes' = bytes /\ wire' = wire /\ sizes' = sizes /\ Left' = Left
    BY Zenon, <1>0, <1>2 DEF LoopEnd, Left
  <2>2. pc' \in {"idle", "loop", "rest"} /\ (pc' = "idle" => bytes' = <<>>)
    BY <1>2, <2>1 DEF LoopEnd, AfterLoop
  <2>3. QED
    BY Zenon, <1>0, <1>b, <2>1, <2>2, SameWire
<1>3. CASE WriteRest
  <2>1. wire' = Cat(wire, bytes) /\ bytes' = <<>> /\ sizes' = sizes /\ pc' = "idle"
    BY Zenon, <1>3 DEF WriteRest, Put, Cat
  <2>2. wire' \in Seq(Bytes)
    BY Zenon, <1>0, <1>a, <2>1
  <2>3. Left' = Left
    <3>1. Left' = Cat(Cat(pending, Cat(wire, bytes)), <<>>)
      BY Zenon, <1>0, <2>1 DEF Left
    <3>2. QED
      BY Zenon, <3>1, LeftMoved
  <2>4. QED
    BY Zenon, <1>0, <1>a, <1>b, <2>1, <2>2, <2>3, SameWire
<1>4. QED
  BY Zenon, <1>1, <1>2, <1>3

(* A read leaves what is left as it is. *)
LEMMA ReadWire ==
  ASSUME WireInv, Read
  PROVE  WireInv' /\ taken' = taken /\ got' = got
<1>0. /\ bytes \in Seq(Bytes) /\ wire \in Seq(Bytes) /\ pending \in Seq(Bytes)
      /\ taken' = taken /\ got' = got /\ pkt' = pkt /\ padding' = padding
      /\ bytes' = bytes /\ pc' = pc /\ sizes' = sizes
  BY Zenon, LeftTypes DEF Read, writerVars
<1>1. PICK n \in 1 .. Len(wire) : pending' = pending \o SubSeq(wire, 1, n) /\ wire' = Drop(n, wire)
  BY Zenon DEF Read
<1>2. n \in 0 .. Len(wire)
  OBVIOUS
<1>3. SubSeq(wire, 1, n) \in Seq(Bytes) /\ wire' \in Seq(Bytes)
  BY Zenon, <1>0, <1>1, <1>2, DropElements
<1>4. \A a, b \in Seq(Bytes) : Cat(a, b) \in Seq(Bytes)
  BY CatFacts
<1>5. pending' = Cat(pending, SubSeq(wire, 1, n)) /\ pending' \in Seq(Bytes)
  BY Zenon, <1>0, <1>1, <1>3, <1>4 DEF Cat
<1>6. Left' = Cat(Cat(Cat(pending, SubSeq(wire, 1, n)), Drop(n, wire)), bytes)
  BY Zenon, <1>0, <1>1, <1>5 DEF Left
<1>7. Left' = Left
  BY Zenon, <1>2, <1>6, LeftMoved
<1>8. /\ sizes \in Seq(0 .. LenMod - 1 \cup {CheckMark}) /\ pc \in {"idle", "loop", "rest"}
      /\ pc' = "idle" => bytes' = <<>>
  BY Zenon, <1>0 DEF WireInv, TypeOK
<1>9. QED
  BY Zenon, <1>0, <1>3, <1>5, <1>7, <1>8, SameWire

(* What has been read is the front of what is left. *)
LEMMA PendingFirst ==
  ASSUME WireInv, pending # <<>>
  PROVE  /\ Left # <<>> /\ Left[1] = pending[1] /\ Len(pending) \in Nat \ {0} /\ Len(pending) <= Len(Left)
         /\ \A j \in 1 .. Len(pending) : Left[j] = pending[j]
         /\ FrameLen(Left) = FrameLen(pending)
<1>0. bytes \in Seq(Bytes) /\ wire \in Seq(Bytes) /\ pending \in Seq(Bytes)
  BY Zenon, LeftTypes
<1> DEFINE a == pending
           w == wire
           b == bytes
           S == Bytes
           z == (a \o w) \o b
<1>1. a \in Seq(S) /\ w \in Seq(S) /\ b \in Seq(S) /\ a # <<>>
  BY Zenon, <1>0
<1> HIDE DEF a, w, b, S
<1>2. /\ Len(a) \in Nat \ {0} /\ Len(a) <= Len(z) /\ z \in Seq(S)
      /\ \A j \in 1 .. Len(a) : z[j] = a[j]
  BY <1>1
<1>3. z # <<>> /\ 1 \in 1 .. Len(a)
  BY <1>2
<1>4. z = Left
  BY Zenon DEF z, a, w, b, Left, Cat
<1> HIDE DEF z
<1>5. /\ Left # <<>> /\ Len(pending) \in Nat \ {0} /\ Len(pending) <= Len(Left)
      /\ \A j \in 1 .. Len(pending) : Left[j] = pending[j]
      /\ Left[1] = pending[1]
  BY Zenon, <1>2, <1>3, <1>4 DEF a
<1>6. QED
  BY Zenon, <1>5 DEF FrameLen

(* recv_loop takes the first frame that is left: padding, which it passes  *)
(* over, or the one that follows the last.                                 *)
LEMMA ParseWire ==
  ASSUME WireInv, Parse
  PROVE  /\ WireInv' /\ taken' = taken
         /\ got' = got \/ (Len(got) < taken /\ got' = Append(got, Len(got) + 1))
<1>0. /\ bytes \in Seq(Bytes) /\ wire \in Seq(Bytes) /\ pending \in Seq(Bytes)
      /\ Left \in Seq(Bytes) /\ Len(got) \in Nat /\ taken \in Nat
      /\ taken' = taken /\ pkt' = pkt /\ padding' = padding
      /\ bytes' = bytes /\ pc' = pc /\ sizes' = sizes /\ wire' = wire
  BY Zenon, LeftTypes DEF Parse, writerVars
<1> DEFINE k == FrameLen(pending)
<1>1. pending # <<>>
  <2>1. Len(pending) >= Header /\ Header \in Nat \ {0}
    BY WireAssumption DEF Parse, HasFrame
  <2>2. CASE pending = <<>>
    <3>1. Len(pending) = 0
      BY <2>2
    <3>2. QED
      BY <2>1, <3>1
  <2>3. QED
    BY Zenon, <2>2
<1>2. /\ Left # <<>> /\ Left[1] = pending[1] /\ Len(pending) \in Nat \ {0} /\ FrameLen(Left) = k
      /\ \A j \in 1 .. Len(pending) : Left[j] = pending[j]
  BY Zenon, <1>1, PendingFirst
<1>3. /\ k \in 1 .. Len(Left) /\ \A j \in 1 .. k : Left[j].id = Left[1].id
      /\ \/ Left[1].id = 0 /\ Framed(Drop(k, Left), Len(got), taken)
         \/ /\ Left[1].id = Len(got) + 1 /\ Len(got) + 1 <= taken
            /\ Framed(Drop(k, Left), Len(got) + 1, taken)
  <2>1. Framed(Left, Len(got), taken)
    BY Zenon DEF WireInv
  <2>2. QED
    BY Zenon, <1>0, <1>2, <2>1, FramedFirst
<1>4. k <= Len(pending) /\ pending' = Drop(k, pending)
  BY <1>2 DEF Parse, HasFrame
<1> HIDE DEF k
<1>5. k \in 0 .. Len(pending) /\ \A j \in 1 .. k : j \in 1 .. Len(pending)
  BY <1>2, <1>3, <1>4
<1>6. Left' = Drop(k, Left)
  <2>1. Left' = Cat(Cat(Drop(k, pending), wire), bytes)
    BY Zenon, <1>0, <1>4 DEF Left
  <2>2. QED
    BY Zenon, <1>5, <2>1, LeftMoved
<1>7. Decoded(pending) = Left[1].id
  <2>1. \A j \in 1 .. k : pending[j].id = pending[1].id
    BY Zenon, <1>2, <1>3, <1>5
  <2>2. QED
    BY Zenon, <1>2, <2>1 DEF Decoded, k
<1>8. pending' \in Seq(Bytes)
  BY Zenon, <1>0, <1>4, <1>5, DropElements
<1>9. /\ sizes \in Seq(0 .. LenMod - 1 \cup {CheckMark}) /\ pc \in {"idle", "loop", "rest"}
      /\ pc' = "idle" => bytes' = <<>>
      /\ got \in Seq(-1 .. NumFrames) /\ taken \in 0 .. NumFrames
  BY Zenon, <1>0 DEF WireInv, TypeOK
<1>10. got' = IF Left[1].id = 0 THEN got ELSE Append(got, Left[1].id)
  BY Zenon, <1>7 DEF Parse
<1>11. CASE Left[1].id = 0 /\ Framed(Drop(k, Left), Len(got), taken)
  <2>1. got' = got
    BY Zenon, <1>10, <1>11
  <2>2. Framed(Left', Len(got'), taken')
    BY Zenon, <1>0, <1>6, <1>11, <2>1
  <2>3. TypeOK'
    BY Zenon, <1>0, <1>8, <2>1 DEF WireInv, TypeOK
  <2>4. QED
    BY Zenon, <1>0, <1>9, <2>1, <2>2, <2>3 DEF WireInv
<1>12. CASE /\ Left[1].id = Len(got) + 1 /\ Len(got) + 1 <= taken
            /\ Framed(Drop(k, Left), Len(got) + 1, taken)
  <2>0. Len(got) + 1 # 0 /\ Len(got) < taken /\ Len(got) + 1 \in -1 .. NumFrames
    BY SMTT(30), <1>0, <1>9, <1>12, WireAssumption
  <2>1. got' = Append(got, Len(got) + 1)
    BY Zenon, <1>10, <1>12, <2>0
  <2>2. got' \in Seq(-1 .. NumFrames) /\ Len(got') = Len(got) + 1
    BY <1>9, <2>0, <2>1
  <2>3. Framed(Left', Len(got'), taken')
    BY Zenon, <1>0, <1>6, <1>12, <2>2
  <2>4. TypeOK'
    BY Zenon, <1>0, <1>8, <2>2 DEF WireInv, TypeOK
  <2>5. QED
    BY Zenon, <1>0, <1>9, <2>0, <2>1, <2>3, <2>4 DEF WireInv
<1>13. QED
  BY Zenon, <1>3, <1>11, <1>12

-----------------------------------------------------------------------------
(* The theorems.                                                           *)

(* Every step keeps the invariant, and puts a frame in, delivers the next  *)
(* one or does neither.                                                    *)
LEMMA WireNext ==
  ASSUME WireInv, [Next]_vars
  PROVE  WireInv' /\ [Frames!Put \/ Frames!Deliver]_<<taken, got>>
<1>1. CASE Take
  <2>1. WireInv' /\ taken' = taken + 1 /\ got' = got
    BY Zenon, <1>1, TakeWire
  <2>2. QED
    BY Zenon, <2>1 DEF Frames!Put
<1>2. CASE AtMark \/ WriteSize \/ LoopEnd \/ WriteRest \/ Read
  <2>1. WireInv' /\ taken' = taken /\ got' = got
    BY Zenon, <1>2, WriteSizeWire, WriterWire, ReadWire
  <2>2. QED
    BY Zenon, <2>1
<1>3. CASE Parse
  <2>1. /\ WireInv' /\ taken' = taken
        /\ got' = got \/ (Len(got) < taken /\ got' = Append(got, Len(got) + 1))
    BY Zenon, <1>3, ParseWire
  <2>2. QED
    BY Zenon, <2>1 DEF Frames!Deliver
<1>4. CASE UNCHANGED vars
  <2>1. /\ taken' = taken /\ got' = got /\ pkt' = pkt /\ padding' = padding /\ bytes' = bytes
        /\ wire' = wire /\ pending' = pending /\ sizes' = sizes /\ pc' = pc
    BY Zenon, <1>4 DEF vars, writerVars, readerVars
  <2>2. WireInv'
    BY Zenon, <2>1 DEF WireInv, TypeOK, Left
  <2>3. QED
    BY Zenon, <2>1, <2>2
<1>5. QED
  BY Zenon, <1>1, <1>2, <1>3, <1>4 DEF Next

(* It is an invariant. *)
LEMMA WireInvariant == Spec => []WireInv
<1>1. WireInv /\ [Next]_vars => WireInv'
  BY Zenon, WireNext
<1>2. QED
  BY InitWire, <1>1, PTL DEF Spec

(* Every variable keeps its type: what write_conn puts on the wire and     *)
(* recv_loop has pending are bytes of frames, and a packet counts once.    *)
THEOREM WireTypes == Spec => []TypeOK
<1>1. WireInv => TypeOK
  BY Zenon DEF WireInv
<1>2. QED
  BY WireInvariant, <1>1, PTL

(* However write_conn cuts and pads the frames and the reads cut what      *)
(* arrives, recv_loop handles each frame whole, once and in order, and     *)
(* padding is never taken for a frame: every step of the two is a step of  *)
(* Conduit or leaves it alone.                                             *)
THEOREM WireRefinesConduit == Spec => FramesInOrder
<1>1. Init => Frames!Init
  BY Zenon DEF Init, Frames!Init
<1>2. WireInv /\ [Next]_vars => [Frames!Put \/ Frames!Deliver]_<<taken, got>>
  BY Zenon, WireNext
<1>3. QED
  BY WireInvariant, <1>1, <1>2, PTL DEF Spec, FramesInOrder, Frames!Spec

(* Once the writer rests and everything has been read, recv_loop has       *)
(* handled every frame and no byte is left over to shift those that        *)
(* follow.                                                                 *)
THEOREM WireLeavesNothing == Spec => []NothingLeftOver
<1>1. ASSUME WireInv, pc = "idle", wire = <<>>, ~HasFrame(pending)
      PROVE  pending = <<>> /\ Len(got) = taken
  <2>0. pending \in Seq(Bytes) /\ Left \in Seq(Bytes) /\ Len(got) \in Nat /\ taken \in Nat
    BY Zenon, <1>1, LeftTypes
  <2>1. Left = pending
    <3>1. \A s \in Seq(Bytes) : Cat(s, <<>>) = s
      BY CatFacts
    <3>2. bytes = <<>>
      BY Zenon, <1>1 DEF WireInv
    <3>3. QED
      BY Zenon, <1>1, <2>0, <3>1, <3>2 DEF Left
  <2>2. Framed(pending, Len(got), taken)
    BY Zenon, <1>1, <2>1 DEF WireInv
  <2>3. ASSUME pending # <<>>
        PROVE  FALSE
    <3>1. FrameLen(pending) \in 1 .. Len(pending)
      BY Zenon, <2>0, <2>2, <2>3, FramedFirst
    <3>2. 1 \in 1 .. Len(pending)
      BY <2>0, <2>3, EmptySeq
    <3>3. pending[1].len \in Nat
      BY Zenon, <2>0, <3>2, ByteLen
    <3> DEFINE f == pending[1].len
               l == Len(pending)
    <3>4. Header + f \in 1 .. l /\ f \in Nat /\ Header \in Nat /\ l \in Nat
      BY <2>0, <3>1, <3>3, WireAssumption DEF FrameLen
    <3> HIDE DEF f, l
    <3>5. l >= Header /\ l >= Header + f
      BY <3>4
    <3>6. QED
      BY Zenon, <1>1, <3>5 DEF HasFrame, FrameLen, f, l
  <2>4. QED
    BY Zenon, <2>0, <2>2, <2>3, FramedEnd
<1>2. WireInv => NothingLeftOver
  BY Zenon, <1>1 DEF NothingLeftOver
<1>3. QED
  BY WireInvariant, <1>2, PTL
=============================================================================
